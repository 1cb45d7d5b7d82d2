---------------------------- MODULE EngineHistory ----------------------------
(***************************************************************************)
(* GolEngine with a history of its readback objects, for the statement of  *)
(* readback.rs about copies that were lost.                                *)
(***************************************************************************)
EXTENDS EngineProperties

VARIABLE copied   \* readbacks whose recorded copy has reached a submit

histVars == <<vars, copied>>

HistInit == Init /\ copied = {}

\* The readbacks that are still alive after the step.
Live == {r \in Readbacks : readbacks'[r].state # "Free"}

HistNext ==
  /\ Next
  /\ copied' = (copied \cup (IF Submit THEN {encoder.copy_to} ELSE {})) \cap Live

HistSpec == HistInit /\ [][HistNext]_histVars

Lands == backend = "Gpu" /\ backend' = "Cpu"

\* The map is started only if the recorded copy was submitted: the data a
\* switch completes with was copied from the grid.  (AwaitingSubmit says
\* that the copy was recorded, not that its frame was submitted.)
LandsOnlyCopies == [][Lands => pending_to_cpu \in copied]_histVars
=============================================================================
