-------------------------- MODULE EngineRefinement --------------------------
(***************************************************************************)
(* GolEngine implements Simulation, frames lost and maps failing included. *)
(* A switch has captured the grid once the frame that records the copy has *)
(* ended (the engine does not learn how) and until a map fails; what it    *)
(* holds is what its readback buffer holds.                                *)
(***************************************************************************)
EXTENDS EngineProperties

CONSTANT NoSnapshot

ASSUME SnapshotAssumption == NoSnapshot \notin Grids

Captured ==
  /\ pending_to_cpu # NoReadback
  /\ \/ readbacks[pending_to_cpu].state \in {"Mapping", "Done"}
     \/ /\ readbacks[pending_to_cpu].state = "AwaitingSubmit"
        /\ encoder.copy_to # pending_to_cpu

SwitchRequest ==
  IF pending_to_cpu = NoReadback THEN "none"
  ELSE IF Captured THEN "captured" ELSE "wanted"

Snapshot == IF pending_to_cpu = NoReadback THEN NoSnapshot
            ELSE readbacks[pending_to_cpu].buffer

\* The grid in charge and the other buffer, as they are without the work
\* that is recorded and not yet submitted.
Unsubmitted == <<IF backend = "Gpu" THEN buffers[CurrentSlot] ELSE cpu,
                 buffers[1 - CurrentSlot]>>

Sim == INSTANCE Simulation WITH
         mode     <- backend,
         grid     <- Authoritative,
         hidden   <- Executed[1 - CurrentSlot],
         undo     <- Unsubmitted,
         request  <- SwitchRequest,
         snapshot <- Snapshot

\* The buffers, the counter, the encoder, the readback objects and their
\* callbacks amount to a grid, a picture beside it and a switch: every step
\* of the engine is a step of Simulation, or changes nothing it can see.
ImplementsSimulation == Sim!SimSpec
=============================================================================
