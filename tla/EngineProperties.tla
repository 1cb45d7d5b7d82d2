--------------------------- MODULE EngineProperties -------------------------
(***************************************************************************)
(* What must hold of GolEngine, and what the repository says of it that    *)
(* the code does not do (the last section).                                *)
(***************************************************************************)
EXTENDS GolEngine

(***************************************************************************)
(* The inductive invariant, by parts.                                      *)
(***************************************************************************)

\* Every picture the engine keeps has the edge length of the grid.
SizesAgree ==
  /\ SizeOf(cpu) = size
  /\ \A s \in Slots : SizeOf(buffers[s]) = size
  /\ \A r \in Readbacks : SizeOf(readbacks[r].buffer) = readbacks[r].grid_size

\* In CPU mode no switch is in flight and slot 0 is the current slot, which
\* is what lets clear, randomize and stamp upload to "the current buffer".
CpuModeSettled ==
  backend = "Cpu" => pending_to_cpu = NoReadback /\ generation = 0

\* The readback held is live, of the grid's size; any other object is free
\* or waits for its callback.
HeldReadback ==
  \A r \in Readbacks :
    IF r = pending_to_cpu
      THEN ~IsFree(r) /\ readbacks[r].grid_size = size
      ELSE readbacks[r].state \in {"Free", "Mapping"}

\* The encoder holds work only between step and submit, and the copies in
\* it belong to a readback and a timer that wait for that submit.
EncoderOwned ==
  /\ frame = "open" => encoder = EmptyEncoder
  /\ encoder.copy_to # NoReadback =>
       /\ encoder.copy_to = pending_to_cpu
       /\ readbacks[pending_to_cpu].state = "AwaitingSubmit"
  /\ encoder.timed => timing = "Submitted"
  /\ encoder.ticks > 0 => backend = "Gpu"

EngineInv ==
  /\ SizesAgree
  /\ CpuModeSettled
  /\ HeldReadback
  /\ EncoderOwned

-----------------------------------------------------------------------------
(***************************************************************************)
(* Safety.                                                                 *)
(***************************************************************************)

\* No frame is submitted with a copy into a buffer that is mapped or about
\* to be: the "buffer used in submit while mapped" error that step's order
\* (poll, then record) is there to avoid, for both readback buffers.
NothingMappedIsSubmitted ==
  frame = "recorded" =>
    /\ encoder.timed => timing # "Mapping"
    /\ encoder.copy_to # NoReadback =>
         readbacks[encoder.copy_to].state # "Mapping"

\* A readback that lands fits the CPU grid, so adopt never takes its early
\* return: the engine would go to CPU mode with a picture from nowhere.
LandingFits ==
  IsDone(pending_to_cpu) =>
    SizeOf(readbacks[pending_to_cpu].buffer) = SizeOf(cpu)

\* Once slot 0 shows the CPU grid it never falls behind: no edit and no tick
\* in CPU mode reaches the CPU grid without reaching the display.
CpuDisplayKeepsUp ==
  [][backend = "Cpu" /\ backend' = "Cpu" /\ Shown = cpu => Shown' = cpu']_vars

-----------------------------------------------------------------------------
(***************************************************************************)
(* Liveness, under the fairness GolApp states.                             *)
(***************************************************************************)

\* No readback is held for ever: it lands, or is cancelled or replaced.
ReadbackResolves ==
  \A r \in Readbacks : (pending_to_cpu = r) ~> (pending_to_cpu # r)

\* The timer always comes back to idle, so the next pass can be timed.
TimerReturns == (timing # "Idle") ~> (timing = "Idle")

-----------------------------------------------------------------------------
(***************************************************************************)
(* Statements of the repository that the code does not keep.               *)
(***************************************************************************)

\* clear leaves the grid of the backend in charge blank.
ClearBlanks == [][Clear => Authoritative' = Blank(size)]_vars

\* Switching the backend preserves the current grid.
SwitchPreservesGrid == [][backend' # backend => Authoritative' = Authoritative]_vars

\* In CPU mode slot 0, which render binds, holds the CPU grid.
CpuModeShowsCpu == frame = "open" /\ backend = "Cpu" => Shown = cpu
=============================================================================
