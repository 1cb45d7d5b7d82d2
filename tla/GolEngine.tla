----------------------------- MODULE GolEngine ------------------------------
(***************************************************************************)
(* GolEngine of engine/src/engine.rs with its Grid (buffers.rs), its CPU   *)
(* shadow (cpu.rs), its timer and its readback.  A host calls the edit     *)
(* operations and then step once per frame, submits what step recorded,    *)
(* and draws; the browser runs map callbacks in between.                   *)
(*                                                                         *)
(* Writes through the queue take effect at once: they are ordered before   *)
(* the encoder of their frame, and no frame writes after it records.       *)
(* Commands in the encoder take effect when it is submitted.               *)
(***************************************************************************)
EXTENDS GpuTiming, Readback

CONSTANTS
  GenModulus,      \* 2^64 in the code: where generation wraps around
  MayLoseFrames,   \* may a recorded encoder be dropped unsubmitted?
  MayFailMaps      \* may map_async report an error?

ASSUME EngineAssumption ==
  /\ GenModulus \in Nat
  /\ GenModulus > 0
  /\ GenModulus % 2 = 0
  /\ MayLoseFrames \in BOOLEAN
  /\ MayFailMaps \in BOOLEAN

VARIABLES
  backend,          \* the backend that is authoritative
  size,             \* grid.size
  generation,       \* buffers[generation % 2] is current in GPU mode
  buffers,          \* the two storage buffers
  cpu,              \* CpuSim's front grid; its back grid is scratch
  pending_to_cpu,   \* the readback held, or NoReadback
  frame,            \* "open" to host calls, or "recorded" by step
  encoder           \* what step recorded this frame

engineVars == <<backend, size, generation, buffers, cpu, pending_to_cpu,
                readbacks, frame, encoder>>

vars == <<engineVars, timingVars>>

Slots == {0, 1}

\* The slot a generation counter designates.
Slot(g) == g % 2

CurrentSlot == Slot(generation)

EmptyEncoder == [ticks |-> 0, first |-> 0, copy_to |-> NoReadback,
                 copy_src |-> 0, timed |-> FALSE]

TypeOK ==
  /\ TimingTypeOK
  /\ ReadbackTypeOK
  /\ backend \in {"Gpu", "Cpu"}
  /\ size \in Sizes
  /\ generation \in 0 .. GenModulus - 1
  /\ buffers \in [Slots -> Grids]
  /\ cpu \in Grids
  /\ pending_to_cpu \in Readbacks \cup {NoReadback}
  /\ frame \in {"open", "recorded"}
  /\ encoder \in [ticks : Ticks, first : Slots,
                  copy_to : Readbacks \cup {NoReadback},
                  copy_src : Slots, timed : BOOLEAN]

Init ==
  /\ TimingInit
  /\ ReadbackInit
  /\ backend = "Gpu"
  /\ size = InitialGrid
  /\ generation = 0
  /\ buffers = [s \in Slots |-> IF s = 0 THEN Seeded(InitialGrid)
                                         ELSE Blank(InitialGrid)]
  /\ cpu = Blank(InitialGrid)
  /\ pending_to_cpu = NoReadback
  /\ frame = "open"
  /\ encoder = EmptyEncoder

-----------------------------------------------------------------------------
(***************************************************************************)
(* What the GPU holds.  A compute pass of t dispatches that starts reading *)
(* slot f alternates the slots: the last two generations stay behind.      *)
(***************************************************************************)
AfterPass(f, t) ==
  IF t = 0 THEN buffers
  ELSE [s \in Slots |-> IF s = Slot(f + t) THEN LifeN(buffers[f], t)
                                           ELSE LifeN(buffers[f], t - 1)]

\* The buffers once the work recorded this frame has run.
Executed == AfterPass(encoder.first, encoder.ticks)

\* The slot render binds.
RenderSlot == IF backend = "Gpu" THEN CurrentSlot ELSE 0

\* What the next frame shows if it is drawn now, and the grid of the
\* backend in charge, which is what it ought to show.
Shown == Executed[RenderSlot]
Authoritative == IF backend = "Gpu" THEN Executed[CurrentSlot] ELSE cpu

-----------------------------------------------------------------------------
(***************************************************************************)
(* Operations of the host, between frames.                                 *)
(***************************************************************************)
Upload(slot, grid) == buffers' = [buffers EXCEPT ![slot] = grid]

\* Fault: a set_backend that returns before it cancels.
SetBackendGpuReturnsFirst ==
  /\ frame = "open"
  /\ \/ /\ backend = "Gpu"
        /\ UNCHANGED <<backend, generation, buffers>>
     \/ /\ backend = "Cpu"
        /\ Upload(0, cpu)
        /\ generation' = 0
        /\ backend' = "Gpu"
  /\ UNCHANGED <<size, cpu, pending_to_cpu, readbacks, frame, encoder, timingVars>>

\* set_backend(Gpu): cancel a switch in flight, and leave CPU mode.
SetBackendGpu ==
  /\ frame = "open"
  /\ pending_to_cpu' = NoReadback
  /\ readbacks' = Released(pending_to_cpu)
  /\ \/ /\ backend = "Gpu"
        /\ UNCHANGED <<backend, generation, buffers>>
     \/ /\ backend = "Cpu"
        /\ Upload(0, cpu)
        /\ generation' = 0
        /\ backend' = "Gpu"
  /\ UNCHANGED <<size, cpu, frame, encoder, timingVars>>

\* set_backend(Cpu): hold a fresh readback in place of any earlier one.
SetBackendCpu ==
  /\ frame = "open"
  /\ \/ /\ backend = "Cpu"
        /\ UNCHANGED <<pending_to_cpu, readbacks>>
     \/ /\ backend = "Gpu"
        /\ \E r \in Readbacks :
             /\ IsFree(r)
             /\ pending_to_cpu' = r
             /\ readbacks' = [Released(pending_to_cpu) EXCEPT ![r] = Fresh(size)]
  /\ UNCHANGED <<backend, size, generation, buffers, cpu, frame, encoder,
                 timingVars>>

\* The body of clear.
Cleared ==
  /\ cpu' = Blank(size)
  /\ Upload(CurrentSlot, Blank(size))
  /\ generation' = 0
  /\ UNCHANGED <<backend, size, pending_to_cpu, readbacks, frame, encoder,
                 timingVars>>

Clear ==
  /\ frame = "open"
  /\ Cleared

\* Fault: a resize that lets a readback in flight go on.
ResizeKeepsReadback(new_size) ==
  /\ frame = "open"
  /\ new_size # size
  /\ size' = new_size
  /\ buffers' = [s \in Slots |-> Blank(new_size)]
  /\ cpu' = Blank(new_size)
  /\ generation' = 0
  /\ UNCHANGED <<backend, pending_to_cpu, readbacks, frame, encoder, timingVars>>

\* resize: a clear at the same size; otherwise new buffers, a new CPU grid,
\* and no readback.  The backend stays.
Resize(new_size) ==
  /\ frame = "open"
  /\ \/ /\ new_size = size
        /\ Cleared
     \/ /\ new_size # size
        /\ pending_to_cpu' = NoReadback
        /\ readbacks' = Released(pending_to_cpu)
        /\ size' = new_size
        /\ buffers' = [s \in Slots |-> Blank(new_size)]
        /\ cpu' = Blank(new_size)
        /\ generation' = 0
        /\ UNCHANGED <<backend, frame, encoder, timingVars>>

\* randomize: the soup is drawn in the CPU grid and uploaded.
Randomize(seed) ==
  /\ frame = "open"
  /\ cpu' = Soup(seed, size)
  /\ Upload(CurrentSlot, cpu')
  /\ UNCHANGED <<backend, size, generation, pending_to_cpu, readbacks, frame,
                 encoder, timingVars>>

\* stamp: the CPU grid always, and the current buffer, whole from the CPU
\* grid in CPU mode and cell by cell in GPU mode.
Stamp(cells) ==
  /\ frame = "open"
  /\ cpu' = Stamped(cpu, cells)
  /\ Upload(CurrentSlot, IF backend = "Cpu" THEN cpu'
                         ELSE Stamped(buffers[CurrentSlot], cells))
  /\ UNCHANGED <<backend, size, generation, pending_to_cpu, readbacks, frame,
                 encoder, timingVars>>

-----------------------------------------------------------------------------
(***************************************************************************)
(* step(encoder, ticks), once per frame, by the state it finds.            *)
(***************************************************************************)

\* Fault: the upload of step_cpu taken before its ticks.
CpuTicksUploadedFirst(g, ticks) ==
  /\ cpu' = LifeN(g, ticks)
  /\ encoder' = EmptyEncoder
  /\ IF ticks > 0 THEN Upload(0, g) ELSE UNCHANGED buffers

\* step_cpu on grid g: slot 0 is uploaded only when a tick runs.
CpuTicks(g, ticks) ==
  /\ cpu' = LifeN(g, ticks)
  /\ encoder' = EmptyEncoder
  /\ IF ticks > 0 THEN Upload(0, cpu') ELSE UNCHANGED buffers

\* CpuSim::adopt ignores data of the wrong length.
Adopted(g) == IF SizeOf(g) = SizeOf(cpu) THEN g ELSE cpu

\* Fault: a landing that leaves the generation counter to step_cpu.
StepLandingKeepsGeneration(ticks) ==
  /\ IsDone(pending_to_cpu)
  /\ backend' = "Cpu"
  /\ generation' = IF ticks > 0 THEN 0 ELSE generation
  /\ pending_to_cpu' = NoReadback
  /\ readbacks' = Released(pending_to_cpu)
  /\ CpuTicks(Adopted(readbacks[pending_to_cpu].buffer), ticks)
  /\ TimingStep(FALSE)

\* The readback has landed: adopt it and go on in CPU mode.
StepLanding(ticks) ==
  /\ IsDone(pending_to_cpu)
  /\ backend' = "Cpu"
  /\ generation' = 0
  /\ pending_to_cpu' = NoReadback
  /\ readbacks' = Released(pending_to_cpu)
  /\ CpuTicks(Adopted(readbacks[pending_to_cpu].buffer), ticks)
  /\ TimingStep(FALSE)

StepCpu(ticks) ==
  /\ ~IsDone(pending_to_cpu)
  /\ backend = "Cpu"
  /\ generation' = IF ticks > 0 THEN 0 ELSE generation
  /\ readbacks' = MapStarted(pending_to_cpu)
  /\ CpuTicks(cpu, ticks)
  /\ TimingStep(FALSE)
  /\ UNCHANGED <<backend, pending_to_cpu>>

\* The copy is recorded into the frame that finds the readback unrecorded.
RecordsCopy ==
  /\ NeedsRecord(pending_to_cpu)
  /\ readbacks[pending_to_cpu].grid_size = size

\* Fault: a counter that does not wrap.
AdvancedUnwrapped(ticks) == generation + ticks

\* The counter after the dispatches of step_gpu.
Advanced(ticks) == (generation + ticks) % GenModulus

\* Fault: the copy taken from the slot that was current before the pass.
CopySourceBeforePass(ticks) == CurrentSlot

\* The copy is recorded after the pass, from the slot it leaves current.
CopySource(ticks) == Slot(Advanced(ticks))

StepGpu(ticks) ==
  /\ ~IsDone(pending_to_cpu)
  /\ backend = "Gpu"
  /\ generation' = Advanced(ticks)
  /\ encoder' = [ticks |-> ticks,
                 first |-> CurrentSlot,
                 copy_to |-> IF RecordsCopy THEN pending_to_cpu ELSE NoReadback,
                 copy_src |-> CopySource(ticks),
                 timed |-> StartsPass(ticks > 0)]
  /\ readbacks' = IF RecordsCopy THEN MarkRecorded(pending_to_cpu)
                                 ELSE MapStarted(pending_to_cpu)
  /\ TimingStep(ticks > 0)
  /\ UNCHANGED <<backend, buffers, cpu, pending_to_cpu>>

Step(ticks) ==
  /\ frame = "open"
  /\ frame' = "recorded"
  /\ StepLanding(ticks) \/ StepCpu(ticks) \/ StepGpu(ticks)
  /\ UNCHANGED size

-----------------------------------------------------------------------------
(***************************************************************************)
(* The host's frame ends: the encoder is submitted, or dropped when there  *)
(* is no surface to draw into.                                             *)
(***************************************************************************)
Submit ==
  /\ frame = "recorded"
  /\ frame' = "open"
  /\ buffers' = Executed
  /\ readbacks' = [r \in Readbacks |->
                     IF r = encoder.copy_to
                       THEN [readbacks[r] EXCEPT !.buffer = Executed[encoder.copy_src]]
                       ELSE readbacks[r]]
  /\ encoder' = EmptyEncoder
  /\ UNCHANGED <<backend, size, generation, cpu, pending_to_cpu, timingVars>>

LoseFrame ==
  /\ MayLoseFrames
  /\ frame = "recorded"
  /\ frame' = "open"
  /\ encoder' = EmptyEncoder
  /\ UNCHANGED <<backend, size, generation, buffers, cpu, pending_to_cpu,
                 readbacks, timingVars>>

(***************************************************************************)
(* Map callbacks, from the browser's event loop.                           *)
(***************************************************************************)
ReadbackMapped(r) ==
  /\ MapSucceeds(r, pending_to_cpu)
  /\ UNCHANGED <<backend, size, generation, buffers, cpu, pending_to_cpu,
                 frame, encoder, timingVars>>

ReadbackMapFailed(r) ==
  /\ MayFailMaps
  /\ MapFails(r, pending_to_cpu)
  /\ UNCHANGED <<backend, size, generation, buffers, cpu, pending_to_cpu,
                 frame, encoder, timingVars>>

SampleMapped == TimingMapped /\ UNCHANGED engineVars

SampleMapFailed == MayFailMaps /\ TimingMapFailed /\ UNCHANGED engineVars

-----------------------------------------------------------------------------
Host ==
  \/ SetBackendGpu
  \/ SetBackendCpu
  \/ Clear
  \/ \E n \in Sizes : Resize(n)
  \/ \E seed \in Seeds : Randomize(seed)
  \/ \E cells \in Strokes : Stamp(cells)

Frame ==
  \/ \E ticks \in Ticks : Step(ticks)
  \/ Submit
  \/ LoseFrame

Browser ==
  \/ \E r \in Readbacks : ReadbackMapped(r)
  \/ \E r \in Readbacks : ReadbackMapFailed(r)
  \/ SampleMapped
  \/ SampleMapFailed

Next == Host \/ Frame \/ Browser

Spec == Init /\ [][Next]_vars
=============================================================================
