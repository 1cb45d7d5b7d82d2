---------------------------- MODULE EngineProofs ----------------------------
(***************************************************************************)
(* Proofs about GolEngine, for every set of edge lengths and grids, every  *)
(* number of readback objects, every modulus of the generation counter,    *)
(* with or without timestamps, lost frames and failing maps.               *)
(***************************************************************************)
EXTENDS EngineProperties, TLAPS

(***************************************************************************)
(* Lemmas about the operators the actions are built from.                  *)
(***************************************************************************)

\* The constants' operators stay in Grids (data of engine.rs's callees).
LEMMA GridTypes ==
  /\ \A n \in Sizes : Blank(n) \in Grids /\ Seeded(n) \in Grids
  /\ \A n \in Sizes : SizeOf(Blank(n)) = n /\ SizeOf(Seeded(n)) = n
  /\ \A g \in Grids : SizeOf(g) \in Sizes
  /\ \A n \in Sizes, s \in Seeds : Soup(s, n) \in Grids /\ SizeOf(Soup(s, n)) = n
  /\ \A g \in Grids, c \in Strokes :
       Stamped(g, c) \in Grids /\ SizeOf(Stamped(g, c)) = SizeOf(g)
  /\ \A g \in Grids, t \in Ticks :
       LifeN(g, t) \in Grids /\ SizeOf(LifeN(g, t)) = SizeOf(g)
BY GridAssumption DEF GridsBehave, GridsOf

\* A counter designates one of the two buffers.
LEMMA SlotType == \A g \in Nat : Slot(g) \in Slots
BY DEF Slot, Slots

\* What a pass leaves is two grids of the size of the one it read.
LEMMA PassType ==
  ASSUME TypeOK, NEW f \in Slots, NEW t \in Ticks
  PROVE  /\ AfterPass(f, t) \in [Slots -> Grids]
         /\ \A n \in Sizes :
              (\A s \in Slots : SizeOf(buffers[s]) = n)
                => \A s \in Slots : SizeOf(AfterPass(f, t)[s]) = n
<1>1. CASE t = 0
  BY <1>1 DEF AfterPass, TypeOK
<1>2. CASE t # 0
  <2>1. t \in Ticks /\ t - 1 \in Ticks
    BY <1>2, GridAssumption DEF GridsBehave, Ticks
  <2>2. buffers[f] \in Grids
    BY DEF TypeOK
  <2>3. /\ LifeN(buffers[f], t) \in Grids
        /\ LifeN(buffers[f], t - 1) \in Grids
        /\ SizeOf(LifeN(buffers[f], t)) = SizeOf(buffers[f])
        /\ SizeOf(LifeN(buffers[f], t - 1)) = SizeOf(buffers[f])
    BY <2>1, <2>2, GridTypes
  <2>. QED
    BY <1>2, <2>3 DEF AfterPass
<1>. QED
  BY <1>1, <1>2

\* The pool after a release, a map started and a copy recorded.
LEMMA PoolTypes ==
  ASSUME TypeOK, NEW p
  PROVE  /\ ReadbackTypeOK
         /\ Unallocated \in [state : ReadbackStates, grid_size : Sizes, buffer : Grids]
         /\ \A n \in Sizes :
              Fresh(n) \in [state : ReadbackStates, grid_size : Sizes, buffer : Grids]
         /\ Released(p) \in [Readbacks -> [state : ReadbackStates,
                                           grid_size : Sizes, buffer : Grids]]
         /\ MapStarted(p) \in [Readbacks -> [state : ReadbackStates,
                                             grid_size : Sizes, buffer : Grids]]
         /\ MarkRecorded(p) \in [Readbacks -> [state : ReadbackStates,
                                               grid_size : Sizes, buffer : Grids]]
<1>1. InitialGrid \in Sizes /\ Blank(InitialGrid) \in Grids
  BY GridAssumption, GridTypes DEF GridsBehave
<1>2. ReadbackTypeOK
  BY DEF TypeOK
<1>3. Unallocated \in [state : ReadbackStates, grid_size : Sizes, buffer : Grids]
  BY <1>1 DEF Unallocated, ReadbackStates
<1>4. \A n \in Sizes :
        Fresh(n) \in [state : ReadbackStates, grid_size : Sizes, buffer : Grids]
  BY GridTypes DEF Fresh, ReadbackStates
<1>. QED
  BY <1>2, <1>3, <1>4 DEF Released, MapStarted, MarkRecorded, ReadbackTypeOK,
     ReadbackStates

-----------------------------------------------------------------------------
(***************************************************************************)
(* Type correctness.                                                       *)
(***************************************************************************)

\* Startup of GolEngine::new is well typed.
LEMMA InitTypes == Init => TypeOK
<1>. SUFFICES ASSUME Init PROVE TypeOK
  OBVIOUS
<1>1. TimingTypeOK
  BY DEF Init, TimingInit, TimingTypeOK
<1>2. ReadbackTypeOK
  BY GridAssumption, GridTypes
     DEF GridsBehave, Init, ReadbackInit, ReadbackTypeOK, Unallocated, ReadbackStates
<1>3. encoder \in [ticks : Ticks, first : Slots,
                   copy_to : Readbacks \cup {NoReadback},
                   copy_src : Slots, timed : BOOLEAN]
  BY GridAssumption DEF GridsBehave, Init, EmptyEncoder, Ticks, Slots
<1>4. generation \in 0 .. GenModulus - 1
  BY EngineAssumption DEF Init
<1>5. buffers \in [Slots -> Grids] /\ cpu \in Grids /\ size \in Sizes
  BY GridAssumption, GridTypes DEF GridsBehave, Init, Slots
<1>. QED
  BY <1>1, <1>2, <1>3, <1>4, <1>5 DEF Init, TypeOK

\* The timer's three states are all it can be in, whatever step does to it.
LEMMA TimingTypes ==
  ASSUME TimingTypeOK, NEW pass,
         TimingStep(pass) \/ TimingMapped \/ TimingMapFailed
  PROVE  TimingTypeOK'
BY DEF TimingTypeOK, TimingStep, TimingMapped, TimingMapFailed, Polled

\* An operation of the host between frames.
LEMMA HostTypes == TypeOK /\ Host => TypeOK'
<1>. SUFFICES ASSUME TypeOK, Host PROVE TypeOK'
  OBVIOUS
<1>. USE DEF TypeOK, ReadbackTypeOK
<1>u. ASSUME NEW s \in Slots, NEW g \in Grids, Upload(s, g)
      PROVE  buffers' \in [Slots -> Grids]
  BY <1>u DEF Upload
<1>g. 0 \in 0 .. GenModulus - 1 /\ 0 \in Slots /\ CurrentSlot \in Slots
  BY EngineAssumption DEF Slots, CurrentSlot, Slot
<1>t. UNCHANGED timingVars => TimingTypeOK'
  BY DEF timingVars, TimingTypeOK
<1>c. Cleared => TypeOK'
  BY <1>u, <1>g, <1>t, GridTypes DEF Cleared
<1>1. CASE SetBackendGpu
  <2>1. readbacks' = Released(pending_to_cpu) /\ pending_to_cpu' = NoReadback
    BY <1>1 DEF SetBackendGpu
  <2>2. ReadbackTypeOK'
    BY <2>1, PoolTypes
  <2>. QED
    BY <1>1, <2>1, <2>2, <1>u, <1>g, <1>t DEF SetBackendGpu
<1>2. CASE SetBackendCpu
  <2>1. CASE UNCHANGED <<pending_to_cpu, readbacks>>
    BY <1>2, <2>1, <1>t DEF SetBackendCpu
  <2>2. ASSUME NEW r \in Readbacks, pending_to_cpu' = r,
               readbacks' = [Released(pending_to_cpu) EXCEPT ![r] = Fresh(size)]
        PROVE  TypeOK'
    <3>1. ReadbackTypeOK'
      BY <2>2, PoolTypes
    <3>. QED
      BY <1>2, <2>2, <3>1, <1>t DEF SetBackendCpu
  <2>. QED
    BY <1>2, <2>1, <2>2 DEF SetBackendCpu
<1>3. CASE Clear
  BY <1>3, <1>c DEF Clear
<1>4. CASE \E n \in Sizes : Resize(n)
  <2>. PICK n \in Sizes : Resize(n)
    BY <1>4
  <2>1. CASE n = size
    BY <2>1, <1>c DEF Resize
  <2>2. CASE n # size
    <3>1. readbacks' = Released(pending_to_cpu) /\ pending_to_cpu' = NoReadback
      BY <2>2 DEF Resize
    <3>2. ReadbackTypeOK'
      BY <3>1, PoolTypes
    <3>3. Blank(n) \in Grids
      BY GridTypes
    <3>. QED
      BY <2>2, <3>1, <3>2, <3>3, <1>g, <1>t DEF Resize
  <2>. QED
    BY <2>1, <2>2
<1>5. CASE \E seed \in Seeds : Randomize(seed)
  BY <1>5, <1>u, <1>g, <1>t, GridTypes DEF Randomize
<1>6. CASE \E cells \in Strokes : Stamp(cells)
  <2>. PICK cells \in Strokes : Stamp(cells)
    BY <1>6
  <2>1. cpu' \in Grids /\ Stamped(buffers[CurrentSlot], cells) \in Grids
    BY <1>g, GridTypes DEF Stamp
  <2>2. buffers' \in [Slots -> Grids]
    BY <2>1, <1>u, <1>g DEF Stamp
  <2>. QED
    BY <2>1, <2>2, <1>t DEF Stamp
<1>. QED
  BY <1>1, <1>2, <1>3, <1>4, <1>5, <1>6 DEF Host

\* Which grid a call of step adopts, and what it leaves in the CPU grid.
LEMMA CpuTicksTypes ==
  ASSUME TypeOK, NEW g \in Grids, NEW ticks \in Ticks, CpuTicks(g, ticks)
  PROVE  /\ cpu' \in Grids
         /\ buffers' \in [Slots -> Grids]
         /\ encoder' \in [ticks : Ticks, first : Slots,
                          copy_to : Readbacks \cup {NoReadback},
                          copy_src : Slots, timed : BOOLEAN]
<1>1. cpu' \in Grids
  BY GridTypes DEF CpuTicks
<1>2. buffers' \in [Slots -> Grids]
  BY <1>1 DEF CpuTicks, Upload, TypeOK
<1>. QED
  BY <1>1, <1>2, GridAssumption DEF GridsBehave, CpuTicks, EmptyEncoder, Ticks, Slots

\* A call of step.
LEMMA StepTypes ==
  ASSUME TypeOK, NEW ticks \in Ticks, Step(ticks)
  PROVE  TypeOK'
<1>. USE DEF TypeOK
<1>g. 0 \in 0 .. GenModulus - 1
  BY EngineAssumption
<1>f. frame' \in {"open", "recorded"} /\ size' \in Sizes
  BY DEF Step
<1>1. CASE StepLanding(ticks)
  <2>1. Adopted(readbacks[pending_to_cpu].buffer) \in Grids
    BY <1>1 DEF StepLanding, IsDone, Adopted, ReadbackTypeOK
  <2>2. TimingTypeOK' /\ CpuTicks(Adopted(readbacks[pending_to_cpu].buffer), ticks)
    BY <1>1, TimingTypes DEF StepLanding
  <2>3. /\ cpu' \in Grids
        /\ buffers' \in [Slots -> Grids]
        /\ encoder' \in [ticks : Ticks, first : Slots,
                         copy_to : Readbacks \cup {NoReadback},
                         copy_src : Slots, timed : BOOLEAN]
    BY <2>1, <2>2, CpuTicksTypes
  <2>4. ReadbackTypeOK'
    BY <1>1, PoolTypes DEF StepLanding, ReadbackTypeOK
  <2>. QED
    BY <1>1, <1>g, <1>f, <2>2, <2>3, <2>4 DEF StepLanding
<1>2. CASE StepCpu(ticks)
  <2>1. TimingTypeOK' /\ CpuTicks(cpu, ticks)
    BY <1>2, TimingTypes DEF StepCpu
  <2>2. /\ cpu' \in Grids
        /\ buffers' \in [Slots -> Grids]
        /\ encoder' \in [ticks : Ticks, first : Slots,
                         copy_to : Readbacks \cup {NoReadback},
                         copy_src : Slots, timed : BOOLEAN]
    BY <2>1, CpuTicksTypes
  <2>3. ReadbackTypeOK'
    BY <1>2, PoolTypes DEF StepCpu, ReadbackTypeOK
  <2>. QED
    BY <1>2, <1>g, <1>f, <2>1, <2>2, <2>3 DEF StepCpu
<1>3. CASE StepGpu(ticks)
  <2>1. TimingTypeOK'
    BY <1>3, TimingTypes DEF StepGpu
  <2>2. ReadbackTypeOK'
    BY <1>3, PoolTypes DEF StepGpu, ReadbackTypeOK
  <2>3. Advanced(ticks) \in 0 .. GenModulus - 1
    BY EngineAssumption, GridAssumption DEF GridsBehave, Advanced, Ticks
  <2>4. CurrentSlot \in Slots /\ CopySource(ticks) \in Slots
    BY <2>3, EngineAssumption, SlotType DEF CurrentSlot, CopySource
  <2>5. StartsPass(ticks > 0) \in BOOLEAN
    BY TimingAssumption DEF StartsPass
  <2>6. encoder' \in [ticks : Ticks, first : Slots,
                      copy_to : Readbacks \cup {NoReadback},
                      copy_src : Slots, timed : BOOLEAN]
    BY <1>3, <2>4, <2>5 DEF StepGpu
  <2>. QED
    BY <1>3, <1>f, <2>1, <2>2, <2>3, <2>6 DEF StepGpu
<1>. QED
  BY <1>1, <1>2, <1>3 DEF Step

\* A frame: a call of step, then the encoder submitted or dropped.
LEMMA FrameTypes == TypeOK /\ Frame => TypeOK'
<1>. SUFFICES ASSUME TypeOK, Frame PROVE TypeOK'
  OBVIOUS
<1>. USE DEF TypeOK
<1>t. UNCHANGED timingVars => TimingTypeOK'
  BY DEF timingVars, TimingTypeOK
<1>e. EmptyEncoder \in [ticks : Ticks, first : Slots,
                        copy_to : Readbacks \cup {NoReadback},
                        copy_src : Slots, timed : BOOLEAN]
  BY GridAssumption DEF GridsBehave, EmptyEncoder, Ticks, Slots
<1>1. CASE \E ticks \in Ticks : Step(ticks)
  BY <1>1, StepTypes
<1>2. CASE Submit
  <2>1. Executed \in [Slots -> Grids]
    BY PassType DEF Executed
  <2>2. ReadbackTypeOK'
    BY <1>2, <2>1 DEF Submit, ReadbackTypeOK
  <2>. QED
    BY <1>2, <1>t, <1>e, <2>1, <2>2 DEF Submit
<1>3. CASE LoseFrame
  BY <1>3, <1>t, <1>e DEF LoseFrame, ReadbackTypeOK
<1>. QED
  BY <1>1, <1>2, <1>3 DEF Frame

\* The map callbacks.
LEMMA BrowserTypes == TypeOK /\ Browser => TypeOK'
<1>. SUFFICES ASSUME TypeOK, Browser PROVE TypeOK'
  OBVIOUS
<1>. USE DEF TypeOK
<1>t. UNCHANGED timingVars => TimingTypeOK'
  BY DEF timingVars, TimingTypeOK
<1>s. ASSUME NEW r, NEW s \in ReadbackStates, CallbackStores(r, pending_to_cpu, s)
      PROVE  ReadbackTypeOK'
  BY <1>s, PoolTypes DEF CallbackStores, ReadbackTypeOK
<1>1. CASE \E r \in Readbacks : ReadbackMapped(r)
  <2>1. ReadbackTypeOK'
    BY <1>1, <1>s DEF ReadbackMapped, MapSucceeds, ReadbackStates
  <2>. QED
    BY <1>1, <1>t, <2>1 DEF ReadbackMapped
<1>2. CASE \E r \in Readbacks : ReadbackMapFailed(r)
  <2>1. ReadbackTypeOK'
    BY <1>2, <1>s DEF ReadbackMapFailed, MapFails, ReadbackStates
  <2>. QED
    BY <1>2, <1>t, <2>1 DEF ReadbackMapFailed
<1>3. CASE SampleMapped \/ SampleMapFailed
  <2>1. TimingTypeOK' /\ UNCHANGED engineVars
    BY <1>3, TimingTypes DEF SampleMapped, SampleMapFailed
  <2>. QED
    BY <2>1 DEF engineVars, ReadbackTypeOK
<1>. QED
  BY <1>1, <1>2, <1>3 DEF Browser

\* Every step of the engine or its surroundings keeps the types.
LEMMA NextTypes == TypeOK /\ [Next]_vars => TypeOK'
<1>. SUFFICES ASSUME TypeOK, [Next]_vars PROVE TypeOK'
  OBVIOUS
<1>1. CASE Next
  BY <1>1, HostTypes, FrameTypes, BrowserTypes DEF Next
<1>2. CASE UNCHANGED vars
  BY <1>2 DEF vars, engineVars, timingVars, TypeOK, TimingTypeOK, ReadbackTypeOK
<1>. QED
  BY <1>1, <1>2

\* Every variable keeps its type: in particular the generation counter stays
\* below its modulus and names a buffer, and the encoder names live slots.
THEOREM TypeCorrect == Spec => []TypeOK
BY InitTypes, NextTypes, PTL DEF Spec

-----------------------------------------------------------------------------
(***************************************************************************)
(* The inductive invariant.                                                *)
(***************************************************************************)
\* The engine starts with one size everywhere and nothing in flight.
LEMMA InitInv == Init => EngineInv
<1>. SUFFICES ASSUME Init PROVE EngineInv
  OBVIOUS
<1>1. SizesAgree
  BY GridAssumption, GridTypes
     DEF GridsBehave, Init, ReadbackInit, Unallocated, SizesAgree, Slots
<1>2. CpuModeSettled
  BY DEF Init, CpuModeSettled
<1>3. HeldReadback
  BY ReadbackAssumption
     DEF Init, ReadbackInit, Unallocated, HeldReadback
<1>4. EncoderOwned
  BY DEF Init, EncoderOwned, EmptyEncoder
<1>. QED
  BY <1>1, <1>2, <1>3, <1>4 DEF EngineInv

\* Once the engine lets go of its readback, no object is held: what is left
\* is free or waits for its callback, with its sizes in agreement.
LEMMA ReleaseLeavesOrphans ==
  ASSUME TypeOK, SizesAgree, HeldReadback
  PROVE  \A r \in Readbacks :
           /\ Released(pending_to_cpu)[r].state \in {"Free", "Mapping"}
           /\ SizeOf(Released(pending_to_cpu)[r].buffer)
                = Released(pending_to_cpu)[r].grid_size
<1>. SUFFICES ASSUME NEW r \in Readbacks
     PROVE  /\ Released(pending_to_cpu)[r].state \in {"Free", "Mapping"}
            /\ SizeOf(Released(pending_to_cpu)[r].buffer)
                 = Released(pending_to_cpu)[r].grid_size
  OBVIOUS
<1>1. SizeOf(Unallocated.buffer) = Unallocated.grid_size
  BY GridAssumption, GridTypes DEF GridsBehave, Unallocated
<1>2. CASE r = pending_to_cpu /\ readbacks[r].state # "Mapping"
  BY <1>1, <1>2 DEF Released, Unallocated
<1>3. CASE ~(r = pending_to_cpu /\ readbacks[r].state # "Mapping")
  BY <1>3 DEF Released, SizesAgree, HeldReadback
<1>. QED
  BY <1>2, <1>3

\* The host's operations keep the invariant.
LEMMA HostInv == TypeOK /\ EngineInv /\ Host => EngineInv'
<1>. SUFFICES ASSUME TypeOK, EngineInv, Host PROVE EngineInv'
  OBVIOUS
<1>. USE DEF EngineInv
<1>e. UNCHANGED <<frame, encoder>> /\ frame = "open" /\ encoder = EmptyEncoder
  BY DEF Host, SetBackendGpu, SetBackendCpu, Clear, Cleared, Resize, Randomize,
         Stamp, EncoderOwned
<1>o. EncoderOwned'
  BY <1>e DEF EncoderOwned, EmptyEncoder
<1>c. CurrentSlot \in Slots /\ 0 \in Slots
  BY EngineAssumption, SlotType DEF CurrentSlot, TypeOK, Slots
<1>s. size \in Sizes /\ cpu \in Grids /\ buffers \in [Slots -> Grids]
  BY DEF TypeOK
<1>l. ASSUME Cleared PROVE EngineInv'
  <2>1. SizeOf(Blank(size)) = size
    BY <1>s, GridTypes
  <2>2. SizesAgree'
    BY <1>l, <1>c, <1>s, <2>1 DEF Cleared, Upload, SizesAgree
  <2>3. CpuModeSettled' /\ HeldReadback'
    BY <1>l DEF Cleared, CpuModeSettled, HeldReadback, IsFree
  <2>. QED
    BY <2>2, <2>3, <1>o
<1>1. CASE SetBackendGpu
  <2>1. /\ readbacks' = Released(pending_to_cpu)
        /\ pending_to_cpu' = NoReadback
        /\ UNCHANGED <<size, cpu>>
        /\ backend' = "Gpu"
    BY <1>1 DEF SetBackendGpu
  <2>2. \A r \in Slots : SizeOf(buffers'[r]) = size
    BY <1>1, <1>c, <1>s DEF SetBackendGpu, Upload, SizesAgree
  <2>3. SizesAgree'
    BY <2>1, <2>2, ReleaseLeavesOrphans DEF SizesAgree
  <2>4. CpuModeSettled'
    BY <2>1 DEF CpuModeSettled
  <2>5. HeldReadback'
    BY <2>1, ReleaseLeavesOrphans, ReadbackAssumption DEF HeldReadback
  <2>. QED
    BY <2>3, <2>4, <2>5, <1>o
<1>2. CASE SetBackendCpu
  <2>1. CASE UNCHANGED <<pending_to_cpu, readbacks>>
    <3>1. SizesAgree' /\ CpuModeSettled' /\ HeldReadback'
      BY <1>2, <2>1
         DEF SetBackendCpu, SizesAgree, CpuModeSettled, HeldReadback, IsFree
    <3>. QED
      BY <3>1, <1>o
  <2>2. ASSUME backend = "Gpu", NEW r \in Readbacks, pending_to_cpu' = r,
               readbacks' = [Released(pending_to_cpu) EXCEPT ![r] = Fresh(size)]
        PROVE  EngineInv'
    <3>1. /\ Fresh(size).state = "NeedsRecord"
          /\ Fresh(size).grid_size = size
          /\ SizeOf(Fresh(size).buffer) = size
      BY <1>s, GridTypes DEF Fresh
    <3>2. readbacks' = [q \in Readbacks |-> IF q = r THEN Fresh(size)
                                            ELSE Released(pending_to_cpu)[q]]
      BY <2>2 DEF Released
    <3>3. UNCHANGED <<backend, size, generation, buffers, cpu>>
      BY <1>2 DEF SetBackendCpu
    <3>4. SizesAgree'
      BY <3>1, <3>2, <3>3, ReleaseLeavesOrphans DEF SizesAgree
    <3>5. CpuModeSettled'
      BY <2>2, <3>3 DEF CpuModeSettled
    <3>6. HeldReadback'
      BY <2>2, <3>1, <3>2, <3>3, ReleaseLeavesOrphans DEF HeldReadback, IsFree
    <3>. QED
      BY <3>4, <3>5, <3>6, <1>o
  <2>. QED
    BY <1>2, <2>1, <2>2 DEF SetBackendCpu
<1>3. CASE Clear
  BY <1>3, <1>l DEF Clear
<1>4. CASE \E n \in Sizes : Resize(n)
  <2>. PICK n \in Sizes : Resize(n)
    BY <1>4
  <2>1. CASE n = size
    BY <2>1, <1>l DEF Resize
  <2>2. CASE n # size
    <3>1. /\ readbacks' = Released(pending_to_cpu)
          /\ pending_to_cpu' = NoReadback
          /\ size' = n
          /\ buffers' = [s \in Slots |-> Blank(n)]
          /\ cpu' = Blank(n)
          /\ generation' = 0
      BY <2>2 DEF Resize
    <3>2. SizeOf(Blank(n)) = n
      BY GridTypes
    <3>3. SizesAgree'
      BY <3>1, <3>2, ReleaseLeavesOrphans DEF SizesAgree
    <3>4. CpuModeSettled'
      BY <3>1 DEF CpuModeSettled
    <3>5. HeldReadback'
      BY <3>1, ReleaseLeavesOrphans, ReadbackAssumption DEF HeldReadback
    <3>. QED
      BY <3>3, <3>4, <3>5, <1>o
  <2>. QED
    BY <2>1, <2>2
<1>5. CASE \E seed \in Seeds : Randomize(seed)
  <2>. PICK seed \in Seeds : Randomize(seed)
    BY <1>5
  <2>1. SizesAgree'
    BY <1>c, <1>s, GridTypes DEF Randomize, Upload, SizesAgree
  <2>2. CpuModeSettled' /\ HeldReadback'
    BY DEF Randomize, CpuModeSettled, HeldReadback, IsFree
  <2>. QED
    BY <2>1, <2>2, <1>o
<1>6. CASE \E cells \in Strokes : Stamp(cells)
  <2>. PICK cells \in Strokes : Stamp(cells)
    BY <1>6
  <2>1. SizesAgree'
    <3>1. SizeOf(Stamped(cpu, cells)) = size
      BY <1>s, GridTypes DEF SizesAgree
    <3>2. SizeOf(Stamped(buffers[CurrentSlot], cells)) = size
      BY <1>s, <1>c, GridTypes DEF SizesAgree
    <3>. QED
      BY <3>1, <3>2, <1>c, <1>s DEF Stamp, Upload, SizesAgree
  <2>2. CpuModeSettled' /\ HeldReadback'
    BY DEF Stamp, CpuModeSettled, HeldReadback, IsFree
  <2>. QED
    BY <2>1, <2>2, <1>o
<1>. QED
  BY <1>1, <1>2, <1>3, <1>4, <1>5, <1>6 DEF Host

\* step_cpu leaves pictures of the size it found.
LEMMA CpuTicksSizes ==
  ASSUME TypeOK, SizesAgree, NEW g \in Grids, SizeOf(g) = size,
         NEW ticks \in Ticks, CpuTicks(g, ticks)
  PROVE  SizeOf(cpu') = size /\ \A s \in Slots : SizeOf(buffers'[s]) = size
<1>1. SizeOf(cpu') = size
  BY GridTypes DEF CpuTicks
<1>2. \A s \in Slots : SizeOf(buffers'[s]) = size
  BY <1>1 DEF CpuTicks, Upload, TypeOK, SizesAgree
<1>. QED
  BY <1>1, <1>2

\* A map that starts changes nothing but the state of the readback held.
LEMMA MapStartedKeeps ==
  ASSUME TypeOK, SizesAgree, HeldReadback
  PROVE  \A r \in Readbacks :
           /\ SizeOf(MapStarted(pending_to_cpu)[r].buffer)
                = MapStarted(pending_to_cpu)[r].grid_size
           /\ IF r = pending_to_cpu
                THEN /\ MapStarted(pending_to_cpu)[r].state # "Free"
                     /\ MapStarted(pending_to_cpu)[r].grid_size = size
                ELSE MapStarted(pending_to_cpu)[r].state \in {"Free", "Mapping"}
<1>. SUFFICES ASSUME NEW r \in Readbacks
     PROVE  /\ SizeOf(MapStarted(pending_to_cpu)[r].buffer)
                 = MapStarted(pending_to_cpu)[r].grid_size
            /\ IF r = pending_to_cpu
                 THEN /\ MapStarted(pending_to_cpu)[r].state # "Free"
                      /\ MapStarted(pending_to_cpu)[r].grid_size = size
                 ELSE MapStarted(pending_to_cpu)[r].state \in {"Free", "Mapping"}
  OBVIOUS
<1>1. CASE r = pending_to_cpu /\ readbacks[r].state = "AwaitingSubmit"
  <2>1. MapStarted(pending_to_cpu)[r] = [readbacks[r] EXCEPT !.state = "Mapping"]
    BY <1>1 DEF MapStarted
  <2>2. readbacks[r] \in [state : ReadbackStates, grid_size : Sizes, buffer : Grids]
    BY DEF TypeOK, ReadbackTypeOK
  <2>. QED
    BY <1>1, <2>1, <2>2 DEF SizesAgree, HeldReadback
<1>2. CASE ~(r = pending_to_cpu /\ readbacks[r].state = "AwaitingSubmit")
  BY <1>2 DEF MapStarted, SizesAgree, HeldReadback, IsFree
<1>. QED
  BY <1>1, <1>2

\* A call of step keeps the invariant, whichever of its ways it goes.
LEMMA StepInv ==
  ASSUME TypeOK, EngineInv, NEW ticks \in Ticks, Step(ticks)
  PROVE  EngineInv'
<1>. USE DEF EngineInv
<1>f. frame = "open" /\ frame' = "recorded" /\ size' = size
      /\ encoder = EmptyEncoder
  BY DEF Step, EncoderOwned
<1>1. CASE StepLanding(ticks)
  <2>1. pending_to_cpu \in Readbacks
    BY <1>1 DEF StepLanding, IsDone
  <2>2. /\ readbacks' = Released(pending_to_cpu)
        /\ pending_to_cpu' = NoReadback
        /\ generation' = 0
        /\ CpuTicks(Adopted(readbacks[pending_to_cpu].buffer), ticks)
    BY <1>1 DEF StepLanding
  <2>3. Adopted(readbacks[pending_to_cpu].buffer) \in Grids
        /\ SizeOf(Adopted(readbacks[pending_to_cpu].buffer)) = size
    BY <2>1 DEF Adopted, TypeOK, ReadbackTypeOK, SizesAgree
  <2>4. SizesAgree'
    BY <1>f, <2>2, <2>3, CpuTicksSizes, ReleaseLeavesOrphans DEF SizesAgree
  <2>5. CpuModeSettled'
    BY <2>2 DEF CpuModeSettled
  <2>6. HeldReadback'
    BY <2>2, ReleaseLeavesOrphans, ReadbackAssumption DEF HeldReadback
  <2>7. EncoderOwned'
    BY <1>f, <2>2 DEF CpuTicks, EmptyEncoder, EncoderOwned
  <2>. QED
    BY <2>4, <2>5, <2>6, <2>7
<1>2. CASE StepCpu(ticks)
  <2>1. /\ readbacks' = MapStarted(pending_to_cpu)
        /\ pending_to_cpu' = pending_to_cpu
        /\ CpuTicks(cpu, ticks)
        /\ cpu \in Grids
    BY <1>2 DEF StepCpu, TypeOK
  <2>2. SizesAgree'
    BY <1>f, <2>1, CpuTicksSizes, MapStartedKeeps DEF SizesAgree
  <2>3. CpuModeSettled'
    BY <1>2 DEF StepCpu, CpuModeSettled
  <2>4. HeldReadback'
    BY <1>f, <2>1, MapStartedKeeps DEF HeldReadback, IsFree
  <2>5. EncoderOwned'
    BY <1>f, <2>1 DEF CpuTicks, EmptyEncoder, EncoderOwned
  <2>. QED
    BY <2>2, <2>3, <2>4, <2>5
<1>3. CASE StepGpu(ticks)
  <2>1. /\ backend' = "Gpu"
        /\ UNCHANGED <<buffers, cpu, pending_to_cpu>>
        /\ encoder'.copy_to = IF RecordsCopy THEN pending_to_cpu ELSE NoReadback
        /\ encoder'.timed = StartsPass(ticks > 0)
        /\ TimingStep(ticks > 0)
        /\ readbacks' = IF RecordsCopy THEN MarkRecorded(pending_to_cpu)
                                       ELSE MapStarted(pending_to_cpu)
    BY <1>3 DEF StepGpu
  <2>2. CpuModeSettled'
    BY <2>1 DEF CpuModeSettled
  <2>3. encoder'.timed => timing' = "Submitted"
    BY <2>1 DEF TimingStep
  <2>4. CASE RecordsCopy
    <3>1. pending_to_cpu \in Readbacks
      BY <2>4 DEF RecordsCopy, NeedsRecord
    <3>2. readbacks' = [readbacks EXCEPT ![pending_to_cpu].state = "AwaitingSubmit"]
      BY <2>1, <2>4 DEF MarkRecorded
    <3>3. \A r \in Readbacks :
            /\ readbacks'[r].buffer = readbacks[r].buffer
            /\ readbacks'[r].grid_size = readbacks[r].grid_size
            /\ readbacks'[r].state = IF r = pending_to_cpu THEN "AwaitingSubmit"
                                     ELSE readbacks[r].state
      BY <3>1, <3>2 DEF TypeOK, ReadbackTypeOK
    <3>4. SizesAgree' /\ HeldReadback'
      BY <1>f, <2>1, <3>3 DEF SizesAgree, HeldReadback, IsFree
    <3>5. EncoderOwned'
      BY <1>f, <2>1, <2>3, <2>4, <3>1, <3>3 DEF EncoderOwned
    <3>. QED
      BY <2>2, <3>4, <3>5
  <2>5. CASE ~RecordsCopy
    <3>1. SizesAgree' /\ HeldReadback'
      BY <1>f, <2>1, <2>5, MapStartedKeeps DEF SizesAgree, HeldReadback, IsFree
    <3>2. EncoderOwned'
      BY <1>f, <2>1, <2>3, <2>5 DEF EncoderOwned
    <3>. QED
      BY <2>2, <3>1, <3>2
  <2>. QED
    BY <2>4, <2>5
<1>. QED
  BY <1>1, <1>2, <1>3 DEF Step

\* The frame's end keeps the invariant.
LEMMA FrameInv == TypeOK /\ EngineInv /\ Frame => EngineInv'
<1>. SUFFICES ASSUME TypeOK, EngineInv, Frame PROVE EngineInv'
  OBVIOUS
<1>. USE DEF EngineInv
<1>1. CASE \E ticks \in Ticks : Step(ticks)
  BY <1>1, StepInv
<1>2. CASE Submit
  <2>1. encoder.first \in Slots /\ encoder.ticks \in Ticks /\ encoder.copy_src \in Slots
    BY DEF TypeOK
  <2>2. /\ Executed \in [Slots -> Grids]
        /\ \A s \in Slots : SizeOf(Executed[s]) = size
    BY <2>1, PassType DEF Executed, SizesAgree, TypeOK
  <2>3. \A r \in Readbacks :
          /\ readbacks'[r].state = readbacks[r].state
          /\ readbacks'[r].grid_size = readbacks[r].grid_size
          /\ readbacks'[r].buffer = IF r = encoder.copy_to
                                      THEN Executed[encoder.copy_src]
                                      ELSE readbacks[r].buffer
    BY <1>2 DEF Submit, TypeOK, ReadbackTypeOK
  <2>4. UNCHANGED <<backend, size, generation, cpu, pending_to_cpu>>
        /\ buffers' = Executed /\ frame' = "open" /\ encoder' = EmptyEncoder
    BY <1>2 DEF Submit
  <2>5. \A r \in Readbacks : r = encoder.copy_to => readbacks[r].grid_size = size
    BY ReadbackAssumption DEF EncoderOwned, HeldReadback
  <2>6. SizesAgree'
    BY <2>1, <2>2, <2>3, <2>4, <2>5 DEF SizesAgree
  <2>7. CpuModeSettled' /\ HeldReadback'
    BY <2>3, <2>4 DEF CpuModeSettled, HeldReadback, IsFree
  <2>8. EncoderOwned'
    BY <2>4 DEF EncoderOwned, EmptyEncoder
  <2>. QED
    BY <2>6, <2>7, <2>8
<1>3. CASE LoseFrame
  BY <1>3 DEF LoseFrame, SizesAgree, CpuModeSettled, HeldReadback, IsFree,
     EncoderOwned, EmptyEncoder
<1>. QED
  BY <1>1, <1>2, <1>3 DEF Frame

\* A map callback keeps the invariant: it reaches only its own object.
LEMMA BrowserInv == TypeOK /\ EngineInv /\ Browser => EngineInv'
<1>. SUFFICES ASSUME TypeOK, EngineInv, Browser PROVE EngineInv'
  OBVIOUS
<1>. USE DEF EngineInv
<1>s. ASSUME NEW r \in Readbacks, NEW s \in {"Done", "NeedsRecord"},
             CallbackStores(r, pending_to_cpu, s),
             UNCHANGED <<backend, size, generation, buffers, cpu, pending_to_cpu,
                         frame, encoder, timingVars>>
      PROVE  EngineInv'
  <2>1. \A q \in Readbacks : q # r => readbacks'[q] = readbacks[q]
    BY <1>s DEF CallbackStores, TypeOK, ReadbackTypeOK
  <2>2. r = pending_to_cpu =>
          /\ readbacks'[r].state = s
          /\ readbacks'[r].buffer = readbacks[r].buffer
          /\ readbacks'[r].grid_size = readbacks[r].grid_size
    BY <1>s DEF CallbackStores, TypeOK, ReadbackTypeOK
  <2>3. r # pending_to_cpu => readbacks'[r] = Unallocated
    BY <1>s DEF CallbackStores, TypeOK, ReadbackTypeOK
  <2>4. SizeOf(Unallocated.buffer) = Unallocated.grid_size
        /\ Unallocated.state = "Free"
    BY GridAssumption, GridTypes DEF GridsBehave, Unallocated
  <2>5. SizesAgree'
    BY <1>s, <2>1, <2>2, <2>3, <2>4 DEF SizesAgree
  <2>6. HeldReadback'
    BY <1>s, <2>1, <2>2, <2>3, <2>4 DEF HeldReadback, IsFree
  <2>7. CpuModeSettled'
    BY <1>s DEF CpuModeSettled
  <2>8. EncoderOwned'
    BY <1>s, <2>1 DEF EncoderOwned, CallbackStores, timingVars
  <2>. QED
    BY <2>5, <2>6, <2>7, <2>8
<1>1. CASE \E r \in Readbacks : ReadbackMapped(r)
  BY <1>1, <1>s DEF ReadbackMapped, MapSucceeds
<1>2. CASE \E r \in Readbacks : ReadbackMapFailed(r)
  BY <1>2, <1>s DEF ReadbackMapFailed, MapFails
<1>3. CASE SampleMapped \/ SampleMapFailed
  BY <1>3 DEF SampleMapped, SampleMapFailed, TimingMapped, TimingMapFailed,
     engineVars, SizesAgree, CpuModeSettled, HeldReadback, IsFree, EncoderOwned
<1>. QED
  BY <1>1, <1>2, <1>3 DEF Browser

\* Sizes agree, CPU mode is settled, at most one readback is held and only
\* it is live, and the encoder copies only into buffers that await it.
THEOREM EngineInvariant == Spec => []EngineInv
<1>1. Init => EngineInv
  BY InitInv
<1>2. TypeOK /\ EngineInv /\ [Next]_vars => EngineInv'
  <2>. SUFFICES ASSUME TypeOK, EngineInv, [Next]_vars PROVE EngineInv'
    OBVIOUS
  <2>1. CASE Next
    BY <2>1, HostInv, FrameInv, BrowserInv DEF Next
  <2>2. CASE UNCHANGED vars
    BY <2>2 DEF vars, engineVars, timingVars, EngineInv, SizesAgree,
       CpuModeSettled, HeldReadback, IsFree, EncoderOwned
  <2>. QED
    BY <2>1, <2>2
<1>. QED
  BY <1>1, <1>2, TypeCorrect, PTL DEF Spec

\* No frame is submitted with a copy into a buffer that is mapped or about
\* to be, for the grid's readback and the timer's.
THEOREM SubmitSafe == Spec => []NothingMappedIsSubmitted
<1>1. EngineInv => NothingMappedIsSubmitted
  BY DEF EngineInv, EncoderOwned, NothingMappedIsSubmitted
<1>. QED
  BY <1>1, EngineInvariant, PTL

\* A readback that lands has the size of the CPU grid it is adopted into,
\* through every resize, cancellation, replacement and late callback.
THEOREM LandingSafe == Spec => []LandingFits
<1>1. EngineInv => LandingFits
  BY DEF EngineInv, SizesAgree, HeldReadback, LandingFits, IsDone
<1>. QED
  BY <1>1, EngineInvariant, PTL

\* In CPU mode the display, once it shows the CPU grid, follows every edit
\* and every tick.
THEOREM DisplaySafe == Spec => CpuDisplayKeepsUp
<1>. DEFINE KeepsUp == backend = "Cpu" /\ backend' = "Cpu" /\ Shown = cpu => Shown' = cpu'
<1>1. TypeOK /\ TypeOK' /\ EngineInv /\ EngineInv' /\ [Next]_vars => [KeepsUp]_vars
  <2>. SUFFICES ASSUME TypeOK, TypeOK', EngineInv, EngineInv', Next,
                       backend = "Cpu", backend' = "Cpu", Shown = cpu
                PROVE  Shown' = cpu'
    OBVIOUS
  <2>1. encoder.ticks = 0 /\ encoder'.ticks = 0
    BY GridAssumption DEF GridsBehave, EngineInv, EncoderOwned, TypeOK, Ticks
  <2>2. Shown = buffers[0] /\ Shown' = buffers'[0]
    BY <2>1 DEF Shown, RenderSlot, Executed, AfterPass
  <2>3. CurrentSlot = 0 /\ pending_to_cpu = NoReadback
    BY DEF EngineInv, CpuModeSettled, CurrentSlot, Slot
  <2>4. ASSUME NEW g, Upload(0, g) PROVE buffers'[0] = g
    BY <2>4 DEF Upload, TypeOK, Slots
  <2>5. ASSUME Cleared PROVE Shown' = cpu'
    BY <2>2, <2>3, <2>4, <2>5 DEF Cleared
  <2>6. UNCHANGED <<buffers, cpu>> => Shown' = cpu'
    BY <2>2
  <2>7. CASE Host
    <3>1. CASE SetBackendGpu
      BY <3>1 DEF SetBackendGpu
    <3>2. CASE SetBackendCpu
      BY <3>2, <2>6 DEF SetBackendCpu
    <3>3. CASE Clear
      BY <3>3, <2>5 DEF Clear
    <3>4. CASE \E n \in Sizes : Resize(n)
      <4>. PICK n \in Sizes : Resize(n)
        BY <3>4
      <4>1. CASE n = size
        BY <4>1, <2>5 DEF Resize
      <4>2. CASE n # size
        BY <4>2, <2>2 DEF Resize, Slots
      <4>. QED
        BY <4>1, <4>2
    <3>5. CASE \E seed \in Seeds : Randomize(seed)
      BY <3>5, <2>2, <2>3, <2>4 DEF Randomize
    <3>6. CASE \E cells \in Strokes : Stamp(cells)
      BY <3>6, <2>2, <2>3, <2>4 DEF Stamp
    <3>. QED
      BY <2>7, <3>1, <3>2, <3>3, <3>4, <3>5, <3>6 DEF Host
  <2>8. CASE Frame
    <3>1. ASSUME NEW ticks \in Ticks, Step(ticks) PROVE Shown' = cpu'
      <4>1. StepCpu(ticks)
        BY <3>1, <2>3, ReadbackAssumption DEF Step, StepLanding, StepGpu, IsDone
      <4>2. CpuTicks(cpu, ticks)
        BY <4>1 DEF StepCpu
      <4>3. CASE ticks > 0
        BY <4>2, <4>3, <2>2, <2>4 DEF CpuTicks
      <4>4. CASE ~(ticks > 0)
        <5>1. ticks = 0
          BY <4>4, GridAssumption DEF GridsBehave, Ticks
        <5>2. buffers' = buffers /\ cpu' = cpu
          BY <4>2, <5>1, GridAssumption DEF GridsBehave, CpuTicks, TypeOK
        <5>. QED
          BY <5>2, <2>2
      <4>. QED
        BY <4>3, <4>4
    <3>2. CASE Submit
      BY <3>2, <2>1, <2>6 DEF Submit, Executed, AfterPass
    <3>3. CASE LoseFrame
      BY <3>3, <2>6 DEF LoseFrame
    <3>. QED
      BY <2>8, <3>1, <3>2, <3>3 DEF Frame
  <2>9. CASE Browser
    BY <2>9, <2>6 DEF Browser, ReadbackMapped, ReadbackMapFailed, SampleMapped,
       SampleMapFailed, engineVars
  <2>. QED
    BY <2>7, <2>8, <2>9 DEF Next
<1>. QED
  BY <1>1, EngineInvariant, TypeCorrect, PTL DEF Spec, CpuDisplayKeepsUp
=============================================================================
