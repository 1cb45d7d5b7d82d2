-------------------------- MODULE RefinementProofs --------------------------
(***************************************************************************)
(* Proof that GolEngine implements Simulation, for every grid type, pool   *)
(* of readbacks, number of ticks and counter, with frames that may be lost *)
(* and maps that may fail.                                                 *)
(***************************************************************************)
EXTENDS EngineRefinement, EngineHistory, EngineProofs

\* A copy is recorded from the slot that its frame leaves current.
CopyIsCurrent == encoder.copy_to # NoReadback => encoder.copy_src = CurrentSlot

\* What the refinement maps to: pictures of the engine's size, which are the
\* buffers when the frame is open.
Views ==
  /\ Executed \in [Slots -> Grids]
  /\ \A s \in Slots : SizeOf(Executed[s]) = size
  /\ Authoritative \in Grids /\ SizeOf(Authoritative) = size
  /\ frame = "open" => Executed = buffers /\ encoder = EmptyEncoder
  /\ CurrentSlot \in Slots /\ 1 - CurrentSlot \in Slots

\* The buffers as the frame's work leaves them are grids of the engine's size.
LEMMA ViewTypes == TypeOK /\ EngineInv => Views
<1>. SUFFICES ASSUME TypeOK, EngineInv PROVE Views
  OBVIOUS
<1>1. encoder.first \in Slots /\ encoder.ticks \in Ticks /\ size \in Sizes
  BY DEF TypeOK
<1>2. /\ Executed \in [Slots -> Grids]
      /\ \A s \in Slots : SizeOf(Executed[s]) = size
  BY <1>1, PassType DEF Executed, EngineInv, SizesAgree
<1>3. CurrentSlot \in Slots /\ 1 - CurrentSlot \in Slots
  BY DEF TypeOK, CurrentSlot, Slot, Slots
<1>4. Authoritative \in Grids /\ SizeOf(Authoritative) = size
  BY <1>2, <1>3 DEF Authoritative, TypeOK, EngineInv, SizesAgree
<1>5. frame = "open" => Executed = buffers /\ encoder = EmptyEncoder
  BY DEF EngineInv, EncoderOwned, Executed, AfterPass, EmptyEncoder
<1>. QED
  BY <1>2, <1>3, <1>4, <1>5 DEF Views

\* And so they are after a step.
LEMMA ViewTypesNext == TypeOK' /\ EngineInv' => Views'
BY ViewTypes, PTL

\* A switch is as it was when its readback, and what is recorded for it, are.
LEMMA SameSwitch ==
  ASSUME UNCHANGED <<pending_to_cpu, readbacks>>, encoder'.copy_to = encoder.copy_to
  PROVE  SwitchRequest' = SwitchRequest /\ Snapshot' = Snapshot
BY DEF SwitchRequest, Snapshot, Captured

\* When nothing is recorded, nothing can be lost.
LEMMA SettledView == Executed' = buffers' => Sim!Settled
BY DEF Sim!Settled, Unsubmitted, Authoritative

\* Without a readback there is no switch.
LEMMA NoSwitchView ==
  /\ pending_to_cpu = NoReadback => SwitchRequest = "none" /\ Snapshot = NoSnapshot
  /\ pending_to_cpu' = NoReadback => SwitchRequest' = "none" /\ Snapshot' = NoSnapshot
BY DEF SwitchRequest, Snapshot, Captured

\* The engine starts as Simulation does.
LEMMA InitImplements == Init => Sim!SimInit
<1>. SUFFICES ASSUME Init PROVE Sim!SimInit
  OBVIOUS
<1>1. Executed = buffers /\ CurrentSlot = 0
  BY DEF Init, Executed, AfterPass, EmptyEncoder, CurrentSlot, Slot
<1>2. /\ buffers[0] = Seeded(InitialGrid)
      /\ buffers[1] = Blank(InitialGrid)
  BY DEF Init, Slots
<1>3. SwitchRequest = "none" /\ Snapshot = NoSnapshot
  BY NoSwitchView DEF Init
<1>. QED
  BY <1>1, <1>2, <1>3 DEF Init, Sim!SimInit, Authoritative, Unsubmitted
-----------------------------------------------------------------------------
(***************************************************************************)
(* Steps.  Good is the invariant, before and after.                        *)
(***************************************************************************)
Good == TypeOK /\ EngineInv

LEMMA GoodViews ==
  ASSUME Good, Good'
  PROVE  Views /\ Views'
BY ViewTypes, ViewTypesNext DEF Good

\* A step that puts a picture in place of the grid, and leaves the switch, the
\* backend and the other buffer alone.
LEMMA GridStep ==
  ASSUME Good, Good', NEW g, frame' = "open", UNCHANGED backend,
         SwitchRequest' = SwitchRequest, Snapshot' = Snapshot, Authoritative' = g,
         Executed'[1 - CurrentSlot'] = Executed[1 - CurrentSlot]
  PROVE  Sim!Becomes(g)
<1>1. Sim!Settled
  BY GoodViews, SettledView DEF Views
<1>. QED
  BY <1>1 DEF Sim!Becomes, Sim!switchVars

\* set_backend(Gpu) cancels a switch, or goes back with the very same grid.
LEMMA SetGpuImplements ==
  ASSUME Good, Good', SetBackendGpu
  PROVE  Sim!Cancel \/ Sim!Return
<1>1. /\ SwitchRequest' = "none" /\ Snapshot' = NoSnapshot
      /\ Executed = buffers /\ Executed' = buffers'
  BY NoSwitchView, GoodViews DEF SetBackendGpu, Views
<1>2. CASE backend = "Gpu"
  BY <1>1, <1>2 DEF SetBackendGpu, Sim!Cancel, Sim!NoSwitch, Authoritative,
     CurrentSlot, Unsubmitted
<1>3. CASE backend = "Cpu"
  <2>1. buffers' = [buffers EXCEPT ![0] = cpu] /\ generation' = 0 /\ backend' = "Gpu"
        /\ size' = size
    BY <1>3 DEF SetBackendGpu, Upload
  <2>2. generation = 0 /\ pending_to_cpu = NoReadback
    BY <1>3 DEF Good, EngineInv, CpuModeSettled
  <2>3. /\ CurrentSlot = 0 /\ CurrentSlot' = 0
        /\ buffers'[0] = cpu /\ buffers'[1] = buffers[1]
    BY <2>1, <2>2 DEF CurrentSlot, Slot, Slots, Good, TypeOK
  <2>4. UNCHANGED <<Authoritative, Executed[1 - CurrentSlot], Unsubmitted>>
    BY <1>1, <1>3, <2>1, <2>3 DEF Authoritative, Unsubmitted
  <2>5. SwitchRequest = "none" /\ Snapshot = NoSnapshot
    BY <2>2, NoSwitchView
  <2>. QED
    BY <1>1, <1>3, <2>1, <2>4, <2>5 DEF Sim!Return, Sim!switchVars
<1>. QED
  BY <1>2, <1>3 DEF Good, TypeOK

\* set_backend(Cpu) asks for a switch, in place of any before it.
LEMMA SetCpuImplements ==
  ASSUME Good, Good', SetBackendCpu
  PROVE  Sim!Request \/ UNCHANGED Sim!simVars
<1>1. UNCHANGED <<backend, Authoritative, Executed, CurrentSlot, Unsubmitted>>
  BY DEF SetBackendCpu, Authoritative, Executed, AfterPass, CurrentSlot, Unsubmitted
<1>2. CASE backend = "Cpu"
  <2>1. SwitchRequest' = SwitchRequest /\ Snapshot' = Snapshot
    BY <1>2, SameSwitch DEF SetBackendCpu
  <2>. QED
    BY <1>1, <2>1 DEF Sim!simVars
<1>3. CASE backend = "Gpu"
  <2>1. PICK r \in Readbacks :
          /\ pending_to_cpu' = r
          /\ readbacks' = [Released(pending_to_cpu) EXCEPT ![r] = Fresh(size)]
    BY <1>3 DEF SetBackendCpu
  <2>2. readbacks'[r].state = "NeedsRecord" /\ readbacks'[r].buffer = Blank(size)
    BY <2>1 DEF Released, Fresh
  <2>3. SizeOf(Authoritative) = size
    BY GoodViews DEF Views
  <2>4. SwitchRequest' = "wanted" /\ Snapshot' = Blank(SizeOf(Authoritative))
    BY <2>1, <2>2, <2>3, ReadbackAssumption DEF SwitchRequest, Snapshot, Captured
  <2>. QED
    BY <1>1, <1>3, <2>4 DEF Sim!Request
<1>. QED
  BY <1>2, <1>3 DEF Good, TypeOK

\* clear blanks the grid, or uncovers the hidden picture and blanks the one
\* in charge.
LEMMA ClearImplements ==
  ASSUME Good, Good', frame = "open", Cleared
  PROVE  Sim!ClearGrid
<1>1. /\ UNCHANGED <<backend, size, pending_to_cpu, readbacks, encoder, frame>>
      /\ cpu' = Blank(size) /\ generation' = 0
      /\ buffers' = [buffers EXCEPT ![CurrentSlot] = Blank(size)]
  BY DEF Cleared, Upload
<1>2. /\ SwitchRequest' = SwitchRequest /\ Snapshot' = Snapshot
      /\ Executed = buffers /\ Executed' = buffers'
      /\ SizeOf(Authoritative) = size
  BY <1>1, SameSwitch, GoodViews DEF Views
<1>3. CurrentSlot' = 0 /\ CurrentSlot \in {0, 1} /\ buffers \in [{0, 1} -> Grids]
  BY <1>1 DEF CurrentSlot, Slot, Slots, Good, TypeOK
<1>4. CASE backend = "Cpu" \/ CurrentSlot = 0
  <2>1. CurrentSlot = 0
    BY <1>4 DEF CurrentSlot, Slot, Good, EngineInv, CpuModeSettled
  <2>2. Authoritative' = Blank(size) /\ Executed'[1 - CurrentSlot'] = Executed[1 - CurrentSlot]
    BY <1>1, <1>2, <1>3, <1>4, <2>1 DEF Authoritative
  <2>3. Sim!Becomes(Blank(size))
    BY <1>1, <1>2, <2>2, GridStep
  <2>. QED
    BY <1>2, <2>3 DEF Sim!ClearGrid
<1>5. CASE backend = "Gpu" /\ CurrentSlot = 1
  <2>1. Authoritative' = Executed[1 - CurrentSlot]
    BY <1>1, <1>2, <1>3, <1>5 DEF Authoritative
  <2>2. Executed'[1 - CurrentSlot'] = Blank(size)
    BY <1>1, <1>2, <1>3, <1>5
  <2>3. Sim!Settled
    BY <1>2, SettledView
  <2>. QED
    BY <1>1, <1>2, <1>5, <2>1, <2>2, <2>3 DEF Sim!ClearGrid, Sim!switchVars
<1>. QED
  BY <1>3, <1>4, <1>5 DEF Good, TypeOK

\* resize is a clear, or a blank grid of another size without a switch.
LEMMA ResizeImplements ==
  ASSUME Good, Good', NEW n \in Sizes, Resize(n)
  PROVE  Sim!ClearGrid \/ Sim!ResizeGrid
<1>1. CASE n = size
  <2>1. frame = "open" /\ Cleared
    BY <1>1 DEF Resize
  <2>. QED
    BY <2>1, ClearImplements
<1>2. CASE n # size
  <2>1. /\ pending_to_cpu' = NoReadback /\ backend' = backend
        /\ buffers' = [s \in Slots |-> Blank(n)] /\ cpu' = Blank(n)
        /\ frame' = "open"
    BY <1>2 DEF Resize
  <2>2. /\ Executed' = buffers' /\ SizeOf(Authoritative) = size
        /\ CurrentSlot' \in Slots /\ 1 - CurrentSlot' \in Slots
    BY <2>1, GoodViews DEF Views
  <2>3. Authoritative' = Blank(n) /\ Executed'[1 - CurrentSlot'] = Blank(n)
    BY <2>1, <2>2 DEF Authoritative
  <2>4. SwitchRequest' = "none" /\ Snapshot' = NoSnapshot /\ Sim!Settled
    BY <2>1, <2>2, NoSwitchView, SettledView
  <2>. QED
    BY <1>2, <2>1, <2>2, <2>3, <2>4 DEF Sim!ResizeGrid, Sim!NoSwitch
<1>. QED
  BY <1>1, <1>2

\* randomize and stamp change the grid and nothing else.
LEMMA EditImplements ==
  ASSUME Good, Good',
         (\E s \in Seeds : Randomize(s)) \/ (\E c \in Strokes : Stamp(c))
  PROVE  Sim!Randomized \/ Sim!Paint
<1>1. /\ UNCHANGED <<backend, size, pending_to_cpu, readbacks, encoder, frame, generation>>
      /\ frame = "open"
  BY DEF Randomize, Stamp
<1>2. /\ SwitchRequest' = SwitchRequest /\ Snapshot' = Snapshot
      /\ Executed = buffers /\ Executed' = buffers'
      /\ SizeOf(Authoritative) = size
  BY <1>1, SameSwitch, GoodViews DEF Views
<1>3. /\ CurrentSlot' = CurrentSlot /\ CurrentSlot \in Slots
      /\ buffers \in [Slots -> Grids]
  BY <1>1, GoodViews DEF CurrentSlot, Views, Good, TypeOK
<1>4. ASSUME NEW s \in Seeds, Randomize(s) PROVE Sim!Randomized
  <2>1. cpu' = Soup(s, size) /\ buffers' = [buffers EXCEPT ![CurrentSlot] = cpu']
    BY <1>4 DEF Randomize, Upload
  <2>2. /\ Authoritative' = Soup(s, size)
        /\ Executed'[1 - CurrentSlot'] = Executed[1 - CurrentSlot]
    BY <1>2, <1>3, <2>1 DEF Authoritative, Slots
  <2>3. Sim!Becomes(Soup(s, size))
    BY <1>1, <1>2, <2>2, GridStep
  <2>. QED
    BY <1>2, <2>3 DEF Sim!Randomized
<1>5. ASSUME NEW c \in Strokes, Stamp(c) PROVE Sim!Paint
  <2>1. /\ cpu' = Stamped(cpu, c)
        /\ buffers' = [buffers EXCEPT ![CurrentSlot] =
                         IF backend = "Cpu" THEN cpu' ELSE Stamped(buffers[CurrentSlot], c)]
    BY <1>5 DEF Stamp, Upload
  <2>2. backend \in {"Gpu", "Cpu"}
    BY DEF Good, TypeOK
  <2>3. /\ Authoritative' = Stamped(Authoritative, c)
        /\ Executed'[1 - CurrentSlot'] = Executed[1 - CurrentSlot]
    BY <1>1, <1>2, <1>3, <2>1, <2>2 DEF Authoritative, Slots
  <2>4. Sim!Becomes(Stamped(Authoritative, c))
    BY <1>1, <1>2, <2>3, GridStep
  <2>. QED
    BY <2>4 DEF Sim!Paint
<1>. QED
  BY <1>4, <1>5
-----------------------------------------------------------------------------
(***************************************************************************)
(* A call of step.                                                         *)
(***************************************************************************)

\* A landing brings the captured grid, some generations on.
LEMMA LandingImplements ==
  ASSUME Good, Good', frame = "open", size' = size, NEW ticks \in Ticks,
         StepLanding(ticks)
  PROVE  Sim!Land
<1>1. /\ pending_to_cpu \in Readbacks /\ readbacks[pending_to_cpu].state = "Done"
      /\ pending_to_cpu # NoReadback
  BY ReadbackAssumption DEF StepLanding, IsDone
<1>2. backend = "Gpu" /\ backend' = "Cpu" /\ pending_to_cpu' = NoReadback
  BY <1>1 DEF StepLanding, Good, TypeOK, EngineInv, CpuModeSettled
<1>3. SwitchRequest = "captured" /\ Snapshot = readbacks[pending_to_cpu].buffer
  BY <1>1 DEF SwitchRequest, Snapshot, Captured
<1>4. SizeOf(readbacks[pending_to_cpu].buffer) = SizeOf(cpu)
  BY <1>1 DEF Good, EngineInv, SizesAgree, HeldReadback
<1>5. cpu' = LifeN(Snapshot, ticks)
  BY <1>3, <1>4 DEF StepLanding, CpuTicks, Adopted
<1>6. Authoritative' = LifeN(Snapshot, ticks)
  BY <1>2, <1>5 DEF Authoritative
<1>7. /\ Executed'[1 - CurrentSlot'] \in {Authoritative, Executed[1 - CurrentSlot]}
      /\ Sim!Settled
  <2>1. encoder' = EmptyEncoder /\ generation' = 0
        /\ (buffers' = [buffers EXCEPT ![0] = cpu'] \/ buffers' = buffers)
    BY DEF StepLanding, CpuTicks, Upload
  <2>2. Executed' = buffers' /\ Executed = buffers /\ CurrentSlot \in {0, 1}
        /\ buffers \in [{0, 1} -> Grids]
    BY <2>1, GoodViews DEF Executed, AfterPass, EmptyEncoder, Views, Slots, Good, TypeOK
  <2>3. CurrentSlot' = 0 /\ buffers'[1] = buffers[1]
    BY <2>1, <2>2 DEF CurrentSlot, Slot
  <2>4. Executed'[1 - CurrentSlot'] = buffers[1]
    BY <2>2, <2>3
  <2>. QED
    BY <1>2, <2>2, <2>4, SettledView DEF Authoritative
<1>8. SwitchRequest' = "none" /\ Snapshot' = NoSnapshot
  BY <1>2, NoSwitchView
<1>9. \E t \in Sim!Ticks : Authoritative' = LifeN(Snapshot, t)
  BY <1>6 DEF Sim!Ticks, Ticks
<1>. QED
  BY <1>2, <1>3, <1>7, <1>8, <1>9 DEF Sim!Land, Sim!NoSwitch

\* In CPU mode a step is its ticks.
LEMMA CpuImplements ==
  ASSUME Good, Good', frame = "open", size' = size, NEW ticks \in Ticks,
         StepCpu(ticks)
  PROVE  Sim!Tick(ticks)
<1>1. /\ backend = "Cpu" /\ backend' = "Cpu"
      /\ pending_to_cpu = NoReadback /\ pending_to_cpu' = NoReadback
      /\ generation = 0 /\ generation' = 0
  BY DEF StepCpu, Good, EngineInv, CpuModeSettled
<1>2. Authoritative' = LifeN(Authoritative, ticks)
  BY <1>1 DEF StepCpu, CpuTicks, Authoritative
<1>3. SwitchRequest' = SwitchRequest /\ Snapshot' = Snapshot
  BY <1>1, NoSwitchView
<1>4. Executed'[1 - CurrentSlot'] = Executed[1 - CurrentSlot] /\ Sim!Settled
  <2>1. encoder' = EmptyEncoder
        /\ (buffers' = [buffers EXCEPT ![0] = cpu'] \/ buffers' = buffers)
    BY DEF StepCpu, CpuTicks, Upload
  <2>2. Executed' = buffers' /\ Executed = buffers /\ buffers \in [{0, 1} -> Grids]
    BY <2>1, GoodViews DEF Executed, AfterPass, EmptyEncoder, Views, Slots, Good, TypeOK
  <2>3. CurrentSlot = 0 /\ CurrentSlot' = 0 /\ buffers'[1] = buffers[1]
    BY <1>1, <2>1, <2>2 DEF CurrentSlot, Slot
  <2>. QED
    BY <2>2, <2>3, SettledView
<1>. QED
  BY <1>1, <1>2, <1>3, <1>4 DEF Sim!Tick, Sim!switchVars

\* The parity of a counter that wraps at an even number is the parity of one
\* that does not.
LEMMA WrapKeepsParity ==
  ASSUME NEW g \in Nat, NEW t \in Nat
  PROVE  Slot((g + t) % GenModulus) = Slot(Slot(g) + t)
<1>. DEFINE m == GenModulus
            k == g + t
<1>1. m \in Nat /\ m > 0 /\ m % 2 = 0 /\ k \in Nat
  BY EngineAssumption
<1>2. (k % 2) = ((g % 2) + t) % 2
  OBVIOUS
<1>. HIDE DEF m, k
<1>3. PICK h \in Nat : m = 2 * h
  <2>1. m = 2 * (m \div 2) /\ m \div 2 \in Nat
    BY <1>1
  <2>. QED
    BY <2>1
<1>4. k = (m * (k \div m)) + (k % m) /\ k \div m \in Nat /\ k % m \in Nat
  BY <1>1
<1>5. m * (k \div m) = 2 * (h * (k \div m)) /\ h * (k \div m) \in Nat
  BY <1>3, <1>4
<1>6. \A a, b, c \in Nat : a = (2 * b) + c => a % 2 = c % 2
  OBVIOUS
<1>7. k % 2 = (k % m) % 2
  <2>. DEFINE b == h * (k \div m)
              c == k % m
  <2>1. b \in Nat /\ c \in Nat /\ k = (2 * b) + c
    BY <1>4, <1>5
  <2>. HIDE DEF b, c
  <2>2. k % 2 = c % 2
    BY <1>1, <1>6, <2>1
  <2>. QED
    BY <2>2 DEF c
<1>. QED
  BY <1>2, <1>7 DEF Slot, m, k

\* In GPU mode the pass is its ticks, and the copy that may be recorded with
\* it captures nothing yet; a copy recorded before stays captured.
LEMMA GpuImplements ==
  ASSUME Good, Good', frame = "open", size' = size, NEW ticks \in Ticks,
         StepGpu(ticks)
  PROVE  Sim!Tick(ticks) /\ CopyIsCurrent'
<1>1. /\ backend = "Gpu" /\ backend' = "Gpu" /\ buffers' = buffers
      /\ pending_to_cpu' = pending_to_cpu
      /\ generation' = (generation + ticks) % GenModulus
      /\ encoder'.ticks = ticks /\ encoder'.first = CurrentSlot
      /\ encoder'.copy_to = IF RecordsCopy THEN pending_to_cpu ELSE NoReadback
      /\ encoder'.copy_src = Slot(generation')
      /\ readbacks' = IF RecordsCopy THEN MarkRecorded(pending_to_cpu)
                                     ELSE MapStarted(pending_to_cpu)
  BY DEF StepGpu, Advanced, CopySource
<1>2. /\ Executed = buffers /\ encoder.copy_to = NoReadback
      /\ CurrentSlot \in Slots /\ generation \in Nat /\ ticks \in Nat
      /\ buffers \in [Slots -> Grids]
  BY GoodViews, GridAssumption, EngineAssumption
     DEF GridsBehave, Views, EmptyEncoder, Good, TypeOK, Ticks
<1>3. CopyIsCurrent'
  BY <1>1 DEF CopyIsCurrent, CurrentSlot
<1>4. /\ Authoritative' = LifeN(Authoritative, ticks)
      /\ Executed'[1 - CurrentSlot'] = IF ticks = 0 THEN Executed[1 - CurrentSlot]
                                       ELSE LifeN(Authoritative, ticks - 1)
      /\ CurrentSlot' = Slot(CurrentSlot + ticks)
      /\ Authoritative = buffers[CurrentSlot]
  <2>1. CurrentSlot' = Slot(CurrentSlot + ticks)
    BY <1>1, <1>2, WrapKeepsParity DEF CurrentSlot
  <2>2. Executed' = IF ticks = 0 THEN buffers
                    ELSE [s \in Slots |->
                            IF s = Slot(CurrentSlot + ticks) THEN LifeN(buffers[CurrentSlot], ticks)
                            ELSE LifeN(buffers[CurrentSlot], ticks - 1)]
    BY <1>1 DEF Executed, AfterPass
  <2>3. Slot(CurrentSlot + ticks) \in Slots /\ Slot(CurrentSlot) = CurrentSlot
    BY <1>2 DEF Slot, Slots
  <2>4. Authoritative = buffers[CurrentSlot] /\ Authoritative' = Executed'[CurrentSlot']
    BY <1>1, <1>2 DEF Authoritative
  <2>5. CASE ticks = 0
    <3>1. CurrentSlot + ticks = CurrentSlot
      BY <1>2, <2>5 DEF Slots
    <3>2. CurrentSlot' = CurrentSlot /\ Executed' = Executed
      BY <1>2, <2>1, <2>2, <2>3, <2>5, <3>1
    <3>3. LifeN(buffers[CurrentSlot], ticks) = buffers[CurrentSlot]
      BY <1>2, <2>5, GridAssumption DEF GridsBehave
    <3>. QED
      BY <1>2, <2>1, <2>4, <2>5, <3>2, <3>3
  <2>6. CASE ticks # 0
    <3>1. 1 - CurrentSlot' \in Slots /\ 1 - CurrentSlot' # Slot(CurrentSlot + ticks)
      BY <2>1, <2>3 DEF Slots
    <3>2. Executed'[1 - CurrentSlot'] = LifeN(buffers[CurrentSlot], ticks - 1)
      BY <2>2, <2>6, <3>1
    <3>3. Authoritative' = LifeN(buffers[CurrentSlot], ticks)
      BY <2>1, <2>2, <2>3, <2>4, <2>6
    <3>. QED
      BY <2>1, <2>4, <2>6, <3>2, <3>3
  <2>. QED
    BY <2>5, <2>6
<1>5. SwitchRequest' = SwitchRequest /\ Snapshot' = Snapshot
  <2>1. CASE pending_to_cpu = NoReadback
    BY <1>1, <2>1, NoSwitchView
  <2>2. CASE pending_to_cpu # NoReadback
    <3>. DEFINE p == pending_to_cpu
    <3>1. p \in Readbacks /\ p # NoReadback
          /\ readbacks[p] = [state |-> readbacks[p].state,
                             grid_size |-> readbacks[p].grid_size,
                             buffer |-> readbacks[p].buffer]
          /\ DOMAIN readbacks = Readbacks
      BY <2>2 DEF Good, TypeOK, ReadbackTypeOK
    <3>2. CASE RecordsCopy
      <4>1. /\ readbacks[p].state = "NeedsRecord" /\ readbacks'[p].state = "AwaitingSubmit"
            /\ readbacks'[p].buffer = readbacks[p].buffer
        BY <1>1, <3>1, <3>2 DEF RecordsCopy, NeedsRecord, MarkRecorded
      <4>. QED
        BY <1>1, <3>2, <4>1 DEF SwitchRequest, Snapshot, Captured
    <3>3. CASE ~RecordsCopy
      <4>1. /\ readbacks'[p].buffer = readbacks[p].buffer
            /\ readbacks'[p].state = IF readbacks[p].state = "AwaitingSubmit" THEN "Mapping"
                                     ELSE readbacks[p].state
        BY <1>1, <3>1, <3>3 DEF MapStarted
      <4>2. encoder.copy_to # p /\ encoder'.copy_to # p
        BY <1>1, <1>2, <3>1, <3>3
      <4>. QED
        BY <1>1, <4>1, <4>2 DEF SwitchRequest, Snapshot, Captured
    <3>. QED
      BY <3>2, <3>3
  <2>. QED
    BY <2>1, <2>2
<1>6. Unsubmitted' = IF ticks % 2 = 0 THEN <<Authoritative, Executed[1 - CurrentSlot]>>
                     ELSE <<Executed[1 - CurrentSlot], Authoritative>>
  <2>1. Unsubmitted' = <<buffers[CurrentSlot'], buffers[1 - CurrentSlot']>>
    BY <1>1 DEF Unsubmitted
  <2>2. CurrentSlot' = IF ticks % 2 = 0 THEN CurrentSlot ELSE 1 - CurrentSlot
    BY <1>2, <1>4 DEF Slot, Slots
  <2>3. 1 - (1 - CurrentSlot) = CurrentSlot
    BY <1>2 DEF Slots
  <2>. QED
    BY <1>2, <1>4, <2>1, <2>2, <2>3
<1>7. Sim!Tick(ticks)
  BY <1>1, <1>4, <1>5, <1>6 DEF Sim!Tick, Sim!switchVars
<1>. QED
  BY <1>3, <1>7

-----------------------------------------------------------------------------
(***************************************************************************)
(* The end of a frame, and the callbacks.                                  *)
(***************************************************************************)

\* A copy that is recorded is one for the switch, which is still wanted.
LEMMA CopyForSwitch ==
  ASSUME Good, encoder.copy_to # NoReadback
  PROVE  /\ pending_to_cpu \in Readbacks /\ pending_to_cpu # NoReadback
         /\ encoder.copy_to = pending_to_cpu
         /\ readbacks[pending_to_cpu] \in
              [state : ReadbackStates, grid_size : Sizes, buffer : Grids]
         /\ readbacks[pending_to_cpu].state = "AwaitingSubmit"
         /\ backend = "Gpu" /\ SwitchRequest = "wanted"
<1>1. /\ encoder.copy_to = pending_to_cpu
      /\ readbacks[pending_to_cpu].state = "AwaitingSubmit"
  BY DEF Good, EngineInv, EncoderOwned
<1>2. pending_to_cpu \in Readbacks /\ pending_to_cpu # NoReadback
  BY <1>1 DEF Good, TypeOK
<1>3. backend = "Gpu"
  BY <1>2 DEF Good, TypeOK, EngineInv, CpuModeSettled
<1>4. SwitchRequest = "wanted"
  BY <1>1, <1>2 DEF SwitchRequest, Captured
<1>. QED
  BY <1>1, <1>2, <1>3, <1>4 DEF Good, TypeOK, ReadbackTypeOK

\* The end of a frame without a copy leaves the switch as it was.
LEMMA NoCopyEnds ==
  ASSUME Good, encoder.copy_to = NoReadback, encoder'.copy_to = NoReadback,
         UNCHANGED pending_to_cpu, \A r \in Readbacks : readbacks'[r] = readbacks[r]
  PROVE  SwitchRequest' = SwitchRequest /\ Snapshot' = Snapshot
<1>1. pending_to_cpu # NoReadback => pending_to_cpu \in Readbacks
  BY DEF Good, TypeOK
<1>. QED
  BY <1>1 DEF SwitchRequest, Snapshot, Captured

\* The submit carries out what was recorded: nothing the host can see, but
\* the copy, if there is one, captures the grid.
LEMMA SubmitImplements ==
  ASSUME Good, Good', CopyIsCurrent, Submit
  PROVE  Sim!Carry
<1>1. /\ UNCHANGED <<backend, generation, cpu, pending_to_cpu>>
      /\ buffers' = Executed /\ encoder' = EmptyEncoder
      /\ \A r \in Readbacks :
           readbacks'[r] = IF r = encoder.copy_to
                             THEN [readbacks[r] EXCEPT !.buffer = Executed[encoder.copy_src]]
                             ELSE readbacks[r]
  BY DEF Submit
<1>2. Executed' = Executed /\ CurrentSlot' = CurrentSlot /\ Executed' = buffers'
  BY <1>1 DEF Executed, AfterPass, EmptyEncoder, CurrentSlot
<1>3. Authoritative' = Authoritative /\ Sim!Settled
  BY <1>1, <1>2, SettledView DEF Authoritative
<1>4. CASE encoder.copy_to = NoReadback
  <2>1. \A r \in Readbacks : readbacks'[r] = readbacks[r]
    BY <1>1, <1>4, ReadbackAssumption
  <2>2. SwitchRequest' = SwitchRequest /\ Snapshot' = Snapshot
    BY <1>1, <1>4, <2>1, NoCopyEnds DEF EmptyEncoder
  <2>. QED
    BY <1>1, <1>2, <1>3, <2>2 DEF Sim!Carry, Sim!switchVars
<1>5. CASE encoder.copy_to # NoReadback
  <2>. DEFINE p == pending_to_cpu
  <2>1. readbacks'[p] = [readbacks[p] EXCEPT !.buffer = Executed[encoder.copy_src]]
    BY <1>1, <1>5, CopyForSwitch
  <2>2. Executed[encoder.copy_src] = Authoritative
    BY <1>5, CopyForSwitch DEF CopyIsCurrent, Authoritative
  <2>3. readbacks'[p].state = "AwaitingSubmit" /\ readbacks'[p].buffer = Authoritative
    BY <1>5, <2>1, <2>2, CopyForSwitch
  <2>4. SwitchRequest' = "captured" /\ Snapshot' = Authoritative
    BY <1>1, <1>5, <2>3, CopyForSwitch DEF SwitchRequest, Snapshot, Captured, EmptyEncoder
  <2>. QED
    BY <1>1, <1>2, <1>3, <1>5, <2>4, CopyForSwitch DEF Sim!Carry, Sim!Captures
<1>. QED
  BY <1>4, <1>5

\* A lost frame takes its ticks back, and lets the switch go on with what its
\* readback held.
LEMMA LoseImplements ==
  ASSUME Good, Good', LoseFrame
  PROVE  Sim!Lose
<1>1. /\ MayLoseFrames
      /\ UNCHANGED <<backend, generation, buffers, cpu, pending_to_cpu, readbacks>>
      /\ encoder' = EmptyEncoder
  BY DEF LoseFrame
<1>2. CurrentSlot' = CurrentSlot /\ Executed' = buffers
  BY <1>1 DEF Executed, AfterPass, EmptyEncoder, CurrentSlot
<1>3. <<Authoritative', Executed'[1 - CurrentSlot']>> = Unsubmitted /\ UNCHANGED Unsubmitted
  BY <1>1, <1>2 DEF Authoritative, Unsubmitted
<1>4. CASE encoder.copy_to = NoReadback
  <2>1. SwitchRequest' = SwitchRequest /\ Snapshot' = Snapshot
    BY <1>1, <1>4, NoCopyEnds DEF EmptyEncoder
  <2>. QED
    BY <1>1, <1>3, <2>1 DEF Sim!Lose, Sim!switchVars
<1>5. CASE encoder.copy_to # NoReadback
  <2>1. SwitchRequest' = "captured" /\ Snapshot' = Snapshot
    BY <1>1, <1>5, CopyForSwitch DEF SwitchRequest, Snapshot, Captured, EmptyEncoder
  <2>. QED
    BY <1>1, <1>3, <1>5, <2>1, CopyForSwitch DEF Sim!Lose, Sim!Captures
<1>. QED
  BY <1>4, <1>5

\* A callback only moves the readback on; an error of the one held makes the
\* switch capture again.
LEMMA CallbackImplements ==
  ASSUME Good, Good', Browser
  PROVE  Sim!Recapture \/ UNCHANGED Sim!simVars
<1>1. UNCHANGED <<backend, size, generation, buffers, cpu, pending_to_cpu, frame, encoder>>
  BY DEF Browser, ReadbackMapped, ReadbackMapFailed, SampleMapped,
     SampleMapFailed, engineVars
<1>2. UNCHANGED <<Authoritative, Executed, CurrentSlot, Unsubmitted>>
  BY <1>1 DEF Authoritative, Executed, AfterPass, CurrentSlot, Unsubmitted
<1>3. CASE SampleMapped \/ SampleMapFailed
  <2>1. readbacks' = readbacks
    BY <1>3 DEF SampleMapped, SampleMapFailed, engineVars
  <2>. QED
    BY <1>1, <1>2, <2>1, SameSwitch DEF Sim!simVars
<1>4. ASSUME NEW r \in Readbacks, NEW s \in {"Done", "NeedsRecord"},
             CallbackStores(r, pending_to_cpu, s)
      PROVE  Sim!Recapture \/ UNCHANGED Sim!simVars
  <2>1. /\ readbacks[r].state = "Mapping"
        /\ readbacks' = [readbacks EXCEPT ![r] =
             IF r = pending_to_cpu THEN [readbacks[r] EXCEPT !.state = s] ELSE Unallocated]
        /\ readbacks \in [Readbacks -> [state : ReadbackStates, grid_size : Sizes,
                                        buffer : Grids]]
    BY <1>4 DEF CallbackStores, Good, TypeOK, ReadbackTypeOK
  <2>2. CASE r # pending_to_cpu
    <3>1. pending_to_cpu # NoReadback =>
            readbacks'[pending_to_cpu] = readbacks[pending_to_cpu]
      BY <2>1, <2>2 DEF Good, TypeOK
    <3>2. SwitchRequest' = SwitchRequest /\ Snapshot' = Snapshot
      BY <1>1, <3>1 DEF SwitchRequest, Snapshot, Captured
    <3>. QED
      BY <1>1, <1>2, <3>2 DEF Sim!simVars
  <2>3. CASE r = pending_to_cpu
    <3>1. /\ pending_to_cpu # NoReadback
          /\ readbacks'[r].state = s /\ readbacks'[r].buffer = readbacks[r].buffer
      BY <2>1, <2>3, ReadbackAssumption
    <3>2. SwitchRequest = "captured" /\ Snapshot = readbacks[r].buffer
      BY <2>1, <2>3, <3>1 DEF SwitchRequest, Snapshot, Captured
    <3>3. CASE s = "Done"
      <4>1. SwitchRequest' = "captured" /\ Snapshot' = readbacks[r].buffer
        BY <1>1, <2>3, <3>1, <3>3 DEF SwitchRequest, Snapshot, Captured
      <4>. QED
        BY <1>1, <1>2, <3>2, <4>1 DEF Sim!simVars
    <3>4. CASE s = "NeedsRecord"
      <4>1. SwitchRequest' = "wanted" /\ Snapshot' = readbacks[r].buffer
        BY <1>1, <2>3, <3>1, <3>4 DEF SwitchRequest, Snapshot, Captured
      <4>. QED
        BY <1>1, <1>2, <3>2, <4>1 DEF Sim!Recapture
    <3>. QED
      BY <3>3, <3>4
  <2>. QED
    BY <2>2, <2>3
<1>. QED
  BY <1>3, <1>4 DEF Browser, ReadbackMapped, ReadbackMapFailed, MapSucceeds, MapFails
-----------------------------------------------------------------------------
(***************************************************************************)
(* The theorem.                                                            *)
(***************************************************************************)

\* The copy's slot stays the current one: nothing moves the counter between
\* the step that records and the end of its frame.
LEMMA CopyStaysCurrent ==
  ASSUME Good, Good', CopyIsCurrent, [Next]_vars
  PROVE  CopyIsCurrent'
<1>1. CASE frame' = "open"
  BY <1>1, ReadbackAssumption DEF Good, EngineInv, EncoderOwned, EmptyEncoder, CopyIsCurrent
<1>2. CASE UNCHANGED <<encoder, generation>>
  BY <1>2 DEF CopyIsCurrent, CurrentSlot
<1>3. ASSUME NEW ticks \in Ticks, Step(ticks) PROVE CopyIsCurrent'
  <2>1. frame = "open" /\ size' = size
    BY <1>3 DEF Step
  <2>2. CASE StepGpu(ticks)
    BY <2>1, <2>2, GpuImplements
  <2>3. CASE StepLanding(ticks) \/ StepCpu(ticks)
    <3>1. encoder' = EmptyEncoder
      BY <2>3 DEF StepLanding, StepCpu, CpuTicks
    <3>. QED
      BY <3>1 DEF EmptyEncoder, CopyIsCurrent
  <2>. QED
    BY <1>3, <2>2, <2>3 DEF Step
<1>4. Host => frame' = "open"
  BY DEF Host, SetBackendGpu, SetBackendCpu, Clear, Cleared, Resize, Randomize, Stamp
<1>5. Submit \/ LoseFrame => frame' = "open"
  BY DEF Submit, LoseFrame
<1>6. Browser => UNCHANGED <<encoder, generation>>
  BY DEF Browser, ReadbackMapped, ReadbackMapFailed, SampleMapped,
     SampleMapFailed, engineVars
<1>7. UNCHANGED vars => UNCHANGED <<encoder, generation>>
  BY DEF vars, engineVars
<1>. QED
  BY <1>1, <1>2, <1>3, <1>4, <1>5, <1>6, <1>7 DEF Next, Frame

\* Every step of the engine is a step of Simulation or changes nothing there.
LEMMA StepImplements ==
  ASSUME Good, Good', CopyIsCurrent, [Next]_vars
  PROVE  [Sim!SimNext]_Sim!simVars
<1>1. CASE Host
  <2>1. CASE SetBackendGpu
    BY <2>1, SetGpuImplements DEF Sim!SimNext
  <2>2. CASE SetBackendCpu
    BY <2>2, SetCpuImplements DEF Sim!SimNext
  <2>3. CASE Clear
    BY <2>3, ClearImplements DEF Clear, Sim!SimNext
  <2>4. ASSUME NEW n \in Sizes, Resize(n) PROVE Sim!SimNext
    BY <2>4, ResizeImplements DEF Sim!SimNext
  <2>5. CASE (\E s \in Seeds : Randomize(s)) \/ (\E c \in Strokes : Stamp(c))
    BY <2>5, EditImplements DEF Sim!SimNext
  <2>. QED
    BY <1>1, <2>1, <2>2, <2>3, <2>4, <2>5 DEF Host
<1>2. ASSUME NEW ticks \in Ticks, Step(ticks) PROVE Sim!SimNext
  <2>1. frame = "open" /\ size' = size
    BY <1>2 DEF Step
  <2>. QED
    BY <1>2, <2>1, LandingImplements, CpuImplements, GpuImplements
       DEF Step, Sim!SimNext, Sim!Ticks, Ticks
<1>3. CASE Submit
  BY <1>3, SubmitImplements DEF Sim!SimNext
<1>4. CASE LoseFrame
  BY <1>4, LoseImplements DEF Sim!SimNext
<1>5. CASE Browser
  BY <1>5, CallbackImplements DEF Sim!SimNext
<1>6. CASE UNCHANGED vars
  BY <1>6 DEF vars, engineVars, Sim!simVars, SwitchRequest, Snapshot, Captured,
     Authoritative, Executed, AfterPass, CurrentSlot, Unsubmitted
<1>. QED
  BY <1>1, <1>2, <1>3, <1>4, <1>5, <1>6 DEF Next, Frame

\* The ping-pong buffers, the wrapping counter, the encoder, the readback
\* objects and their callbacks amount to a grid, a picture beside it and one
\* asynchronous switch, whichever frames are lost and maps fail.
THEOREM EngineImplementsSimulation == Spec => ImplementsSimulation
<1>1. Init => CopyIsCurrent /\ Sim!SimInit
  BY InitImplements DEF Init, EmptyEncoder, CopyIsCurrent
<1>2. Good /\ Good' /\ CopyIsCurrent /\ [Next]_vars => CopyIsCurrent'
  BY CopyStaysCurrent
<1>3. Good /\ Good' /\ CopyIsCurrent /\ [Next]_vars => [Sim!SimNext]_Sim!simVars
  BY StepImplements
<1>4. TypeOK /\ EngineInv => Good
  BY DEF Good
<1>. QED
  BY <1>1, <1>2, <1>3, <1>4, TypeCorrect, EngineInvariant, PTL
     DEF Spec, ImplementsSimulation, Sim!SimSpec
-----------------------------------------------------------------------------
(***************************************************************************)
(* What readback.rs says of its copies, and when it is true.               *)
(***************************************************************************)

\* A switch that has captured did so with a copy that reached a submit.
CapturedWasCopied == Captured => pending_to_cpu \in copied

\* Unless the frame is lost, a switch captures by the submit of its own copy.
LEMMA CapturesBySubmit ==
  ASSUME MayLoseFrames = FALSE, Good, Good', CopyIsCurrent, [Next]_vars, Captured'
  PROVE  \/ Captured /\ pending_to_cpu' = pending_to_cpu
         \/ Submit /\ encoder.copy_to = pending_to_cpu'
<1>1. SwitchRequest' = "captured" /\ pending_to_cpu' # NoReadback
  BY DEF SwitchRequest, Captured
<1>2. SwitchRequest = "captured" => Captured
  BY DEF SwitchRequest
<1>3. CASE Host
  <2>1. CASE SetBackendGpu \/ \E n \in Sizes : Resize(n) /\ n # size
    BY <1>1, <2>1 DEF SetBackendGpu, Resize
  <2>2. CASE SetBackendCpu
    <3>1. CASE backend = "Cpu"
      BY <2>2, <3>1 DEF SetBackendCpu, Captured
    <3>2. CASE backend = "Gpu"
      <4>1. PICK r \in Readbacks :
              /\ pending_to_cpu' = r
              /\ readbacks' = [Released(pending_to_cpu) EXCEPT ![r] = Fresh(size)]
        BY <2>2, <3>2 DEF SetBackendCpu
      <4>2. readbacks'[r].state = "NeedsRecord"
        BY <4>1 DEF Released, Fresh
      <4>. QED
        BY <4>1, <4>2 DEF Captured
    <3>. QED
      BY <3>1, <3>2 DEF Good, TypeOK
  <2>3. CASE \/ Clear \/ (\E n \in Sizes : Resize(n) /\ n = size)
             \/ (\E s \in Seeds : Randomize(s)) \/ (\E c \in Strokes : Stamp(c))
    BY <2>3 DEF Clear, Resize, Cleared, Randomize, Stamp, Captured
  <2>. QED
    BY <1>3, <2>1, <2>2, <2>3 DEF Host
<1>4. ASSUME NEW ticks \in Ticks, Step(ticks)
      PROVE  Captured /\ pending_to_cpu' = pending_to_cpu
  <2>1. frame = "open" /\ size' = size
    BY <1>4 DEF Step
  <2>2. ~StepLanding(ticks)
    BY <1>1 DEF StepLanding
  <2>3. ~StepCpu(ticks)
    BY <1>1 DEF StepCpu, Good, EngineInv, CpuModeSettled
  <2>4. StepGpu(ticks) /\ Sim!Tick(ticks)
    BY <1>4, <2>1, <2>2, <2>3, GpuImplements DEF Step
  <2>. QED
    BY <1>1, <1>2, <2>4 DEF Sim!Tick, Sim!switchVars, StepGpu
<1>5. CASE Submit
  <2>1. CASE encoder.copy_to = NoReadback
    <3>1. \A r \in Readbacks : readbacks'[r] = readbacks[r]
      BY <1>5, <2>1, ReadbackAssumption DEF Submit
    <3>2. SwitchRequest' = SwitchRequest /\ pending_to_cpu' = pending_to_cpu
      BY <1>5, <2>1, <3>1, NoCopyEnds DEF Submit, EmptyEncoder
    <3>. QED
      BY <1>1, <1>2, <3>2
  <2>2. CASE encoder.copy_to # NoReadback
    BY <1>5, <2>2, CopyForSwitch DEF Submit
  <2>. QED
    BY <2>1, <2>2
<1>6. ~LoseFrame
  BY DEF LoseFrame
<1>7. CASE Browser
  <2>1. pending_to_cpu' = pending_to_cpu
    BY <1>7 DEF Browser, ReadbackMapped, ReadbackMapFailed, SampleMapped,
       SampleMapFailed, engineVars
  <2>2. SwitchRequest = "captured"
    BY <1>1, <1>7, CallbackImplements DEF Sim!Recapture, Sim!simVars
  <2>. QED
    BY <1>2, <2>1, <2>2
<1>8. CASE UNCHANGED vars
  BY <1>8 DEF vars, engineVars, Captured
<1>. QED
  BY <1>3, <1>4, <1>5, <1>6, <1>7, <1>8 DEF Next, Frame

\* Only a landing leaves GPU mode.
LEMMA OnlyLandingLands ==
  ASSUME Good, [Next]_vars, Lands
  PROVE  IsDone(pending_to_cpu)
<1>1. backend = "Gpu" /\ backend' = "Cpu"
  BY DEF Lands
<1>2. ASSUME NEW ticks \in Ticks, Step(ticks) PROVE IsDone(pending_to_cpu)
  BY <1>1, <1>2 DEF Step, StepLanding, StepCpu, StepGpu
<1>3. ~Host /\ ~Submit /\ ~LoseFrame /\ ~Browser /\ ~UNCHANGED vars
  BY <1>1 DEF Host, SetBackendGpu, SetBackendCpu, Clear, Cleared, Resize, Randomize,
     Stamp, Submit, LoseFrame, Browser, ReadbackMapped, ReadbackMapFailed,
     SampleMapped, SampleMapFailed, vars, engineVars
<1>. QED
  BY <1>2, <1>3 DEF Next, Frame

\* The map of a readback starts only if its copy was submitted, as readback.rs
\* says, in a program whose frames are never lost: what a switch lands with
\* was copied from the grid.
THEOREM LandsCopiesUnlessLost ==
  ASSUME MayLoseFrames = FALSE
  PROVE  HistSpec => LandsOnlyCopies
<1>. DEFINE Inv == CopyIsCurrent /\ CapturedWasCopied
<1>1. HistInit => Inv
  BY DEF HistInit, Init, EmptyEncoder, CopyIsCurrent, CapturedWasCopied, Captured
<1>2. Good /\ Good' /\ Inv /\ [HistNext]_histVars => Inv'
  <2>. SUFFICES ASSUME Good, Good', Inv, [HistNext]_histVars
                PROVE  Inv'
    OBVIOUS
  <2>1. [Next]_vars
    BY DEF HistNext, histVars
  <2>2. CopyIsCurrent'
    BY <2>1, CopyStaysCurrent
  <2>3. CASE UNCHANGED histVars
    BY <2>2, <2>3 DEF histVars, vars, engineVars, CapturedWasCopied, Captured
  <2>4. CASE HistNext
    <3>1. SUFFICES ASSUME Captured' PROVE pending_to_cpu' \in copied'
      BY <2>2 DEF CapturedWasCopied
    <3>2. pending_to_cpu' \in Live
      BY <3>1, EngineAssumption DEF Captured, Live, Good, TypeOK
    <3>3. \/ pending_to_cpu' \in copied
          \/ Submit /\ encoder.copy_to = pending_to_cpu'
      BY <2>1, <3>1, CapturesBySubmit DEF CapturedWasCopied
    <3>. QED
      BY <2>4, <3>2, <3>3 DEF HistNext
  <2>. QED
    BY <2>3, <2>4
<1>3. Good /\ Inv /\ [HistNext]_histVars => [Lands => pending_to_cpu \in copied]_histVars
  <2>. SUFFICES ASSUME Good, Inv, [HistNext]_histVars, Lands
                PROVE  pending_to_cpu \in copied
    OBVIOUS
  <2>1. [Next]_vars
    BY DEF HistNext, histVars
  <2>2. IsDone(pending_to_cpu)
    BY <2>1, OnlyLandingLands
  <2>. QED
    BY <2>2, ReadbackAssumption DEF IsDone, Captured, CapturedWasCopied
<1>4. HistSpec => Spec
  <2>1. HistInit => Init
    BY DEF HistInit
  <2>2. [HistNext]_histVars => [Next]_vars
    BY DEF HistNext, histVars
  <2>. QED
    BY <2>1, <2>2, PTL DEF HistSpec, Spec
<1>5. TypeOK /\ EngineInv => Good
  BY DEF Good
<1>. QED
  BY <1>1, <1>2, <1>3, <1>4, <1>5, TypeCorrect, EngineInvariant, PTL
     DEF HistSpec, LandsOnlyCopies
=============================================================================
