----------------------------- MODULE AppProofs ------------------------------
(***************************************************************************)
(* Proofs about the app's frames and its panel.  The app drives the engine *)
(* only through its operations, so all that is proved of the engine holds  *)
(* of it in the app; what the app adds is that its own picks arrive.  The  *)
(* panel only watches the app and chooses its ticks, so all of that holds  *)
(* under playback too.                                                     *)
(***************************************************************************)
EXTENDS Panel, EngineProofs, FiniteSetTheorems, WellFoundedInduction

\* Every step of the app is a step of the engine, or leaves it alone: prepare
\* calls the operations only with values the callback's type allows.
LEMMA StepsTheEngine == AppTypeOK /\ [AppNext]_allVars => [Next]_vars
<1>. SUFFICES ASSUME AppTypeOK, [AppNext]_allVars PROVE [Next]_vars
  OBVIOUS
<1>1. /\ cb.resize # Nothing => cb.resize \in Sizes
      /\ cb.randomize # Nothing => cb.randomize \in Seeds
      /\ cb.paint # Nothing => cb.paint \in Strokes
      /\ cb.ticks \in Ticks
  BY DEF AppTypeOK, Callbacks
<1>2. CASE Ui
  BY <1>2 DEF Ui
<1>3. CASE Prepare
  <2>1. CASE CallSetBackend
    BY <2>1 DEF CallSetBackend, Call, Next, Host
  <2>2. CASE CallResize
    BY <1>1, <2>2 DEF CallResize, Call, Next, Host
  <2>3. CASE CallClear
    BY <2>3 DEF CallClear, Call, Next, Host
  <2>4. CASE CallRandomize
    BY <1>1, <2>4 DEF CallRandomize, Call, Next, Host
  <2>5. CASE CallStamp
    BY <1>1, <2>5 DEF CallStamp, Call, Next, Host
  <2>6. CASE CallStep
    BY <1>1, <2>6 DEF CallStep, Call, Next, Frame
  <2>. QED
    BY <1>3, <2>1, <2>2, <2>3, <2>4, <2>5, <2>6 DEF Prepare
<1>4. CASE EndOfFrame
  BY <1>4 DEF EndOfFrame, Next, Frame
<1>5. CASE EventLoop
  BY <1>5 DEF EventLoop, Next
<1>6. CASE UNCHANGED allVars
  BY <1>6 DEF allVars
<1>. QED
  BY <1>2, <1>3, <1>4, <1>5, <1>6 DEF AppNext

\* The app's own variables keep their types.
LEMMA AppTypes == AppTypeOK /\ [AppNext]_allVars => AppTypeOK'
<1>. SUFFICES ASSUME AppTypeOK, [AppNext]_allVars PROVE AppTypeOK'
  OBVIOUS
<1>1. TypeOK'
  BY StepsTheEngine, NextTypes DEF AppTypeOK
<1>2. CASE Ui
  <2>1. backend \in {"Gpu", "Cpu"}
    BY DEF AppTypeOK, TypeOK
  <2>. QED
    BY <1>1, <1>2, <2>1 DEF Ui, Drained, AppTypeOK
<1>3. CASE Prepare
  BY <1>1, <1>3 DEF Prepare, CallSetBackend, CallResize, CallClear,
     CallRandomize, CallStamp, CallStep, Call, appVars, AppTypeOK
<1>4. CASE EndOfFrame
  <2>1. NoWork \in Callbacks
    BY GridAssumption DEF GridsBehave, NoWork, Callbacks, Ticks
  <2>. QED
    BY <1>1, <1>4, <2>1 DEF EndOfFrame, AppTypeOK
<1>5. CASE EventLoop
  BY <1>1, <1>5 DEF EventLoop, appVars, AppTypeOK
<1>6. CASE UNCHANGED allVars
  BY <1>1, <1>6 DEF allVars, appVars, AppTypeOK
<1>. QED
  BY <1>2, <1>3, <1>4, <1>5, <1>6 DEF AppNext

\* The app starts with the types it keeps.
LEMMA AppInitTypes == AppInit => AppTypeOK
<1>. SUFFICES ASSUME AppInit PROVE AppTypeOK
  OBVIOUS
<1>1. TypeOK
  BY InitTypes DEF AppInit
<1>2. NoWork \in Callbacks
  BY GridAssumption DEF GridsBehave, NoWork, Callbacks, Ticks
<1>. QED
  BY <1>1, <1>2, GridAssumption DEF GridsBehave, AppInit, AppTypeOK

\* The app's state, the engine's included, keeps its types in every frame.
THEOREM AppTypeCorrect == AppSpec => []AppTypeOK
BY AppInitTypes, AppTypes, PTL DEF AppSpec

\* The app uses the engine as the engine's specification allows, so every
\* theorem about the engine is one about the app.
THEOREM AppRunsEngine == AppSpec => Spec
<1>1. AppInit => Init
  BY DEF AppInit
<1>. QED
  BY <1>1, StepsTheEngine, AppTypeCorrect, PTL DEF AppSpec, Spec

-----------------------------------------------------------------------------
\* The operations of prepare after set_backend leave the backend alone, and a
\* switch that is not in flight.
LEMMA PickStays ==
  ASSUME NoReadback \notin Readbacks,
         \/ Clear \/ \E n \in Sizes : Resize(n)
         \/ \E s \in Seeds : Randomize(s)
         \/ \E c \in Strokes : Stamp(c)
         \/ \E t \in Ticks : Step(t)
         \/ Submit \/ LoseFrame \/ Browser,
         backend = "Gpu", pending_to_cpu = NoReadback
  PROVE  backend' = "Gpu" /\ pending_to_cpu' = NoReadback
<1>1. ~IsDone(pending_to_cpu)
  BY DEF IsDone
<1>. QED
  BY <1>1 DEF Clear, Cleared, Resize, Randomize, Stamp, Step, StepLanding,
     StepCpu, StepGpu, Submit, LoseFrame, Browser, ReadbackMapped,
     ReadbackMapFailed, SampleMapped, SampleMapFailed, engineVars

\* And all but resize leave the size alone.
LEMMA SizeStays ==
  ASSUME \/ SetBackendGpu \/ SetBackendCpu \/ Clear
         \/ \E s \in Seeds : Randomize(s)
         \/ \E c \in Strokes : Stamp(c)
         \/ \E t \in Ticks : Step(t)
         \/ Submit \/ LoseFrame \/ Browser
  PROVE  size' = size
BY DEF SetBackendGpu, SetBackendCpu, Clear, Cleared, Randomize, Stamp, Step,
   Submit, LoseFrame, Browser, ReadbackMapped, ReadbackMapFailed,
   SampleMapped, SampleMapFailed, engineVars

\* The size and the GPU pick on their way to the engine are not lost.
LEMMA AppInvStep == AppTypeOK /\ AppInv /\ [AppNext]_allVars => AppInv'
<1>. SUFFICES ASSUME AppTypeOK, AppInv, [AppNext]_allVars PROVE AppInv'
  OBVIOUS
<1>. USE NothingAssumption, ReadbackAssumption
<1>1. /\ cb.resize # Nothing => cb.resize \in Sizes
      /\ cb.randomize # Nothing => cb.randomize \in Seeds
      /\ cb.paint # Nothing => cb.paint \in Strokes
      /\ cb.set_backend \in {"Gpu", "Cpu", Nothing}
      /\ cb.ticks \in Ticks
      /\ ui_backend \in {"Gpu", "Cpu"}
  BY DEF AppTypeOK, Callbacks
<1>2. CASE Ui
  <2>1. PICK b \in {"Gpu", "Cpu"}, n \in Sizes :
          /\ ui_backend' = b
          /\ ui_size' = n
          /\ cb'.set_backend = Changed(b, ui_backend)
          /\ cb'.resize = Changed(n, ui_size)
    BY <1>2 DEF Ui, Drained
  <2>2. /\ phase = "ui" /\ phase' = "set_backend"
        /\ UNCHANGED <<backend, size, pending_to_cpu>>
    BY <1>2 DEF Ui, vars, engineVars
  <2>3. ui_size = size /\ (ui_backend = "Gpu" =>
                             backend = "Gpu" /\ pending_to_cpu = NoReadback)
    BY <2>2 DEF AppInv, SizeFollows, GpuFollows
  <2>4. SizeFollows'
    BY <2>1, <2>2, <2>3 DEF SizeFollows, Changed
  <2>5. GpuFollows'
    BY <2>1, <2>2, <2>3 DEF GpuFollows, Changed
  <2>. QED
    BY <2>4, <2>5 DEF AppInv
<1>3. CASE CallSetBackend
  <2>1. /\ phase = "set_backend" /\ phase' = "resize" /\ UNCHANGED appVars
        /\ cb.set_backend = Nothing => UNCHANGED vars
        /\ cb.set_backend = "Gpu" => SetBackendGpu
        /\ cb.set_backend = "Cpu" => SetBackendCpu
    BY <1>3 DEF CallSetBackend, Call
  <2>2. SizeFollows'
    BY <1>1, <2>1, SizeStays DEF AppInv, SizeFollows, appVars, vars, engineVars
  <2>3. GpuFollows'
    BY <1>1, <2>1 DEF AppInv, GpuFollows, SetBackendGpu, appVars, vars, engineVars
  <2>. QED
    BY <2>2, <2>3 DEF AppInv
<1>4. CASE CallResize
  <2>1. /\ phase = "resize" /\ phase' = "clear" /\ UNCHANGED appVars
        /\ IF cb.resize # Nothing THEN Resize(cb.resize) ELSE UNCHANGED vars
    BY <1>4 DEF CallResize, Call
  <2>2. SizeFollows'
    BY <2>1 DEF AppInv, SizeFollows, Resize, Cleared, appVars, vars, engineVars
  <2>3. GpuFollows'
    BY <1>1, <2>1, PickStays DEF AppInv, GpuFollows, appVars, vars, engineVars
  <2>. QED
    BY <2>2, <2>3 DEF AppInv
<1>5. CASE CallClear \/ CallRandomize \/ CallStamp \/ CallStep
  <2>1. /\ phase \in {"clear", "randomize", "paint", "step"}
        /\ phase' \in {"randomize", "paint", "step", "submit"}
        /\ UNCHANGED appVars
        /\ \/ UNCHANGED vars
           \/ Clear \/ \E s \in Seeds : Randomize(s)
           \/ \E c \in Strokes : Stamp(c)
           \/ \E t \in Ticks : Step(t)
    BY <1>1, <1>5 DEF CallClear, CallRandomize, CallStamp, CallStep, Call
  <2>2. SizeFollows'
    BY <2>1, SizeStays DEF AppInv, SizeFollows, appVars, vars, engineVars
  <2>3. GpuFollows'
    BY <2>1, PickStays DEF AppInv, GpuFollows, appVars, vars, engineVars
  <2>. QED
    BY <2>2, <2>3 DEF AppInv
<1>6. CASE EndOfFrame \/ EventLoop
  <2>1. /\ phase \in {"submit", "ui"} /\ phase' = "ui"
        /\ UNCHANGED <<ui_backend, ui_size>>
        /\ Submit \/ LoseFrame \/ Browser
    BY <1>6 DEF EndOfFrame, EventLoop, appVars
  <2>2. SizeFollows'
    BY <2>1, SizeStays DEF AppInv, SizeFollows
  <2>3. GpuFollows'
    BY <2>1, PickStays DEF AppInv, GpuFollows
  <2>. QED
    BY <2>2, <2>3 DEF AppInv
<1>7. CASE UNCHANGED allVars
  BY <1>7 DEF allVars, appVars, vars, engineVars, AppInv, SizeFollows, GpuFollows
<1>. QED
  BY <1>2, <1>3, <1>4, <1>5, <1>6, <1>7 DEF AppNext, Prepare

\* Both picks are either still in the callback or with the engine.
THEOREM AppInvariant == AppSpec => []AppInv
<1>1. AppInit => AppInv
  BY DEF AppInit, Init, AppInv, SizeFollows, GpuFollows, NoWork
<1>. QED
  BY <1>1, AppInvStep, AppTypeCorrect, PTL DEF AppSpec

\* Once the GPU is picked, no switch to the CPU that was asked for earlier is
\* left to take the engine away from it.
THEOREM PickSafe == AppSpec => []GpuPickIsFinal
<1>1. AppInv => GpuPickIsFinal
  BY DEF AppInv, GpuFollows, GpuPickIsFinal
<1>. QED
  BY <1>1, AppInvariant, PTL

\* Cells are stamped on a grid of the size they were computed for.
THEOREM StampSafe == AppSpec => []StampsFit
<1>1. AppInv => StampsFit
  BY DEF AppInv, SizeFollows, StampsFit
<1>. QED
  BY <1>1, AppInvariant, PTL

-----------------------------------------------------------------------------
(***************************************************************************)
(* The panel.                                                              *)
(***************************************************************************)

\* The panel only watches the app and chooses its ticks: every step of it is
\* a step of GolApp.
LEMMA StepsTheApp == [PanelNext]_panelAllVars => [AppNext]_allVars
<1>1. PanelNext => AppNext
  BY DEF PanelNext, PanelUi, PanelPrepare, StepWithStats, PanelEndOfFrame,
     PanelEventLoop, AppNext, Prepare
<1>. QED
  BY <1>1 DEF panelAllVars

\* The app with its panel is the app: every theorem about GolApp holds of it.
THEOREM PanelRunsApp == PanelSpec => AppSpec
<1>1. PanelInit => AppInit
  BY DEF PanelInit
<1>. QED
  BY <1>1, StepsTheApp, PTL DEF PanelSpec, AppSpec

-----------------------------------------------------------------------------
(***************************************************************************)
(* Types.                                                                  *)
(***************************************************************************)

\* The statistics have their type.
LEMMA StatsType ==
  ASSUME PanelTypeOK, NEW ticks \in Ticks, NEW cost \in CostsOf(ticks),
         NEW ran_on \in {"Gpu", "Cpu"}, NEW gpu_time \in GpuTimes
  PROVE  StatsAfter(cost, ticks, ran_on, gpu_time)
           \in [cpu_time : CpuTimes, ticks : Ticks,
                backend : {"Gpu", "Cpu"}, gpu_time : GpuTimes]
BY DEF StatsAfter, CpuTimes, PanelTypeOK

\* A full window makes room before it takes a sample.
LEMMA WindowType ==
  ASSUME PanelTypeOK
  PROVE  /\ Pushed(samples, last_stats)
              \in Seq([cpu_ms : CpuTimes, gpu_ms : GpuTimes])
         /\ Len(Pushed(samples, last_stats)) <= Capacity
<1>. DEFINE S == [cpu_ms : CpuTimes, gpu_ms : GpuTimes]
            kept == IF Len(samples) = Capacity THEN Tail(samples) ELSE samples
<1>1. SampleOf(last_stats) \in S
  BY DEF SampleOf, PanelTypeOK
<1>2. samples \in Seq(S) /\ Len(samples) <= Capacity
  BY DEF PanelTypeOK
<1>3. Capacity \in Nat \ {0} /\ Len(samples) \in Nat
  BY <1>2, PanelAssumption
<1>. HIDE DEF S
<1>4. kept \in Seq(S) /\ Len(kept) < Capacity
  <2>1. CASE Len(samples) = Capacity
    <3>1. samples # <<>>
      BY <1>3, <2>1
    <3>2. Tail(samples) \in Seq(S) /\ Len(Tail(samples)) = Len(samples) - 1
      BY <1>2, <3>1
    <3>. QED
      BY <1>3, <2>1, <3>2
  <2>2. CASE Len(samples) # Capacity
    BY <1>2, <1>3, <2>2
  <2>. QED
    BY <2>1, <2>2
<1>5. Pushed(samples, last_stats) = Append(kept, SampleOf(last_stats))
  BY DEF Pushed
<1>. HIDE DEF kept
<1>6. /\ Append(kept, SampleOf(last_stats)) \in Seq(S)
      /\ Len(Append(kept, SampleOf(last_stats))) = Len(kept) + 1
      /\ Len(kept) \in Nat
  BY <1>1, <1>4
<1>. QED
  BY <1>3, <1>4, <1>5, <1>6 DEF S

\* Every action keeps the types.
LEMMA PanelTypes == PanelTypeOK /\ [PanelNext]_panelAllVars => PanelTypeOK'
<1>. SUFFICES ASSUME PanelTypeOK, [PanelNext]_panelAllVars PROVE PanelTypeOK'
  OBVIOUS
<1>1. AppTypeOK /\ AppTypeOK'
  BY StepsTheApp, AppTypes DEF PanelTypeOK
<1>2. backend' \in {"Gpu", "Cpu"} /\ latest_ns \in GpuTimes /\ cb.ticks \in Ticks
  BY <1>1 DEF AppTypeOK, TypeOK, TimingTypeOK, GpuTimes, Callbacks
<1>3. CASE PanelUi
  <2>1. /\ {running', pending_step', stepped'} \subseteq BOOLEAN
    BY <1>3 DEF PanelUi, Playback, PanelTypeOK
  <2>2. /\ samples' = Pushed(samples, last_stats)
        /\ UNCHANGED <<last_stats, ran, measuring>>
    BY <1>3 DEF PanelUi
  <2>3. /\ samples' \in Seq([cpu_ms : CpuTimes, gpu_ms : GpuTimes])
        /\ Len(samples') <= Capacity
    BY <2>2, WindowType
  <2>. QED
    BY <1>1, <2>1, <2>2, <2>3 DEF PanelTypeOK
<1>4. CASE StepWithStats
  <2>1. PICK cost \in CostsOf(cb.ticks) :
          /\ last_stats' = StatsAfter(cost, cb.ticks, backend', latest_ns)
          /\ ran' = IF cb.ticks > 0 THEN WorkOf(cost) ELSE ran
    BY <1>4 DEF StepWithStats
  <2>2. last_stats' \in [cpu_time : CpuTimes, ticks : Ticks,
                         backend : {"Gpu", "Cpu"}, gpu_time : GpuTimes]
    BY <1>2, <2>1, StatsType
  <2>3. ran' \in [cpu_time : CpuTimes, ticks : Ticks, backend : {"Gpu", "Cpu"}]
    <3>1. encoder'.ticks \in Ticks
      BY <1>1 DEF AppTypeOK, TypeOK
    <3>2. WorkOf(cost) \in [cpu_time : CpuTimes, ticks : Ticks, backend : {"Gpu", "Cpu"}]
      BY <1>2, <3>1 DEF WorkOf, CpuTimes
    <3>. QED
      BY <2>1, <3>2 DEF PanelTypeOK
  <2>4. /\ UNCHANGED <<playVars, samples>>
        /\ measuring' \in {"settled", "recorded", "ended"}
    BY <1>2, <1>4 DEF StepWithStats, PanelTypeOK
  <2>. QED
    BY <1>1, <2>2, <2>3, <2>4 DEF PanelTypeOK, playVars
<1>5. CASE UNCHANGED panelVars
  BY <1>1, <1>5 DEF panelVars, playVars, statVars, PanelTypeOK
<1>6. CASE PanelEndOfFrame \/ PanelEventLoop
  BY <1>1, <1>6 DEF PanelEndOfFrame, PanelEventLoop, playVars, PanelTypeOK
<1>. QED
  BY <1>3, <1>4, <1>5, <1>6 DEF PanelNext, PanelPrepare, panelAllVars

\* The panel keeps its types, and its window never grows past its capacity.
THEOREM PanelTypeCorrect == PanelSpec => []PanelTypeOK
<1>1. PanelInit => PanelTypeOK
  <2>. SUFFICES ASSUME PanelInit PROVE PanelTypeOK
    OBVIOUS
  <2>1. AppTypeOK /\ 0 \in Ticks /\ 1 \in Ticks /\ NoSample \in GpuTimes
    BY AppInitTypes, GridAssumption, PanelAssumption DEF GridsBehave, PanelInit, Ticks, GpuTimes
  <2>2. NoStats \in [cpu_time : CpuTimes, ticks : Ticks,
                      backend : {"Gpu", "Cpu"}, gpu_time : GpuTimes]
    BY <2>1 DEF NoStats, CpuTimes
  <2>3. /\ samples \in Seq([cpu_ms : CpuTimes, gpu_ms : GpuTimes])
        /\ Len(samples) <= Capacity
    BY PanelAssumption DEF PanelInit
  <2>4. {running, pending_step, stepped} \subseteq BOOLEAN
    BY DEF PanelInit
  <2>5. NothingRun \in [cpu_time : CpuTimes, ticks : Ticks, backend : {"Gpu", "Cpu"}]
    BY <2>1 DEF NothingRun, CpuTimes
  <2>. QED
    BY <2>1, <2>2, <2>3, <2>4, <2>5 DEF PanelInit, PanelTypeOK
<1>. QED
  BY <1>1, PanelTypes, PTL DEF PanelSpec

-----------------------------------------------------------------------------
(***************************************************************************)
(* Statistics and the timer.                                               *)
(***************************************************************************)

\* Where a step leaves its work: in the encoder, all its ticks or none, and
\* all of them only if the GPU is in charge after it.
LEMMA StepWork ==
  ASSUME NEW ticks \in Nat \ {0}, Step(ticks)
  PROVE  \/ backend' = "Gpu" /\ encoder'.ticks = ticks
         \/ backend' = "Cpu" /\ encoder'.ticks = 0
<1>1. CASE StepLanding(ticks) \/ StepCpu(ticks)
  <2>1. backend' = "Cpu" /\ encoder' = EmptyEncoder
    BY <1>1 DEF StepLanding, StepCpu, CpuTicks
  <2>. QED
    BY <2>1 DEF EmptyEncoder
<1>2. CASE StepGpu(ticks)
  BY <1>2 DEF StepGpu
<1>. QED
  BY <1>1, <1>2 DEF Step

\* The figures of the panel, time and ticks and backend, are those of one step:
\* the latest that ran any tick.
THEOREM StatsSafe == PanelSpec => []ActiveIsLatest
<1>1. PanelInit => ActiveIsLatest
  BY DEF PanelInit, NoStats, NothingRun, ActiveIsLatest
<1>2. PanelTypeOK /\ ActiveIsLatest /\ [PanelNext]_panelAllVars => ActiveIsLatest'
  <2>. SUFFICES ASSUME PanelTypeOK, ActiveIsLatest, [PanelNext]_panelAllVars
                PROVE  ActiveIsLatest'
    OBVIOUS
  <2>1. CASE StepWithStats
    <3>1. PICK cost \in CostsOf(cb.ticks) :
            /\ last_stats' = StatsAfter(cost, cb.ticks, backend', latest_ns)
            /\ ran' = IF cb.ticks > 0 THEN WorkOf(cost) ELSE ran
      BY <2>1 DEF StepWithStats
    <3>2. cb.ticks \in Nat
      BY GridAssumption DEF GridsBehave, PanelTypeOK, AppTypeOK, Callbacks, Ticks
    <3>3. CASE cb.ticks = 0
      BY <3>1, <3>3 DEF StatsAfter, ActiveIsLatest, PanelTypeOK
    <3>4. CASE cb.ticks > 0
      <4>1. Step(cb.ticks)
        BY <2>1 DEF StepWithStats, CallStep, Call
      <4>2. ran' = [cpu_time |-> cost, ticks |-> cb.ticks, backend |-> backend']
        BY <3>1, <3>2, <3>4, <4>1, StepWork DEF WorkOf
      <4>3. last_stats' = [cpu_time |-> cost, ticks |-> cb.ticks, backend |-> backend',
                           gpu_time |-> latest_ns]
        BY <3>1, <3>2, <3>4 DEF StatsAfter
      <4>. QED
        BY <4>2, <4>3 DEF ActiveIsLatest
    <3>. QED
      BY <3>2, <3>3, <3>4
  <2>2. CASE UNCHANGED <<last_stats, ran>>
    BY <2>2 DEF ActiveIsLatest
  <2>. QED
    BY <2>1, <2>2 DEF PanelNext, PanelUi, PanelPrepare, PanelEndOfFrame,
       PanelEventLoop, panelAllVars, panelVars, statVars
<1>. QED
  BY <1>1, <1>2, PanelTypeCorrect, PTL DEF PanelSpec

\* The history of the latest timed pass and the timer's state agree.
MeasuringFollows ==
  /\ measuring = "settled" <=> timing = "Idle"
  /\ measuring = "recorded" => phase = "submit"

\* The operations of the host leave the timer alone.
LEMMA HostLeavesTimer ==
  ASSUME \/ SetBackendGpu \/ SetBackendCpu \/ Clear
         \/ \E n \in Sizes : Resize(n)
         \/ \E s \in Seeds : Randomize(s)
         \/ \E c \in Strokes : Stamp(c)
         \/ Submit \/ LoseFrame
  PROVE  timing' = timing
BY DEF SetBackendGpu, SetBackendCpu, Clear, Cleared, Resize, Randomize, Stamp,
   Submit, LoseFrame, timingVars

\* So does every call of prepare but the last.
LEMMA PrepareLeavesTimer ==
  ASSUME AppTypeOK, phase # "step", Prepare
  PROVE  timing' = timing /\ phase # "submit" /\ phase' # "ui" /\ phase' # "submit"
<1>1. /\ cb.resize # Nothing => cb.resize \in Sizes
      /\ cb.randomize # Nothing => cb.randomize \in Seeds
      /\ cb.paint # Nothing => cb.paint \in Strokes
  BY DEF AppTypeOK, Callbacks
<1>. QED
  BY <1>1, HostLeavesTimer
     DEF Prepare, CallSetBackend, CallResize, CallClear, CallRandomize,
         CallStamp, CallStep, Call, vars, timingVars

\* A step times a pass only when the timer is idle.
LEMMA StepTimes ==
  ASSUME TypeOK, NEW ticks \in Ticks, Step(ticks)
  PROVE  /\ encoder'.timed => timing = "Idle" /\ timing' = "Submitted"
         /\ ~encoder'.timed => (timing' = "Idle" <=> timing = "Idle")
<1>1. /\ StartsPass(ticks > 0) => timing = "Idle"
      /\ ~StartsPass(FALSE)
  BY DEF StartsPass, Polled
<1>2. Polled = "Idle" <=> timing = "Idle"
  BY DEF Polled
<1>3. CASE StepLanding(ticks) \/ StepCpu(ticks)
  BY <1>1, <1>2, <1>3 DEF StepLanding, StepCpu, CpuTicks, EmptyEncoder, TimingStep
<1>4. CASE StepGpu(ticks)
  BY <1>1, <1>2, <1>4 DEF StepGpu, TimingStep
<1>. QED
  BY <1>3, <1>4 DEF Step

\* The history follows the timer through every action, and timed passes go
\* one by one.
LEMMA MeasuringStep ==
  ASSUME PanelTypeOK, MeasuringFollows, [PanelNext]_panelAllVars
  PROVE  /\ MeasuringFollows'
         /\ measuring' = "recorded" /\ phase = "step" /\ encoder'.timed
              => measuring = "settled"
         /\ TimerSettles => measuring = "ended"
<1>. USE DEF MeasuringFollows, TimerSettles
<1>1. AppTypeOK /\ TypeOK /\ measuring \in {"settled", "recorded", "ended"}
  BY DEF PanelTypeOK, AppTypeOK
<1>2. CASE PanelUi
  BY <1>2 DEF PanelUi, Ui, vars, timingVars
<1>3. CASE StepWithStats
  <2>1. /\ phase = "step" /\ phase' = "submit"
        /\ cb.ticks \in Ticks /\ Step(cb.ticks)
        /\ measuring' = IF encoder'.timed THEN "recorded" ELSE measuring
    BY <1>1, <1>3 DEF StepWithStats, CallStep, Call, AppTypeOK, Callbacks
  <2>2. timing \in {"Idle", "Submitted", "Mapping"}
    BY <1>1 DEF TypeOK, TimingTypeOK
  <2>. QED
    BY <1>1, <2>1, <2>2, StepTimes
<1>4. CASE phase # "step" /\ Prepare /\ UNCHANGED panelVars
  <2>1. measuring' = measuring
    BY <1>4 DEF panelVars, statVars
  <2>. QED
    BY <1>1, <1>4, <2>1, PrepareLeavesTimer
<1>5. CASE PanelEndOfFrame
  <2>1. /\ timing' = timing /\ phase = "submit" /\ phase' = "ui"
        /\ measuring' = IF measuring = "recorded" THEN "ended" ELSE measuring
    BY <1>5, HostLeavesTimer DEF PanelEndOfFrame, EndOfFrame
  <2>. QED
    BY <1>1, <2>1
<1>6. CASE PanelEventLoop
  <2>1. /\ phase = "ui" /\ phase' = phase
        /\ measuring' = IF TimerSettles THEN "settled" ELSE measuring
        /\ timing' = timing \/ TimerSettles
    BY <1>6 DEF PanelEventLoop, EventLoop, Browser, ReadbackMapped,
       ReadbackMapFailed, SampleMapped, SampleMapFailed, TimingMapped,
       TimingMapFailed, timingVars
  <2>. QED
    BY <1>1, <2>1
<1>7. CASE UNCHANGED panelAllVars
  BY <1>7 DEF panelAllVars, panelVars, statVars, allVars, vars, timingVars
<1>. QED
  BY <1>2, <1>3, <1>4, <1>5, <1>6, <1>7 DEF PanelNext, PanelPrepare

\* Timed passes go one by one, with lost frames and failing maps: no pass
\* takes the queries of one that is still to be read.
THEOREM TimerSafe == PanelSpec => OneSampleAtATime
<1>1. PanelInit => MeasuringFollows
  BY DEF PanelInit, AppInit, Init, TimingInit, MeasuringFollows
<1>2. PanelTypeOK /\ MeasuringFollows /\ [PanelNext]_panelAllVars
        => MeasuringFollows'
  BY MeasuringStep
<1>3. PanelTypeOK /\ MeasuringFollows /\ [PanelNext]_panelAllVars
        => [/\ measuring' = "recorded" /\ phase = "step" /\ encoder'.timed
                 => measuring = "settled"
            /\ TimerSettles => measuring = "ended"]_panelAllVars
  BY MeasuringStep
<1>. QED
  BY <1>1, <1>2, <1>3, PanelTypeCorrect, PTL DEF PanelSpec, OneSampleAtATime
-----------------------------------------------------------------------------
(***************************************************************************)
(* Pause.                                                                  *)
(***************************************************************************)

\* A click on Step is never left over, and in pause no ticks are asked for or
\* recorded without one.
PauseInv ==
  /\ pending_step = FALSE
  /\ ~running /\ ~stepped /\ phase # "ui" => cb.ticks = 0
  /\ phase = "submit" /\ cb.ticks = 0 => encoder.ticks = 0

\* What a step without ticks records.
LEMMA IdleStep ==
  ASSUME Step(0)
  PROVE  encoder'.ticks = 0
<1>1. CASE StepLanding(0) \/ StepCpu(0)
  <2>1. encoder' = EmptyEncoder
    BY <1>1 DEF StepLanding, StepCpu, CpuTicks
  <2>. QED
    BY <2>1 DEF EmptyEncoder
<1>2. CASE StepGpu(0)
  BY <1>2 DEF StepGpu
<1>. QED
  BY <1>1, <1>2 DEF Step

\* The panel's choices keep the invariant, and nothing else disturbs it.
LEMMA PauseStep ==
  ASSUME PanelTypeOK, PauseInv, [PanelNext]_panelAllVars
  PROVE  PauseInv'
<1>. USE DEF PauseInv
<1>1. CASE PanelUi
  <2>1. PICK plays \in BOOLEAN, click \in BOOLEAN, slider \in Ticks :
          /\ click => ~plays
          /\ running' = plays /\ stepped' = click
          /\ cb'.ticks = TicksWanted(plays, slider, pending_step \/ click)
          /\ pending_step' = (plays /\ (pending_step \/ click))
    BY <1>1 DEF PanelUi, Playback, StepEnabled
  <2>2. phase' = "set_backend"
    BY <1>1 DEF PanelUi, Ui
  <2>. QED
    BY <2>1, <2>2 DEF TicksWanted
<1>2. CASE StepWithStats
  <2>1. /\ Step(cb.ticks) /\ phase = "step" /\ phase' = "submit"
        /\ UNCHANGED <<cb, running, stepped, pending_step>>
    BY <1>2 DEF StepWithStats, CallStep, Call, appVars, playVars
  <2>. QED
    BY <2>1, IdleStep
<1>3. CASE phase # "step" /\ Prepare /\ UNCHANGED panelVars
  <2>1. /\ UNCHANGED <<cb, running, stepped, pending_step>>
        /\ phase # "ui" /\ phase' # "submit"
    BY <1>3 DEF Prepare, CallSetBackend, CallResize, CallClear, CallRandomize,
       CallStamp, CallStep, Call, appVars, panelVars, playVars
  <2>. QED
    BY <2>1
<1>4. CASE PanelEndOfFrame
  BY <1>4 DEF PanelEndOfFrame, EndOfFrame, playVars
<1>5. CASE PanelEventLoop
  BY <1>5 DEF PanelEventLoop, EventLoop, appVars, playVars
<1>6. CASE UNCHANGED panelAllVars
  BY <1>6 DEF panelAllVars, panelVars, playVars, allVars, appVars, vars, engineVars
<1>. QED
  BY <1>1, <1>2, <1>3, <1>4, <1>5, <1>6 DEF PanelNext, PanelPrepare

\* A pick of a backend keeps the grid in charge.
LEMMA PickKeepsGrid ==
  ASSUME TypeOK, EngineInv, SetBackendGpu \/ SetBackendCpu
  PROVE  Authoritative' = Authoritative
<1>1. encoder.ticks = 0 /\ encoder' = encoder
  BY DEF EngineInv, EncoderOwned, SetBackendGpu, SetBackendCpu, EmptyEncoder
<1>2. /\ Authoritative = IF backend = "Gpu" THEN buffers[CurrentSlot] ELSE cpu
      /\ Authoritative' = IF backend' = "Gpu" THEN buffers'[CurrentSlot'] ELSE cpu'
  BY <1>1 DEF Authoritative, Executed, AfterPass
<1>3. CASE SetBackendCpu
  BY <1>2, <1>3 DEF SetBackendCpu, CurrentSlot
<1>4. CASE SetBackendGpu /\ backend = "Gpu"
  BY <1>2, <1>4 DEF SetBackendGpu, CurrentSlot
<1>5. CASE SetBackendGpu /\ backend = "Cpu"
  <2>1. buffers' = [buffers EXCEPT ![0] = cpu] /\ generation' = 0 /\ backend' = "Gpu"
    BY <1>5 DEF SetBackendGpu, Upload
  <2>2. CurrentSlot' = 0 /\ 0 \in Slots /\ buffers \in [Slots -> Grids]
    BY <2>1 DEF CurrentSlot, Slot, Slots, TypeOK
  <2>3. buffers'[0] = cpu
    BY <2>1, <2>2
  <2>. QED
    BY <1>2, <1>5, <2>1, <2>2, <2>3
<1>. QED
  BY <1>3, <1>4, <1>5 DEF TypeOK

\* A step without ticks keeps it, unless a switch lands.
LEMMA IdleKeepsGrid ==
  ASSUME TypeOK, EngineInv, Step(0), ~(backend = "Gpu" /\ backend' = "Cpu")
  PROVE  Authoritative' = Authoritative
<1>1. encoder.ticks = 0 /\ encoder'.ticks = 0
  BY IdleStep DEF EngineInv, EncoderOwned, Step, EmptyEncoder
<1>2. /\ Authoritative = IF backend = "Gpu" THEN buffers[CurrentSlot] ELSE cpu
      /\ Authoritative' = IF backend' = "Gpu" THEN buffers'[CurrentSlot'] ELSE cpu'
  BY <1>1 DEF Authoritative, Executed, AfterPass
<1>3. ~StepLanding(0)
  <2>1. SUFFICES ASSUME StepLanding(0) PROVE FALSE
    OBVIOUS
  <2>2. backend = "Cpu" /\ pending_to_cpu \in Readbacks
    BY <2>1 DEF StepLanding, IsDone, TypeOK
  <2>. QED
    BY <2>2, ReadbackAssumption DEF EngineInv, CpuModeSettled
<1>4. CASE StepCpu(0)
  <2>1. cpu' = cpu
    BY <1>4, GridAssumption DEF GridsBehave, StepCpu, CpuTicks, TypeOK
  <2>. QED
    BY <1>2, <1>4, <2>1 DEF StepCpu
<1>5. CASE StepGpu(0)
  <2>1. generation' = (generation + 0) % GenModulus /\ buffers' = buffers /\ backend' = backend
        /\ backend = "Gpu"
    BY <1>5 DEF StepGpu, Advanced
  <2>2. generation' = generation
    BY <2>1, EngineAssumption DEF TypeOK
  <2>. QED
    BY <1>2, <2>1, <2>2 DEF CurrentSlot
<1>. QED
  BY <1>3, <1>4, <1>5 DEF Step

\* The end of a frame without ticks keeps it, submitted or lost.
LEMMA EndKeepsGrid ==
  ASSUME encoder.ticks = 0, Submit \/ LoseFrame
  PROVE  Authoritative' = Authoritative
<1>1. /\ buffers' = buffers /\ encoder'.ticks = 0
      /\ UNCHANGED <<backend, generation, cpu>>
  BY DEF Submit, LoseFrame, Executed, AfterPass, EmptyEncoder
<1>. QED
  BY <1>1 DEF Authoritative, Executed, AfterPass, CurrentSlot

\* In pause the grid waits for the user: only an edit, or a switch that
\* lands, changes it.
THEOREM PauseSafe == PanelSpec => PauseHolds
<1>. DEFINE Untouched == /\ phase # "ui" /\ ~running /\ ~stepped
                         /\ ~cb.clear /\ {cb.resize, cb.randomize, cb.paint} = {Nothing}
                         /\ ~(backend = "Gpu" /\ backend' = "Cpu")
<1>1. PanelInit => PauseInv
  BY DEF PanelInit, AppInit, PauseInv
<1>2. PanelTypeOK /\ PauseInv /\ [PanelNext]_panelAllVars => PauseInv'
  BY PauseStep
<1>3. PanelTypeOK /\ EngineInv /\ PauseInv /\ [PanelNext]_panelAllVars
        => [Untouched => Authoritative' = Authoritative]_panelAllVars
  <2>. SUFFICES ASSUME PanelTypeOK, EngineInv, PauseInv, PanelNext, Untouched
                PROVE  Authoritative' = Authoritative
    OBVIOUS
  <2>1. TypeOK /\ cb.ticks = 0
    BY DEF PanelTypeOK, AppTypeOK, PauseInv
  <2>2. cb.resize = Nothing /\ cb.randomize = Nothing /\ cb.paint = Nothing
    OBVIOUS
  <2>3. UNCHANGED vars => Authoritative' = Authoritative
    BY DEF vars, engineVars, Authoritative, Executed, AfterPass, CurrentSlot
  <2>4. CASE CallSetBackend
    BY <2>1, <2>3, <2>4, PickKeepsGrid DEF CallSetBackend, Call
  <2>5. CASE CallResize \/ CallClear \/ CallRandomize \/ CallStamp
    BY <2>2, <2>3, <2>5 DEF CallResize, CallClear, CallRandomize, CallStamp, Call
  <2>6. CASE CallStep
    BY <2>1, <2>6, IdleKeepsGrid DEF CallStep, Call
  <2>7. CASE EndOfFrame
    BY <2>1, <2>7, EndKeepsGrid DEF EndOfFrame, PauseInv
  <2>8. ~Ui /\ ~EventLoop
    BY DEF Ui, EventLoop
  <2>. QED
    BY <2>4, <2>5, <2>6, <2>7, <2>8 DEF PanelNext, PanelUi, PanelPrepare,
       StepWithStats, PanelEndOfFrame, PanelEventLoop, Prepare
<1>4. PanelSpec => []EngineInv
  BY PanelRunsApp, AppRunsEngine, EngineInvariant, PTL
<1>. QED
  BY <1>1, <1>2, <1>3, <1>4, PanelTypeCorrect, PTL DEF PanelSpec, PauseHolds

-----------------------------------------------------------------------------
(***************************************************************************)
(* The average.                                                            *)
(***************************************************************************)

\* A set of numbers that is not empty has a least one.
LEMMA LeastNumber ==
  ASSUME NEW T \in SUBSET Nat, T # {}
  PROVE  \E m \in T : \A k \in T : m <= k
<1>. DEFINE R == OpToRel(<, Nat)
<1>1. \A k, m \in T : k < m => <<k, m>> \in R
  BY DEF OpToRel
<1>2. IsWellFoundedOn(R, Nat)
  BY NatLessThanWellFounded
<1>. HIDE DEF R
<1>3. \E m \in T : \A k \in T : ~(<<k, m>> \in R)
  BY <1>2, WFMin
<1>4. \E m \in T : \A k \in T : ~(k < m)
  BY <1>1, <1>3
<1>. QED
  BY <1>4

\* The numbers of a finite list have a bound.
LEMMA ListBound ==
  ASSUME NEW n \in Nat, NEW f, \A i \in 1 .. n : f[i] \in Nat
  PROVE  \E m \in Nat : \A i \in 1 .. n : f[i] <= m
<1>. DEFINE Bounded(k) == \E m \in Nat : \A i \in 1 .. k : f[i] <= m
            Unbounded == {k \in 0 .. n : ~Bounded(k)}
<1>1. Unbounded \in SUBSET Nat
  OBVIOUS
<1>2. ASSUME NEW k \in Unbounded, \A j \in Unbounded : k <= j
      PROVE  FALSE
  <2>1. k # 0
    OBVIOUS
  <2>2. k \in 1 .. n /\ k - 1 \in 0 .. n
    BY <2>1
  <2>3. k - 1 \notin Unbounded
    <3>1. ~(k <= k - 1)
      BY <2>2
    <3>. QED
      BY <1>2, <3>1
  <2>4. PICK m \in Nat : \A i \in 1 .. k - 1 : f[i] <= m
    BY <2>2, <2>3
  <2>5. f[k] \in Nat
    BY <2>2
  <2>. DEFINE both == IF f[k] <= m THEN m ELSE f[k]
  <2>6. both \in Nat /\ m <= both /\ f[k] <= both
    BY <2>5
  <2>7. ASSUME NEW i \in 1 .. k PROVE f[i] <= both
    <3>1. i = k \/ i \in 1 .. k - 1
      BY <2>2
    <3>2. f[i] \in Nat
      BY <2>2
    <3>3. i \in 1 .. k - 1 => f[i] <= m
      BY <2>4
    <3>. HIDE DEF both
    <3>. QED
      BY <2>6, <3>1, <3>2, <3>3
  <2>. HIDE DEF both
  <2>8. Bounded(k)
    BY <2>6, <2>7
  <2>. QED
    BY <2>8
<1>3. Unbounded = {}
  <2>. HIDE DEF Unbounded
  <2>. QED
    BY <1>1, <1>2, LeastNumber
<1>4. Bounded(n)
  <2>1. n \in 0 .. n
    OBVIOUS
  <2>. HIDE DEF Bounded
  <2>. QED
    BY <1>3, <2>1
<1>. QED
  BY <1>4

\* A window of samples, whatever their times.
Timings == [cpu_ms : Nat, gpu_ms : Nat \cup {NoSample}]

Windows == Seq(Timings)

\* What the samples of a window are.
LEMMA WindowElements ==
  ASSUME NEW w \in Windows
  PROVE  /\ Len(w) \in Nat /\ DOMAIN w = 1 .. Len(w)
         /\ \A i \in DOMAIN w : /\ w[i].cpu_ms \in Nat
                                /\ w[i].gpu_ms \in Nat \cup {NoSample}
<1>1. Len(w) \in Nat /\ DOMAIN w = 1 .. Len(w) /\ \A i \in DOMAIN w : w[i] \in Timings
  BY DEF Windows
<1>2. \A r \in Timings : r.cpu_ms \in Nat /\ r.gpu_ms \in Nat \cup {NoSample}
  BY DEF Timings
<1>. QED
  BY <1>1, <1>2

\* The figures of a window: one for each sample's CPU time, and no more than
\* one for its GPU time.
LEMMA FiguresCount ==
  ASSUME NEW w \in Windows
  PROVE  LET cpus == {"cpu"} \X DOMAIN w
             gpus == {"gpu"} \X {i \in DOMAIN w : w[i].gpu_ms # NoSample}
         IN  /\ Figures(w) = cpus \cup gpus
             /\ IsFiniteSet(Figures(w)) /\ IsFiniteSet(gpus)
             /\ Cardinality(gpus) \in 0 .. Len(w)
             /\ Cardinality(Figures(w)) = Len(w) + Cardinality(gpus)
             /\ \A f \in Figures(w) : TimeOf(w, f) \in Nat
<1>. DEFINE measured == {i \in DOMAIN w : w[i].gpu_ms # NoSample}
            cpus == {"cpu"} \X DOMAIN w
            gpus == {"gpu"} \X measured
<1>1. DOMAIN w = 1 .. Len(w) /\ Len(w) \in Nat
  BY WindowElements
<1>2. IsFiniteSet(DOMAIN w) /\ Cardinality(DOMAIN w) = Len(w)
  <2>1. /\ IsFiniteSet(1 .. Len(w))
        /\ Cardinality(1 .. Len(w)) = IF 1 > Len(w) THEN 0 ELSE Len(w) - 1 + 1
    <3>1. 1 \in Int /\ Len(w) \in Int
      BY <1>1
    <3>. QED
      BY <3>1, FS_Interval
  <2>2. Cardinality(1 .. Len(w)) = Len(w)
    BY <1>1, <2>1
  <2>. QED
    BY <1>1, <2>1, <2>2
<1>3. /\ IsFiniteSet(measured) /\ Cardinality(measured) <= Len(w)
      /\ Cardinality(measured) \in Nat
  BY <1>2, FS_Subset, FS_CardinalityType
<1>4. /\ IsFiniteSet(cpus) /\ Cardinality(cpus) = Len(w)
      /\ IsFiniteSet(gpus) /\ Cardinality(gpus) = Cardinality(measured)
  <2>1. \A c : IsFiniteSet({c}) /\ Cardinality({c}) = 1
    BY FS_Singleton
  <2>. HIDE DEF measured
  <2>2. ASSUME NEW c, NEW S, IsFiniteSet(S)
        PROVE  IsFiniteSet({c} \X S) /\ Cardinality({c} \X S) = Cardinality(S)
    <3>. DEFINE one == {c}
    <3>1. IsFiniteSet(one) /\ Cardinality(one) = 1
      BY <2>1
    <3>. HIDE DEF one
    <3>2. IsFiniteSet(one \X S) /\ Cardinality(one \X S) = Cardinality(one) * Cardinality(S)
      BY <2>2, <3>1, FS_Product
    <3>3. Cardinality(S) \in Nat
      BY <2>2, FS_CardinalityType
    <3>. QED
      BY <3>1, <3>2, <3>3 DEF one
  <2>. QED
    BY <1>1, <1>2, <1>3, <2>2
<1>5. cpus \cap gpus = {}
  OBVIOUS
<1>. HIDE DEF cpus, gpus, measured
<1>6. /\ IsFiniteSet(cpus \cup gpus)
      /\ Cardinality(cpus \cup gpus) = Cardinality(cpus) + Cardinality(gpus) - 0
  <2>1. /\ IsFiniteSet(cpus \cup gpus)
        /\ Cardinality(cpus \cup gpus)
             = Cardinality(cpus) + Cardinality(gpus) - Cardinality(cpus \cap gpus)
    BY <1>4, FS_Union
  <2>2. Cardinality({}) = 0
    BY FS_EmptySet
  <2>. QED
    BY <1>5, <2>1, <2>2
<1>7. Figures(w) = cpus \cup gpus
  BY DEF Figures, cpus, gpus, measured
<1>8. \A f \in Figures(w) : TimeOf(w, f) \in Nat
  BY WindowElements DEF Figures, TimeOf
<1>. QED
  BY <1>1, <1>3, <1>4, <1>6, <1>7, <1>8 DEF cpus, gpus, measured

\* Sorted figures have a time at every place, and only one of their times is
\* the least that more figures than the place do not exceed.
LEMMA SortedHas ==
  ASSUME NEW w \in Windows, NEW at \in Nat, at < Cardinality(Figures(w))
  PROVE  \E t \in {TimeOf(w, f) : f \in Figures(w)} : SortedAt(w, at, t)
<1>. DEFINE Enough == {t \in Nat : at < Cardinality(UpTo(w, t))}
<1>1. /\ IsFiniteSet(Figures(w))
      /\ \A f \in Figures(w) : TimeOf(w, f) \in Nat
  BY FiguresCount
<1>2. PICK bound \in Nat : \A f \in Figures(w) : TimeOf(w, f) <= bound
  <2>. DEFINE cpuTimes == [i \in DOMAIN w |-> w[i].cpu_ms]
              gpuTimes == [i \in DOMAIN w |->
                             IF w[i].gpu_ms = NoSample THEN 0 ELSE w[i].gpu_ms]
  <2>1. /\ DOMAIN w = 1 .. Len(w) /\ Len(w) \in Nat
        /\ \A i \in 1 .. Len(w) : cpuTimes[i] \in Nat /\ gpuTimes[i] \in Nat
    BY WindowElements
  <2>2. PICK m \in Nat : \A i \in 1 .. Len(w) : cpuTimes[i] <= m
    BY <2>1, ListBound
  <2>3. PICK k \in Nat : \A i \in 1 .. Len(w) : gpuTimes[i] <= k
    BY <2>1, ListBound
  <2>4. \A f \in Figures(w) : TimeOf(w, f) <= m + k
    <3>. SUFFICES ASSUME NEW f \in Figures(w) PROVE TimeOf(w, f) <= m + k
      OBVIOUS
    <3>1. f[2] \in 1 .. Len(w)
      BY <2>1 DEF Figures
    <3>2. TimeOf(w, f) = cpuTimes[f[2]] \/ TimeOf(w, f) = gpuTimes[f[2]]
      BY <2>1 DEF Figures, TimeOf
    <3>. HIDE DEF cpuTimes, gpuTimes
    <3>. QED
      BY <2>1, <2>2, <2>3, <3>1, <3>2
  <2>. QED
    BY <2>4
<1>3. UpTo(w, bound) = Figures(w)
  BY <1>2 DEF UpTo
<1>4. PICK t \in Enough : \A u \in Enough : t <= u
  BY <1>3, LeastNumber
<1>5. /\ IsFiniteSet(UpTo(w, t)) /\ IsFiniteSet(Under(w, t))
      /\ Cardinality(Under(w, t)) \in Nat
  BY <1>1, FS_Subset, FS_CardinalityType DEF UpTo, Under
<1>6. Cardinality(Under(w, t)) <= at
  <2>1. CASE t = 0
    <3>1. Under(w, t) = {}
      BY <1>1, <2>1 DEF Under
    <3>. QED
      BY <3>1, FS_EmptySet
  <2>2. CASE t # 0
    <3>1. t - 1 \in Nat /\ t - 1 \notin Enough
      BY <1>4, <2>2
    <3>2. Under(w, t) = UpTo(w, t - 1)
      BY <1>1 DEF Under, UpTo
    <3>. QED
      BY <1>5, <3>1, <3>2
  <2>. QED
    BY <2>1, <2>2
<1>7. t \in {TimeOf(w, f) : f \in Figures(w)}
  <2>. SUFFICES ASSUME \A f \in Figures(w) : TimeOf(w, f) # t PROVE FALSE
    OBVIOUS
  <2>1. UpTo(w, t) = Under(w, t)
    BY <1>1 DEF UpTo, Under
  <2>. QED
    BY <1>4, <1>5, <1>6, <2>1
<1>. QED
  BY <1>4, <1>6, <1>7 DEF SortedAt

\* The share is at least the half, and the CPU's times are at least half of
\* the figures: so many figures up to the cut cannot all be of the GPU.
LEMMA KeptOfWindow ==
  ASSUME NEW w \in Windows, w # <<>>
  PROVE  Kept(w) # {}
<1>. DEFINE n == Cardinality(Figures(w))
            at == PlaceOfShare(n)
            gpus == {"gpu"} \X {i \in DOMAIN w : w[i].gpu_ms # NoSample}
            g == Cardinality(gpus)
<1>1. /\ n = Len(w) + g /\ g \in 0 .. Len(w) /\ Len(w) \in Nat \ {0}
      /\ IsFiniteSet(gpus) /\ IsFiniteSet(Figures(w))
      /\ \A f \in Figures(w) : TimeOf(w, f) \in Nat
  <2>1. Len(w) \in Nat \ {0}
    BY WindowElements DEF Windows
  <2>. QED
    BY <2>1, FiguresCount
<1>. HIDE DEF n, g
<1>2. at \in Nat /\ at < n /\ g <= at
  <2>1. n \in Nat \ {0} /\ CutShare \in 50 .. 99
    BY <1>1, PanelAssumption
  <2>2. n * CutShare >= n * 50 /\ n * CutShare \in Nat
    BY <2>1
  <2>. DEFINE m == n * CutShare
  <2>3. m \in Nat /\ m >= n * 50
    BY <2>2
  <2>. HIDE DEF m
  <2>4. m \div 100 \in Nat /\ m \div 100 >= g
    BY <1>1, <2>1, <2>3
  <2>. QED
    BY <1>1, <2>1, <2>4 DEF PlaceOfShare, m
<1>3. PICK t \in {TimeOf(w, f) : f \in Figures(w)} : t = Cut(w) /\ SortedAt(w, at, t)
  <2>1. \E t \in {TimeOf(w, f) : f \in Figures(w)} : SortedAt(w, at, t)
    BY <1>2, SortedHas DEF n
  <2>2. Cut(w) = CHOOSE t \in {TimeOf(w, f) : f \in Figures(w)} : SortedAt(w, at, t)
    BY <1>1 DEF Cut, n
  <2>. QED
    BY <2>1, <2>2
<1>. SUFFICES ASSUME Kept(w) = {} PROVE FALSE
  OBVIOUS
<1>4. UpTo(w, t) \subseteq gpus
  BY <1>3 DEF Kept, UpTo, Figures, TimeOf
<1>5. Cardinality(UpTo(w, t)) <= g /\ Cardinality(UpTo(w, t)) \in Nat
  BY <1>1, <1>4, FS_Subset, FS_CardinalityType DEF g
<1>6. at < Cardinality(UpTo(w, t))
  BY <1>3 DEF SortedAt
<1>. QED
  BY <1>1, <1>2, <1>5, <1>6

\* The average always has a time to average, for every share from the half up
\* and every mixture of samples with and without a GPU time.
THEOREM AverageSafe == PanelSpec => []AverageHasValues
<1>1. PanelTypeOK => AverageHasValues
  <2>. SUFFICES ASSUME PanelTypeOK, samples # <<>> PROVE Kept(samples) # {}
    BY DEF AverageHasValues
  <2>. DEFINE S == [cpu_ms : CpuTimes, gpu_ms : GpuTimes]
  <2>1. S \subseteq Timings
    <3>1. CpuTimes \subseteq Nat
      BY PanelAssumption DEF CpuTimes
    <3>. QED
      BY <3>1, PanelAssumption DEF GpuTimes, Timings
  <2>2. samples \in Seq(S)
    BY DEF PanelTypeOK
  <2>. HIDE DEF S
  <2>3. samples \in Windows
    BY <2>1, <2>2 DEF Windows
  <2>. QED
    BY <2>3, KeptOfWindow
<1>. QED
  BY <1>1, PanelTypeCorrect, PTL
=============================================================================
