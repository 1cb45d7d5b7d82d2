------------------------------- MODULE Panel --------------------------------
(***************************************************************************)
(* The app's playback controls and its timing section: play, pause, single *)
(* step and the slider, which decide the ticks of a frame (tab_sim and     *)
(* show_grid of app/src/app.rs); the statistics that step keeps of itself  *)
(* (StepStats in engine/src/engine.rs); and the window of samples behind   *)
(* the chart (app/src/fps_graph.rs).                                       *)
(*                                                                         *)
(* Every action is one of GolApp with what it does to these.  A time is a  *)
(* number; what a step costs on the CPU is any of CostsOf its ticks.  The  *)
(* slider may stand anywhere in any frame: it is an input, not state.      *)
(***************************************************************************)
EXTENDS GolApp, Sequences, FiniteSets

CONSTANTS
  CostsOf(_),  \* times a call of step may take, by its ticks
  Capacity,    \* CAPACITY, 1800 in the code
  CutShare     \* the share below the cut, in percent: 99 in the code

ASSUME PanelAssumption ==
  /\ MaxTicks > 0
  /\ Samples \subseteq Nat
  /\ \A ticks \in Ticks : CostsOf(ticks) \subseteq Nat
  /\ Capacity \in Nat \ {0}
  /\ CutShare \in 50 .. 99

VARIABLES
  running,           \* is it playing?
  pending_step,      \* a click on Step that no frame has carried out
  last_stats,        \* engine.last_stats
  samples,           \* FpsGraph.samples, oldest first
  \* histories
  stepped,           \* was Step clicked in this frame?
  ran,               \* the latest step that ran any ticks
  measuring          \* "settled", or the latest timed pass is "recorded" in
                     \* a frame or its frame has "ended"

playVars == <<running, pending_step, stepped>>
statVars == <<last_stats, samples, ran, measuring>>
panelVars == <<playVars, statVars>>

panelAllVars == <<allVars, panelVars>>

CpuTimes == {0} \cup UNION {CostsOf(ticks) : ticks \in Ticks}

GpuTimes == Samples \cup {NoSample}

PanelTypeOK ==
  /\ AppTypeOK
  /\ {running, pending_step, stepped} \subseteq BOOLEAN
  /\ last_stats \in [cpu_time : CpuTimes, ticks : Ticks,
                     backend : {"Gpu", "Cpu"}, gpu_time : GpuTimes]
  /\ samples \in Seq([cpu_ms : CpuTimes, gpu_ms : GpuTimes])
  /\ Len(samples) <= Capacity
  /\ ran \in [cpu_time : CpuTimes, ticks : Ticks, backend : {"Gpu", "Cpu"}]
  /\ measuring \in {"settled", "recorded", "ended"}

NoStats == [cpu_time |-> 0, ticks |-> 0, backend |-> "Gpu", gpu_time |-> NoSample]

NothingRun == [cpu_time |-> 0, ticks |-> 0, backend |-> "Gpu"]

PanelInit ==
  /\ AppInit
  /\ running = TRUE
  /\ pending_step = FALSE
  /\ last_stats = NoStats
  /\ samples = <<>>
  /\ stepped = FALSE
  /\ ran = NothingRun
  /\ measuring = "settled"

-----------------------------------------------------------------------------
(***************************************************************************)
(* The chart's window and its figures.                                     *)
(***************************************************************************)
SampleOf(stats) == [cpu_ms |-> stats.cpu_time, gpu_ms |-> stats.gpu_time]

\* Fault: a window that makes room one sample late.
PushedLate(window, stats) ==
  Append(IF Len(window) > Capacity THEN Tail(window) ELSE window, SampleOf(stats))

\* push_step.
Pushed(window, stats) ==
  Append(IF Len(window) = Capacity THEN Tail(window) ELSE window, SampleOf(stats))

\* The times of both series, each named by its series and its place in the
\* window.  A frame without a measurement has no GPU time.
Figures(window) ==
  ({"cpu"} \X DOMAIN window)
    \cup ({"gpu"} \X {i \in DOMAIN window : window[i].gpu_ms # NoSample})

TimeOf(window, f) ==
  IF f[1] = "cpu" THEN window[f[2]].cpu_ms ELSE window[f[2]].gpu_ms

\* The place of the share among n sorted values, counted from 0.
PlaceOfShare(n) ==
  LET at == (n * CutShare) \div 100
  IN  IF at < n - 1 THEN at ELSE n - 1

Under(window, t) == {f \in Figures(window) : TimeOf(window, f) < t}

UpTo(window, t) == {f \in Figures(window) : TimeOf(window, f) <= t}

\* The time at a place of the sorted figures: no more of them than that are
\* smaller, and more than that are no greater.
SortedAt(window, at, t) ==
  Cardinality(Under(window, t)) <= at /\ at < Cardinality(UpTo(window, t))

\* Fault: the cut at the other end of the sorted values.
CutReversed(window) ==
  LET n == Cardinality(Figures(window))
  IN  IF n = 0 THEN 0
      ELSE CHOOSE t \in {TimeOf(window, f) : f \in Figures(window)} :
             SortedAt(window, n - 1 - PlaceOfShare(n), t)

\* p99_ms: the time at the share's place among both series together.
Cut(window) ==
  LET n == Cardinality(Figures(window))
  IN  IF n = 0 THEN 0
      ELSE CHOOSE t \in {TimeOf(window, f) : f \in Figures(window)} :
             SortedAt(window, PlaceOfShare(n), t)

\* The samples whose CPU time avg_cpu_ms averages.
Kept(window) == {i \in DOMAIN window : window[i].cpu_ms <= Cut(window)}

-----------------------------------------------------------------------------
(***************************************************************************)
(* A frame.                                                                *)
(***************************************************************************)

\* Fault: Step is drawn before Play, and enabled by what was before.
StepEnabledBefore(plays) == ~running

\* The Step button is drawn after Play, and enabled only in pause.
StepEnabled(plays) == ~plays

\* The ticks show_grid asks for.
TicksWanted(plays, slider, step) ==
  IF plays THEN slider ELSE IF step THEN 1 ELSE 0

Playback ==
  \E plays, click \in BOOLEAN, slider \in Ticks :
    LET step == pending_step \/ click
    IN  /\ click => StepEnabled(plays)
        /\ running' = plays
        /\ stepped' = click
        /\ cb'.ticks = TicksWanted(plays, slider, step)
        /\ pending_step' = (plays /\ step)

\* sample_diagnostics, the panel, show_grid.
PanelUi ==
  /\ Ui
  /\ samples' = Pushed(samples, last_stats)
  /\ Playback
  /\ UNCHANGED <<last_stats, ran, measuring>>

\* Fault: an idle frame leaves the statistics alone.
StatsKeptWhenIdle(cost, ticks, ran_on, gpu_time) ==
  IF ticks = 0 THEN last_stats
  ELSE [cpu_time |-> cost, ticks |-> ticks, backend |-> ran_on, gpu_time |-> gpu_time]

\* Fault: an idle frame renews the time on the CPU as well.
StatsTimedWhenIdle(cost, ticks, ran_on, gpu_time) ==
  IF ticks = 0 THEN [last_stats EXCEPT !.cpu_time = cost, !.gpu_time = gpu_time]
  ELSE [cpu_time |-> cost, ticks |-> ticks, backend |-> ran_on, gpu_time |-> gpu_time]

\* What step leaves in last_stats: an idle frame only renews the GPU time.
StatsAfter(cost, ticks, ran_on, gpu_time) ==
  IF ticks = 0 THEN [last_stats EXCEPT !.gpu_time = gpu_time]
  ELSE [cpu_time |-> cost, ticks |-> ticks, backend |-> ran_on, gpu_time |-> gpu_time]

\* The work of a step, by what it leaves: dispatches in the encoder if they are
\* the GPU's, and none if the CPU has run the ticks the frame asked for.
WorkOf(cost) ==
  IF encoder'.ticks > 0
    THEN [cpu_time |-> cost, ticks |-> encoder'.ticks, backend |-> "Gpu"]
    ELSE [cpu_time |-> cost, ticks |-> cb.ticks, backend |-> "Cpu"]

StepWithStats ==
  /\ CallStep
  /\ \E cost \in CostsOf(cb.ticks) :
       /\ last_stats' = StatsAfter(cost, cb.ticks, backend', latest_ns)
       /\ ran' = IF cb.ticks > 0 THEN WorkOf(cost) ELSE ran
  /\ measuring' = IF encoder'.timed THEN "recorded" ELSE measuring
  /\ UNCHANGED <<playVars, samples>>

PanelPrepare ==
  \/ StepWithStats
  \/ phase # "step" /\ Prepare /\ UNCHANGED panelVars

PanelEndOfFrame ==
  /\ EndOfFrame
  /\ measuring' = IF measuring = "recorded" THEN "ended" ELSE measuring
  /\ UNCHANGED <<playVars, last_stats, samples, ran>>

\* A map callback of the timer, and any other.
TimerSettles == timing = "Mapping" /\ timing' = "Idle"

PanelEventLoop ==
  /\ EventLoop
  /\ measuring' = IF TimerSettles THEN "settled" ELSE measuring
  /\ UNCHANGED <<playVars, last_stats, samples, ran>>

PanelNext == PanelUi \/ PanelPrepare \/ PanelEndOfFrame \/ PanelEventLoop

(***************************************************************************)
(* The fairness of GolApp, for its actions as they are here.               *)
(***************************************************************************)
PanelFairness ==
  /\ WF_panelAllVars(PanelUi)
  /\ WF_panelAllVars(PanelPrepare)
  /\ WF_panelAllVars(PanelEndOfFrame)

PanelSpec == PanelInit /\ [][PanelNext]_panelAllVars /\ PanelFairness

-----------------------------------------------------------------------------
(***************************************************************************)
(* Properties.                                                             *)
(***************************************************************************)

\* Timed passes go one by one: a pass is timed only when the one before has
\* been read or its map has failed, and what is read is a pass whose frame
\* has ended.  The timer has one pair of queries and one buffer.
OneSampleAtATime ==
  [][/\ measuring' = "recorded" /\ phase = "step" /\ encoder'.timed => measuring = "settled"
     /\ TimerSettles => measuring = "ended"]_panelAllVars

\* The panel's figures belong together: the time on the CPU, the number of
\* ticks it is divided by and the backend called active are those of one step,
\* the latest that ran any tick, through pauses, switches and lost frames.
ActiveIsLatest ==
  \A figure \in {"cpu_time", "ticks", "backend"} : last_stats[figure] = ran[figure]

\* A click on Step is carried out in its frame or not at all: no later pause
\* finds one.  While it is paused and not stepped, the grid changes by edits
\* and by a switch that lands, and by nothing else.
PauseHolds ==
  [][phase # "ui" /\ ~running /\ ~stepped
       /\ ~cb.clear /\ {cb.resize, cb.randomize, cb.paint} = {Nothing}
       /\ ~(backend = "Gpu" /\ backend' = "Cpu")
     => Authoritative' = Authoritative]_panelAllVars

\* The average is never empty: the cut is taken over both series, and yet it
\* leaves some time of the CPU below it.
AverageHasValues == samples # <<>> => Kept(samples) # {}

\* A measurement that has arrived reaches the panel, also in pause, unless
\* the next one overtakes it.
MeasurementShown ==
  \A t \in Samples :
    (latest_ns = t) ~> (last_stats.gpu_time = t \/ latest_ns # t)
=============================================================================
