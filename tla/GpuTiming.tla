----------------------------- MODULE GpuTiming ------------------------------
(***************************************************************************)
(* The GPU timer of engine/src/timing.rs: one timestamp readback at a      *)
(* time, recorded around a compute pass, mapped on a later frame, read in  *)
(* a callback.  The module holds the timer's state and what each of its    *)
(* methods does to it; GolEngine extends it and says when they run.        *)
(*                                                                         *)
(* The readback buffer is mapped, or waiting to be, exactly while the      *)
(* state is "Mapping": map_async is called on entry and the callback       *)
(* unmaps before it stores "Idle".                                         *)
(***************************************************************************)

CONSTANTS
  HasTiming,   \* did the adapter offer timestamp queries?
  Samples,     \* durations a measurement may read
  NoSample     \* latest_ns before any measurement

ASSUME TimingAssumption ==
  /\ HasTiming \in BOOLEAN
  /\ NoSample \notin Samples

VARIABLES
  timing,      \* the AtomicU8 state
  latest_ns    \* the last measurement

timingVars == <<timing, latest_ns>>

TimingTypeOK ==
  /\ timing \in {"Idle", "Submitted", "Mapping"}
  /\ latest_ns \in Samples \cup {NoSample}

TimingInit ==
  /\ timing = "Idle"
  /\ latest_ns = NoSample

\* The timer's state after poll_readback: a submitted copy is asked for.
Polled == IF timing = "Submitted" THEN "Mapping" ELSE timing

\* Fault: a pass that takes the queries whatever the state is.
StartsPassBusy(gpu_pass) == HasTiming /\ gpu_pass

\* Does try_start_pass, called after the poll, hand out the two queries?
StartsPass(gpu_pass) == HasTiming /\ gpu_pass /\ Polled = "Idle"

\* Fault: the poll made after the pass is recorded.
TimingStepPolledLast(gpu_pass) ==
  /\ timing' = IF StartsPass(gpu_pass) THEN "Mapping" ELSE Polled
  /\ UNCHANGED latest_ns

\* Fault: a poll made only in frames that record a pass.
TimingStepPolledWithPass(gpu_pass) ==
  /\ timing' = IF StartsPass(gpu_pass) THEN "Submitted"
               ELSE IF gpu_pass THEN Polled ELSE timing
  /\ UNCHANGED latest_ns

\* What one call of GolEngine::step does to the timer, in its order: poll,
\* then, if a compute pass is recorded, try_start_pass and finish_pass.
TimingStep(gpu_pass) ==
  /\ timing' = IF StartsPass(gpu_pass) THEN "Submitted" ELSE Polled
  /\ UNCHANGED latest_ns

\* The map callback, with a result and with an error.
TimingMapped ==
  /\ timing = "Mapping"
  /\ timing' = "Idle"
  /\ latest_ns' \in Samples

TimingMapFailed ==
  /\ timing = "Mapping"
  /\ timing' = "Idle"
  /\ UNCHANGED latest_ns
=============================================================================
