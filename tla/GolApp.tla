------------------------------- MODULE GolApp -------------------------------
(***************************************************************************)
(* The app around the engine: GameOfLifeApp (app/src/app.rs), which turns  *)
(* a frame's clicks into one GolCallback, and GolCallback::prepare         *)
(* (app/src/callback.rs), which plays it to the engine in a fixed order.   *)
(* A frame is: ui, the calls of prepare one after another, submit.  The    *)
(* page has one thread, so map callbacks run between frames.               *)
(*                                                                         *)
(* Play, pause, single step and the ticks/frame slider decide how many     *)
(* ticks a frame asks for; the user may set that to anything in any frame, *)
(* so it is an input here and not state.                                   *)
(***************************************************************************)
EXTENDS EngineProperties

CONSTANT Nothing   \* an empty Option

ASSUME NothingAssumption == Nothing \notin Sizes /\ Nothing \notin {"Gpu", "Cpu"}

VARIABLES
  ui_backend,   \* app.backend: what the user picked
  ui_engine,    \* app.engine_backend: what the engine ran a frame ago
  ui_size,      \* app.grid_size
  cb,           \* the callback of this frame
  phase         \* where the frame is

appVars == <<ui_backend, ui_engine, ui_size, cb>>

allVars == <<vars, appVars, phase>>

Callbacks == [set_backend : {"Gpu", "Cpu", Nothing},
              resize : Sizes \cup {Nothing},
              clear : BOOLEAN,
              randomize : Seeds \cup {Nothing},
              paint : Strokes \cup {Nothing},
              ticks : Ticks]

NoWork == [set_backend |-> Nothing, resize |-> Nothing, clear |-> FALSE,
           randomize |-> Nothing, paint |-> Nothing, ticks |-> 0]

AppTypeOK ==
  /\ TypeOK
  /\ {ui_backend, ui_engine} \subseteq {"Gpu", "Cpu"}
  /\ ui_size \in Sizes
  /\ cb \in Callbacks
  /\ phase \in {"ui", "set_backend", "resize", "clear", "randomize", "paint",
                "step", "submit"}

AppInit ==
  /\ Init
  /\ ui_backend = "Gpu"
  /\ ui_engine = "Gpu"
  /\ ui_size = InitialGrid
  /\ cb = NoWork
  /\ phase = "ui"

-----------------------------------------------------------------------------
\* An option that is filled when the user's choice differs from the setting.
Changed(choice, setting) == IF choice = setting THEN Nothing ELSE choice

\* Bound: a switch to the CPU is picked only while the pool has an object.
PoolAllows(choice) == choice = "Cpu" => \E r \in Readbacks : IsFree(r)

\* The callbacks show_grid may drain the pending_ fields into in a frame where
\* the panel is left at backend b and size n.
Drained(b, n) == {c \in Callbacks : /\ c.set_backend = Changed(b, ui_backend)
                                    /\ c.resize = Changed(n, ui_size)}

\* sample_diagnostics, then the panel, then show_grid.
Ui ==
  /\ phase = "ui"
  /\ phase' = "set_backend"
  /\ ui_engine' = backend
  /\ \E b \in {"Gpu", "Cpu"}, n \in Sizes :
       /\ b # ui_backend => PoolAllows(b)
       /\ ui_backend' = b
       /\ ui_size' = n
       /\ cb' \in Drained(b, n)
  /\ UNCHANGED vars

\* One call of prepare, made when the callback asks for it.
Call(at, next, wanted, operation) ==
  /\ phase = at
  /\ phase' = next
  /\ IF wanted THEN operation ELSE UNCHANGED vars
  /\ UNCHANGED appVars

CallSetBackend ==
  Call("set_backend", "resize", cb.set_backend # Nothing,
       IF cb.set_backend = "Gpu" THEN SetBackendGpu ELSE SetBackendCpu)

\* Fault: the resize asked for is left to a later frame.
CallResizeLate ==
  Call("resize", "clear", cb.resize # Nothing /\ cb.ticks = 0, Resize(cb.resize))

CallResize == Call("resize", "clear", cb.resize # Nothing, Resize(cb.resize))

CallClear == Call("clear", "randomize", cb.clear, Clear)

CallRandomize ==
  Call("randomize", "paint", cb.randomize # Nothing, Randomize(cb.randomize))

CallStamp == Call("paint", "step", cb.paint # Nothing, Stamp(cb.paint))

CallStep == Call("step", "submit", TRUE, Step(cb.ticks))

Prepare ==
  \/ CallSetBackend \/ CallResize \/ CallClear \/ CallRandomize \/ CallStamp
  \/ CallStep

\* The frame ends, and the callback with it.
EndOfFrame ==
  /\ phase = "submit"
  /\ phase' = "ui"
  /\ cb' = NoWork
  /\ Submit \/ LoseFrame
  /\ UNCHANGED <<ui_backend, ui_engine, ui_size>>

\* Between frames the browser runs the map callbacks.
EventLoop ==
  /\ phase = "ui"
  /\ Browser
  /\ UNCHANGED <<appVars, phase>>

AppNext == Ui \/ Prepare \/ EndOfFrame \/ EventLoop

AppSpec == AppInit /\ [][AppNext]_allVars

(***************************************************************************)
(* The app repaints for ever, and a frame that has begun ends.  The        *)
(* browser settles every map, and a map that is tried again and again      *)
(* succeeds in the end.  Frames keep coming, so the browser finds a moment *)
(* for a callback again and again but not all the time: its fairness is    *)
(* strong.                                                                 *)
(***************************************************************************)
Between(callback) == phase = "ui" /\ callback /\ UNCHANGED <<appVars, phase>>

AppFairness ==
  /\ WF_allVars(Ui)
  /\ WF_allVars(Prepare)
  /\ WF_allVars(EndOfFrame)
  /\ \A r \in Readbacks : SF_allVars(Between(ReadbackMapped(r)))
  /\ SF_allVars(Between(SampleMapped \/ SampleMapFailed))

FairAppSpec == AppSpec /\ AppFairness

-----------------------------------------------------------------------------
(***************************************************************************)
(* Properties.                                                             *)
(***************************************************************************)

\* The pick on its way to the engine, or arrived: the size, and a pick of the
\* GPU, which set_backend carries out at once.  This is the inductive part of
\* the two properties that follow.
SizeFollows ==
  ui_size = IF phase \in {"set_backend", "resize"} /\ cb.resize # Nothing
              THEN cb.resize ELSE size

GpuFollows ==
  IF phase = "set_backend" /\ cb.set_backend # Nothing
    THEN cb.set_backend = ui_backend
    ELSE ui_backend = "Gpu" => backend = "Gpu" /\ pending_to_cpu = NoReadback

AppInv == SizeFollows /\ GpuFollows

\* Whoever picked the GPU gets it, within the frame and for good: no switch
\* to the CPU that was asked for earlier is left to land on them.
GpuPickIsFinal ==
  phase = "ui" /\ ui_backend = "Gpu" =>
    backend = "Gpu" /\ pending_to_cpu = NoReadback

\* The grid the user aims at, and the engine's: cells that the app computes
\* for its own grid_size are stamped on a grid of that size.
StampsFit == phase \in {"ui", "paint"} => ui_size = size

\* A pick of a backend is carried out, unless the user changes it first or
\* resizes the grid on the way.
SwitchCompletes ==
  \A b \in {"Gpu", "Cpu"} :
    (cb.set_backend = b) ~>
      (ui_backend # b \/ ui_engine = b \/ cb.resize # Nothing)

-----------------------------------------------------------------------------
(***************************************************************************)
(* A statement of the repository that the code does not keep.              *)
(***************************************************************************)

\* What the engine runs differs from what the user picked only briefly: a
\* pick is carried out, unless the user changes it first.
HandoverIsBrief ==
  \A b \in {"Gpu", "Cpu"} :
    (ui_backend = b) ~> (ui_backend # b \/ ui_engine = b)
=============================================================================
