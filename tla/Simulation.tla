----------------------------- MODULE Simulation -----------------------------
(***************************************************************************)
(* What the engine promises its host: one grid, advanced and edited, and a *)
(* switch of backends that takes time in one direction.  There are no      *)
(* buffers, no generation counter, no encoder and no callbacks here.       *)
(*                                                                         *)
(* The GPU keeps a second picture beside the grid, which a clear or a lost *)
(* frame may bring back.  A switch to the CPU is requested, captures the   *)
(* grid at some later moment, and lands with what it captured; it may be   *)
(* cancelled, replaced or sent back to capture again any time before that. *)
(***************************************************************************)
EXTENDS GridData

CONSTANTS NoSnapshot, MayLoseFrames

VARIABLES
  mode,        \* the backend in charge
  grid,        \* its grid
  hidden,      \* the picture the GPU keeps beside its grid
  undo,        \* both, as they will be should the frame be lost
  request,     \* "none", "wanted" or "captured"
  snapshot     \* what the switch holds: blank, until it captures the grid

simVars == <<mode, grid, hidden, undo, request, snapshot>>

switchVars == <<request, snapshot>>

\* Nothing of the frame can be lost any more.
Settled == undo' = <<grid', hidden'>>

SimInit ==
  /\ mode = "Gpu"
  /\ grid = Seeded(InitialGrid)
  /\ hidden = Blank(InitialGrid)
  /\ undo = <<grid, hidden>>
  /\ request = "none"
  /\ snapshot = NoSnapshot

\* Ticks run at once on the CPU.  On the GPU they leave the generation before
\* the last behind, and a lost frame takes them back: an even number wholly,
\* an odd number with the two pictures changing places.
Tick(t) ==
  /\ grid' = LifeN(grid, t)
  /\ \/ mode = "Cpu" /\ hidden' = hidden /\ Settled
     \/ /\ mode = "Gpu"
        /\ hidden' = IF t = 0 THEN hidden ELSE LifeN(grid, t - 1)
        /\ undo' = IF t % 2 = 0 THEN <<grid, hidden>> ELSE <<hidden, grid>>
  /\ UNCHANGED <<mode, switchVars>>

\* The grid is replaced, and nothing else.
Becomes(g) ==
  /\ grid' = g
  /\ Settled
  /\ UNCHANGED <<mode, hidden, switchVars>>

Paint == \E c \in Strokes : Becomes(Stamped(grid, c))

Randomized == \E s \in Seeds : Becomes(Soup(s, SizeOf(grid)))

\* A clear blanks the grid, or (GPU mode, odd generation) blanks the picture
\* in charge and puts the hidden one in its place.
ClearGrid ==
  \/ Becomes(Blank(SizeOf(grid)))
  \/ /\ mode = "Gpu"
     /\ grid' = hidden
     /\ hidden' = Blank(SizeOf(grid))
     /\ Settled
     /\ UNCHANGED <<mode, switchVars>>

\* The switch is over, or never was.
NoSwitch == request' = "none" /\ snapshot' = NoSnapshot

ResizeGrid ==
  /\ NoSwitch
  /\ \E n \in Sizes \ {SizeOf(grid)} :
       /\ grid' = Blank(n)
       /\ hidden' = Blank(n)
  /\ Settled
  /\ UNCHANGED mode

Request ==
  /\ mode = "Gpu"
  /\ request' = "wanted"
  /\ snapshot' = Blank(SizeOf(grid))
  /\ UNCHANGED <<mode, grid, hidden, undo>>

Cancel ==
  /\ NoSwitch
  /\ UNCHANGED <<mode, grid, hidden, undo>>

\* The switch goes on with a snapshot.
Captures == request = "wanted" /\ request' = "captured"

\* The frame is carried out: its ticks stay, and a wanted switch may capture
\* the grid with it.
Carry ==
  /\ UNCHANGED <<mode, grid, hidden>>
  /\ Settled
  /\ UNCHANGED switchVars \/ (Captures /\ snapshot' = grid)

\* The frame is lost: its ticks are taken back, and a switch that was to
\* capture the grid goes on with what it held before.
Lose ==
  /\ MayLoseFrames
  /\ <<grid', hidden'>> = undo
  /\ UNCHANGED <<mode, undo>>
  /\ UNCHANGED switchVars \/ (Captures /\ UNCHANGED snapshot)

Recapture ==
  /\ request = "captured"
  /\ request' = "wanted"
  /\ UNCHANGED <<mode, grid, hidden, undo, snapshot>>

\* The CPU goes on from the snapshot; the GPU's first buffer, where it will
\* be shown, may have held either of the two pictures.
Land ==
  /\ mode = "Gpu"
  /\ request = "captured"
  /\ mode' = "Cpu"
  /\ \E t \in Ticks : grid' = LifeN(snapshot, t)
  /\ hidden' \in {grid, hidden}
  /\ Settled
  /\ NoSwitch

\* Back to the GPU: at once, and with the very same grid.
Return ==
  /\ mode = "Cpu"
  /\ mode' = "Gpu"
  /\ UNCHANGED <<grid, hidden, undo, switchVars>>

SimNext ==
  \/ \E t \in Ticks : Tick(t)
  \/ Paint \/ Randomized \/ ClearGrid \/ ResizeGrid
  \/ Request \/ Cancel \/ Carry \/ Lose \/ Recapture \/ Land \/ Return

SimSpec == SimInit /\ [][SimNext]_simVars
=============================================================================
