------------------------------ MODULE GpuPass ------------------------------
(***************************************************************************)
(* The compute pass that step_gpu (engine/src/engine.rs) records, as the   *)
(* GPU runs it.  Every dispatch starts a square of workgroups that covers  *)
(* the grid; its invocations run in any order and overlap, each loading    *)
(* cells of one buffer and storing a cell of the other; a dispatch sees    *)
(* all the stores of the one before.  The edge of the grid need not be a   *)
(* multiple of the workgroup's, so some invocations fall off the grid.     *)
(***************************************************************************)
EXTENDS LifeRule

CONSTANTS
  GridSize,        \* params.width and params.height
  WorkgroupSize,   \* WORKGROUP_SIZE
  Starts           \* boards the current buffer may hold at first

ASSUME PassAssumption ==
  /\ GridSize \in Nat \ {0}
  /\ WorkgroupSize \in Nat \ {0}
  /\ Starts \subseteq Boards(GridSize)

VARIABLES
  buffers,   \* the two storage buffers
  src,       \* the slot the dispatch under way reads: generation % 2
  pc,        \* how far each invocation is
  alive      \* alive_next of each invocation

passVars == <<buffers, src, pc, alive>>

Slots == {0, 1}

\* Fault: whole workgroups only.
GroupsFloor == GridSize \div WorkgroupSize

\* size.div_ceil(WORKGROUP_SIZE), in both directions.
Groups == (GridSize + WorkgroupSize - 1) \div WorkgroupSize

\* The global invocation ids of a dispatch.
Gids == Coords(Groups * WorkgroupSize) \X Coords(Groups * WorkgroupSize)

InGrid(g) == g[1] < GridSize /\ g[2] < GridSize

CellOf(g) == Index(GridSize, g[1], g[2])

\* Fault: a bind group whose two bindings name the same buffer.
TargetInPlace == src

\* compute_bg[src] reads slot src and writes the other.
Target == 1 - src

\* A buffer as WebGPU creates it.
Blank == [i \in Cells(GridSize) |-> 0]

PassTypeOK ==
  /\ buffers \in [Slots -> Boards(GridSize)]
  /\ src \in Slots
  /\ pc \in [Gids -> {"ready", "loaded", "done"}]
  /\ alive \in [Gids -> {0, 1}]

PassInit ==
  /\ \E start \in Starts :
       buffers = [s \in Slots |-> IF s = 0 THEN start ELSE Blank]
  /\ src = 0
  /\ pc = [g \in Gids |-> "ready"]
  /\ alive = [g \in Gids |-> 0]

-----------------------------------------------------------------------------
\* gol_step returns at once off the grid.
Return(g) ==
  /\ pc[g] = "ready"
  /\ ~InGrid(g)
  /\ pc' = [pc EXCEPT ![g] = "done"]
  /\ UNCHANGED <<buffers, src, alive>>

Load(g) ==
  /\ pc[g] = "ready"
  /\ InGrid(g)
  /\ alive' = [alive EXCEPT ![g] = GpuCell(buffers[src], GridSize, g[1], g[2])]
  /\ pc' = [pc EXCEPT ![g] = "loaded"]
  /\ UNCHANGED <<buffers, src>>

Store(g) ==
  /\ pc[g] = "loaded"
  /\ buffers' = [buffers EXCEPT ![Target][CellOf(g)] = alive[g]]
  /\ pc' = [pc EXCEPT ![g] = "done"]
  /\ UNCHANGED <<src, alive>>

\* Fault: a generation that is used as a slot without its mask.
NextSlotUnmasked == src + 1

\* The slot of the next generation.
NextSlot == (src + 1) % 2

\* The next dispatch starts when every invocation has finished.
NextDispatch ==
  /\ \A g \in Gids : pc[g] = "done"
  /\ src' = NextSlot
  /\ pc' = [g \in Gids |-> "ready"]
  /\ alive' = [g \in Gids |-> 0]
  /\ UNCHANGED buffers

PassNext ==
  \/ \E g \in Gids : Return(g) \/ Load(g) \/ Store(g)
  \/ NextDispatch

PassSpec == PassInit /\ [][PassNext]_passVars

-----------------------------------------------------------------------------
(***************************************************************************)
(* Properties.                                                             *)
(***************************************************************************)
NextGeneration == Life(buffers[src], GridSize)

\* Whatever the order of the invocations, what one has loaded or stored is
\* the next generation of a board that stays whole while they run, and no
\* invocation off the grid stores anything.
PassInv ==
  \A g \in Gids :
    /\ pc[g] = "loaded" =>
         InGrid(g) /\ alive[g] = NextGeneration[CellOf(g)]
    /\ pc[g] = "done" /\ InGrid(g) =>
         buffers[Target][CellOf(g)] = NextGeneration[CellOf(g)]

Generations == INSTANCE LifeGeneration WITH board <- buffers[src]

\* A dispatch is one generation: the board the next dispatch reads is the
\* next generation of the one this dispatch read, in one step.
ImplementsLife == Generations!LifeSpec
=============================================================================
