------------------------------ MODULE CpuStep ------------------------------
(***************************************************************************)
(* CpuSim::step of engine/src/cpu.rs, one turn of its inner loop at a      *)
(* time.  The back buffer still holds the generation before the last, so   *)
(* every cell of it must be written before the swap.                       *)
(***************************************************************************)
EXTENDS LifeRule

CONSTANTS
  GridSize,   \* size
  Starts      \* boards the front buffer may hold at first

ASSUME CpuAssumption ==
  /\ GridSize \in Nat \ {0}
  /\ Starts \subseteq Boards(GridSize)

VARIABLES
  front,   \* the current generation
  back,    \* the one being computed
  x, y     \* the loop variables

cpuVars == <<front, back, x, y>>

CpuTypeOK ==
  /\ front \in Boards(GridSize)
  /\ back \in Boards(GridSize)
  /\ x \in Coords(GridSize)
  /\ y \in 0 .. GridSize

CpuInit ==
  /\ front \in Starts
  /\ back = [i \in Cells(GridSize) |-> 0]
  /\ x = 0
  /\ y = 0

\* Fault: the inner loop leaves out the last column.
AdvanceShort ==
  IF x + 2 >= GridSize THEN x' = 0 /\ y' = y + 1
                       ELSE x' = x + 1 /\ UNCHANGED y

\* Fault: the inner loop runs one column too far.
AdvanceLong ==
  IF x = GridSize THEN x' = 0 /\ y' = y + 1
                  ELSE x' = x + 1 /\ UNCHANGED y

\* The two loops count row by row.
Advance ==
  IF x + 1 = GridSize THEN x' = 0 /\ y' = y + 1
                      ELSE x' = x + 1 /\ UNCHANGED y

\* Fault: a step computed in place.
CellInPlace ==
  /\ y < GridSize
  /\ front' = [front EXCEPT ![Index(GridSize, x, y)] = CpuCell(front, GridSize, x, y)]
  /\ Advance
  /\ UNCHANGED back

Cell ==
  /\ y < GridSize
  /\ back' = [back EXCEPT ![Index(GridSize, x, y)] = CpuCell(front, GridSize, x, y)]
  /\ Advance
  /\ UNCHANGED front

\* std::mem::swap, and the next call of step starts over.
Swap ==
  /\ y = GridSize
  /\ front' = back
  /\ back' = front
  /\ y' = 0
  /\ UNCHANGED x

CpuNext == Cell \/ Swap

CpuSpec == CpuInit /\ [][CpuNext]_cpuVars

-----------------------------------------------------------------------------
(***************************************************************************)
(* Properties.                                                             *)
(***************************************************************************)

\* The cells before the loop's position hold the next generation, and past
\* the last row the position is the end of the vector.
CpuInv ==
  /\ y = GridSize => x = 0
  /\ \A i \in Cells(GridSize) :
       i < Index(GridSize, x, y) => back[i] = Life(front, GridSize)[i]

\* "The two pipelines produce identical state": on every board the CPU
\* reaches, the shader would compute the same next generation, and both
\* compute the one the rule defines.
KernelsAgree ==
  \A column, row \in Coords(GridSize) :
    /\ CpuCell(front, GridSize, column, row) = LifeCell(front, GridSize, column, row)
    /\ GpuCell(front, GridSize, column, row) = LifeCell(front, GridSize, column, row)

Generations == INSTANCE LifeGeneration WITH board <- front

\* A call of step is one generation.
ImplementsLife == Generations!LifeSpec
=============================================================================
