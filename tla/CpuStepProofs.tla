---------------------------- MODULE CpuStepProofs ----------------------------
(***************************************************************************)
(* Proofs about CpuStep, for every edge length.                            *)
(***************************************************************************)
EXTENDS CpuStep, LifeProofs

\* The loops go through the vector cell by cell, from its first to its end.
LEMMA RowMajor ==
  ASSUME CpuTypeOK
  PROVE  /\ Advance /\ y < GridSize =>
              /\ x' \in Coords(GridSize) /\ y' \in 0 .. GridSize
              /\ y' = GridSize => x' = 0
              /\ Index(GridSize, x', y') = Index(GridSize, x, y) + 1
         /\ Index(GridSize, 0, GridSize) = GridSize * GridSize
         /\ Index(GridSize, x, 0) = x
<1>1. /\ GridSize \in Nat \ {0} /\ x \in Int /\ y \in Int
      /\ 0 <= x /\ x < GridSize /\ 0 <= y /\ y <= GridSize
  BY CpuAssumption DEF CpuTypeOK, Coords
<1>2. (y + 1) * GridSize = y * GridSize + GridSize
  BY <1>1
<1>3. y * GridSize \in Int /\ GridSize * GridSize \in Int
  BY <1>1
<1>. QED
  BY <1>1, <1>2, <1>3 DEF Advance, Index, Coords

\* A turn of the loop writes the cell of the next generation at its position.
LEMMA TurnWrites ==
  ASSUME CpuTypeOK, y < GridSize
  PROVE  /\ y \in Coords(GridSize)
         /\ Index(GridSize, x, y) \in Cells(GridSize)
         /\ CpuCell(front, GridSize, x, y) \in {0, 1}
         /\ CpuCell(front, GridSize, x, y)
              = Life(front, GridSize)[Index(GridSize, x, y)]
<1>1. /\ GridSize \in Nat \ {0} /\ front \in Boards(GridSize)
      /\ x \in Coords(GridSize) /\ y \in Coords(GridSize)
  BY CpuAssumption DEF CpuTypeOK, Coords
<1>2. CpuCell(front, GridSize, x, y) = LifeCell(front, GridSize, x, y)
  BY <1>1, KernelsCompute
<1>3. Life(front, GridSize)[Index(GridSize, x, y)] = LifeCell(front, GridSize, x, y)
  BY <1>1, LifeOfBoard
<1>4. Index(GridSize, x, y) \in Cells(GridSize)
  BY <1>1, IndexRange
<1>. QED
  BY <1>1, <1>2, <1>3, <1>4 DEF LifeCell

\* One turn or a swap keeps the types and the invariant.
LEMMA CpuStepKeeps ==
  CpuTypeOK /\ CpuInv /\ [CpuNext]_cpuVars => CpuTypeOK' /\ CpuInv'
<1>. SUFFICES ASSUME CpuTypeOK, CpuInv, [CpuNext]_cpuVars
              PROVE  CpuTypeOK' /\ CpuInv'
  OBVIOUS
<1>1. CASE Cell
  <2>1. /\ y < GridSize /\ Advance /\ front' = front
        /\ back' = [back EXCEPT ![Index(GridSize, x, y)]
                                  = CpuCell(front, GridSize, x, y)]
        /\ back \in [Cells(GridSize) -> {0, 1}]
    BY <1>1 DEF Cell, CpuTypeOK, Boards
  <2>2. CpuTypeOK'
    BY <2>1, RowMajor, TurnWrites DEF CpuTypeOK, Boards
  <2>3. ASSUME NEW i \in Cells(GridSize), i < Index(GridSize, x', y')
        PROVE  back'[i] = Life(front, GridSize)[i]
    <3>1. CASE i = Index(GridSize, x, y)
      BY <2>1, <3>1, TurnWrites
    <3>2. CASE i # Index(GridSize, x, y)
      <4>1. i < Index(GridSize, x, y)
        BY <2>1, <2>3, <3>2, RowMajor, TurnWrites DEF Cells
      <4>. QED
        BY <2>1, <3>2, <4>1 DEF CpuInv
    <3>. QED
      BY <3>1, <3>2
  <2>. QED
    BY <2>1, <2>2, <2>3, RowMajor DEF CpuInv
<1>2. CASE Swap
  <2>1. CpuTypeOK' /\ x' = 0 /\ y' = 0 /\ GridSize # 0
    BY <1>2, CpuAssumption DEF Swap, CpuTypeOK, CpuInv
  <2>2. Index(GridSize, x', y') = 0
    BY <2>1, CpuAssumption DEF Index
  <2>. QED
    BY <2>1, <2>2, CpuAssumption DEF CpuInv, Cells
<1>3. CASE UNCHANGED cpuVars
  BY <1>3 DEF cpuVars, CpuTypeOK, CpuInv
<1>. QED
  BY <1>1, <1>2, <1>3 DEF CpuNext

\* What the loop has passed is the next generation, and stays so until the
\* swap, whatever the back buffer held before.
THEOREM LoopInvariant == CpuSpec => [](CpuTypeOK /\ CpuInv)
<1>1. CpuInit => CpuTypeOK /\ CpuInv
  <2>. SUFFICES ASSUME CpuInit PROVE CpuTypeOK /\ CpuInv
    OBVIOUS
  <2>1. CpuTypeOK
    BY CpuAssumption DEF CpuInit, CpuTypeOK, Boards, Coords
  <2>2. Index(GridSize, x, y) = 0
    BY CpuAssumption DEF CpuInit, Index
  <2>. QED
    BY <2>1, <2>2, CpuAssumption DEF CpuInit, CpuInv, Cells
<1>. QED
  BY <1>1, CpuStepKeeps, PTL DEF CpuSpec

\* The loop keeps its types for every edge length.
THEOREM LoopTypeCorrect == CpuSpec => []CpuTypeOK
<1>1. CpuTypeOK /\ CpuInv => CpuTypeOK
  OBVIOUS
<1>. QED
  BY <1>1, LoopInvariant, PTL

\* The user may compare the backends on any board: the kernels agree.
THEOREM AlwaysAgree == CpuSpec => []KernelsAgree
<1>1. CpuTypeOK => KernelsAgree
  BY CpuAssumption, KernelsCompute DEF CpuTypeOK, KernelsAgree
<1>. QED
  BY <1>1, LoopInvariant, PTL

\* At the end of the loops the back buffer holds the whole next generation.
LEMMA LoopComplete ==
  ASSUME CpuTypeOK, CpuInv, y = GridSize
  PROVE  back = Life(front, GridSize)
<1>1. back \in Boards(GridSize) /\ Life(front, GridSize) \in Boards(GridSize)
  BY CpuAssumption, LifeOfBoard DEF CpuTypeOK
<1>2. Index(GridSize, x, y) = GridSize * GridSize
  BY RowMajor DEF CpuInv
<1>3. ASSUME NEW i \in Cells(GridSize) PROVE back[i] = Life(front, GridSize)[i]
  <2>1. i < GridSize * GridSize
    BY CpuAssumption DEF Cells
  <2>. QED
    BY <1>2, <2>1 DEF CpuInv
<1>. QED
  BY <1>1, <1>3 DEF Boards

\* The abstract specification's rule is the rule.
LEMMA SameRule == \A b, n : Generations!Life(b, n) = Life(b, n)
BY DEF Life, LifeCell, LiveNeighbours, Neighbour, Index, Offsets, Cells,
   Generations!Life, Generations!LifeCell, Generations!LiveNeighbours,
   Generations!Neighbour, Generations!Index, Generations!Offsets,
   Generations!Cells, Cardinality, Generations!Cardinality

\* CpuSim::step implements Life: a call is one generation of the whole board,
\* seen at the swap and at no other turn.
THEOREM LoopImplementsLife == CpuSpec => ImplementsLife
<1>1. CpuInit => Generations!LifeInit
  BY DEF CpuInit, Generations!LifeInit
<1>2. CpuTypeOK /\ CpuInv /\ [CpuNext]_cpuVars
        => [Generations!Generation]_front
  <2>. SUFFICES ASSUME CpuTypeOK, CpuInv, [CpuNext]_cpuVars
                PROVE  Generations!Generation \/ UNCHANGED front
    OBVIOUS
  <2>1. CASE Cell
    BY <2>1 DEF Cell
  <2>2. CASE Swap
    BY <2>2, LoopComplete, SameRule DEF Swap, Generations!Generation
  <2>3. CASE UNCHANGED cpuVars
    BY <2>3 DEF cpuVars
  <2>. QED
    BY <2>1, <2>2, <2>3 DEF CpuNext
<1>. QED
  BY <1>1, <1>2, LoopInvariant, PTL
     DEF CpuSpec, ImplementsLife, Generations!LifeSpec
=============================================================================
