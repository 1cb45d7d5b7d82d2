---------------------------- MODULE GpuPassProofs ----------------------------
(***************************************************************************)
(* Proofs about GpuPass, for every edge of the grid and of the workgroup   *)
(* and for every order of the invocations.                                 *)
(***************************************************************************)
EXTENDS GpuPass, LifeProofs

\* The workgroups cover the grid.
LEMMA GroupsCover ==
  /\ Groups \in Nat \ {0}
  /\ Groups * WorkgroupSize \in Nat
  /\ GridSize <= Groups * WorkgroupSize
<1>. DEFINE m == GridSize + WorkgroupSize - 1
<1>1. m \in Nat /\ WorkgroupSize \in Nat \ {0}
  BY PassAssumption
<1>2. /\ m \div WorkgroupSize \in Nat
      /\ m = WorkgroupSize * (m \div WorkgroupSize) + (m % WorkgroupSize)
      /\ m % WorkgroupSize \in 0 .. WorkgroupSize - 1
  BY <1>1
<1>3. GridSize <= WorkgroupSize * (m \div WorkgroupSize)
  BY <1>2, PassAssumption
<1>. QED
  BY <1>1, <1>2, <1>3, PassAssumption DEF Groups

\* Every cell of the grid has exactly one invocation.
LEMMA InvocationOf ==
  /\ \A g \in Gids : InGrid(g) =>
       /\ g[1] \in Coords(GridSize) /\ g[2] \in Coords(GridSize)
       /\ CellOf(g) \in Cells(GridSize)
  /\ \A g, h \in Gids : InGrid(g) /\ InGrid(h) /\ CellOf(g) = CellOf(h) => g = h
  /\ \A i \in Cells(GridSize) :
       \E g \in Gids : InGrid(g) /\ CellOf(g) = i
<1>1. ASSUME NEW g \in Gids, InGrid(g)
      PROVE  /\ g[1] \in Coords(GridSize) /\ g[2] \in Coords(GridSize)
             /\ CellOf(g) \in Cells(GridSize)
             /\ CellOf(g) % GridSize = g[1]
             /\ CellOf(g) \div GridSize = g[2]
  <2>1. g[1] \in Coords(GridSize) /\ g[2] \in Coords(GridSize)
    BY <1>1, GroupsCover, PassAssumption DEF Gids, InGrid, Coords
  <2>. QED
    BY <2>1, IndexRange, PassAssumption DEF CellOf
<1>2. ASSUME NEW g \in Gids, NEW h \in Gids, InGrid(g), InGrid(h),
             CellOf(g) = CellOf(h)
      PROVE  g = h
  BY <1>1, <1>2 DEF Gids
<1>3. ASSUME NEW i \in Cells(GridSize)
      PROVE  \E g \in Gids : InGrid(g) /\ CellOf(g) = i
  <2>. DEFINE g == <<i % GridSize, i \div GridSize>>
  <2>1. /\ i % GridSize \in Coords(GridSize)
        /\ i \div GridSize \in Coords(GridSize)
        /\ Index(GridSize, i % GridSize, i \div GridSize) = i
    BY PassAssumption, CellCoords
  <2>4. g \in Gids
    <3>1. Coords(GridSize) \subseteq Coords(Groups * WorkgroupSize)
      BY PassAssumption, GroupsCover DEF Coords
    <3>. QED
      BY <2>1, <3>1 DEF Gids
  <2>5. InGrid(g) /\ CellOf(g) = i
    BY <2>1, PassAssumption DEF InGrid, CellOf, Coords
  <2>. QED
    BY <2>4, <2>5
<1>. QED
  BY <1>1, <1>2, <1>3

\* The other slot is a slot, and not the one being read.
LEMMA OtherSlot ==
  ASSUME src \in Slots
  PROVE  /\ Target \in Slots /\ Target # src
         /\ NextSlot \in Slots /\ NextSlot = Target
BY DEF Slots, Target, NextSlot

\* A kernel run on the grid computes a cell of the next generation.
LEMMA KernelOnGrid ==
  ASSUME PassTypeOK, NEW g \in Gids, InGrid(g)
  PROVE  /\ GpuCell(buffers[src], GridSize, g[1], g[2]) \in {0, 1}
         /\ GpuCell(buffers[src], GridSize, g[1], g[2])
              = NextGeneration[CellOf(g)]
<1>1. buffers[src] \in Boards(GridSize) /\ GridSize \in Nat \ {0}
  BY PassAssumption DEF PassTypeOK
<1>2. g[1] \in Coords(GridSize) /\ g[2] \in Coords(GridSize)
  BY InvocationOf
<1>3. GpuCell(buffers[src], GridSize, g[1], g[2])
        = LifeCell(buffers[src], GridSize, g[1], g[2])
  BY <1>1, <1>2, KernelsCompute
<1>4. NextGeneration[CellOf(g)] = LifeCell(buffers[src], GridSize, g[1], g[2])
  BY <1>1, <1>2, LifeOfBoard DEF NextGeneration, CellOf
<1>. QED
  BY <1>3, <1>4 DEF LifeCell

\* One step of the pass keeps the types.
LEMMA PassTypeStep == PassTypeOK /\ [PassNext]_passVars => PassTypeOK'
<1>. SUFFICES ASSUME PassTypeOK, [PassNext]_passVars PROVE PassTypeOK'
  OBVIOUS
<1>. USE DEF PassTypeOK
<1>1. ASSUME NEW g \in Gids, Return(g) PROVE PassTypeOK'
  BY <1>1 DEF Return
<1>2. ASSUME NEW g \in Gids, Load(g) PROVE PassTypeOK'
  BY <1>2, KernelOnGrid DEF Load
<1>3. ASSUME NEW g \in Gids, Store(g) PROVE PassTypeOK'
  <2>1. buffers' = [buffers EXCEPT ![Target] =
                      [buffers[Target] EXCEPT ![CellOf(g)] = alive[g]]]
    BY <1>3 DEF Store
  <2>2. buffers[Target] \in Boards(GridSize) /\ Target \in Slots
    BY OtherSlot
  <2>3. [buffers[Target] EXCEPT ![CellOf(g)] = alive[g]] \in Boards(GridSize)
    BY <2>2 DEF Boards
  <2>. QED
    BY <1>3, <2>1, <2>2, <2>3 DEF Store
<1>4. CASE NextDispatch
  BY <1>4, OtherSlot DEF NextDispatch
<1>5. CASE UNCHANGED passVars
  BY <1>5 DEF passVars
<1>. QED
  BY <1>1, <1>2, <1>3, <1>4, <1>5 DEF PassNext

\* Buffers hold boards, whichever cells the invocations have stored so far.
THEOREM PassTypeCorrect == PassSpec => []PassTypeOK
<1>1. PassInit => PassTypeOK
  BY PassAssumption DEF PassInit, PassTypeOK, Blank, Boards, Slots
<1>. QED
  BY <1>1, PassTypeStep, PTL DEF PassSpec

\* One step of the pass keeps what has been loaded and stored right: a store
\* goes to the buffer that nobody reads, at a cell that nobody else stores.
LEMMA PassInvStep == PassTypeOK /\ PassInv /\ [PassNext]_passVars => PassInv'
<1>. SUFFICES ASSUME PassTypeOK, PassInv, [PassNext]_passVars,
                     NEW h \in Gids
              PROVE  /\ pc'[h] = "loaded" =>
                          InGrid(h) /\ alive'[h] = NextGeneration'[CellOf(h)]
                     /\ pc'[h] = "done" /\ InGrid(h) =>
                          buffers'[Target'][CellOf(h)] = NextGeneration'[CellOf(h)]
  BY DEF PassInv, InGrid, CellOf, Gids, Groups
<1>0. /\ pc[h] = "loaded" =>
           InGrid(h) /\ alive[h] = NextGeneration[CellOf(h)]
      /\ pc[h] = "done" /\ InGrid(h) =>
           buffers[Target][CellOf(h)] = NextGeneration[CellOf(h)]
  BY DEF PassInv
<1>1. ASSUME NEW g \in Gids, Return(g)
      PROVE  /\ UNCHANGED <<buffers, src, alive>>
             /\ pc'[h] = pc[h] \/ (pc'[h] = "done" /\ ~InGrid(h))
  BY <1>1 DEF Return, PassTypeOK
<1>2. CASE \E g \in Gids : Return(g)
  BY <1>0, <1>1, <1>2 DEF NextGeneration, Target
<1>3. ASSUME NEW g \in Gids, Load(g) 
      PROVE  /\ pc'[h] = "loaded" =>
                  InGrid(h) /\ alive'[h] = NextGeneration'[CellOf(h)]
             /\ pc'[h] = "done" /\ InGrid(h) =>
                  buffers'[Target'][CellOf(h)] = NextGeneration'[CellOf(h)]
  <2>1. UNCHANGED <<buffers, src>> /\ NextGeneration' = NextGeneration /\ Target' = Target
    BY <1>3 DEF Load, NextGeneration, Target
  <2>2. CASE h = g
    BY <1>3, <2>1, <2>2, KernelOnGrid DEF Load, PassTypeOK
  <2>3. CASE h # g
    BY <1>0, <1>3, <2>1, <2>3 DEF Load, PassTypeOK
  <2>. QED
    BY <2>2, <2>3
<1>4. ASSUME NEW g \in Gids, Store(g)
      PROVE  /\ pc'[h] = "loaded" =>
                  InGrid(h) /\ alive'[h] = NextGeneration'[CellOf(h)]
             /\ pc'[h] = "done" /\ InGrid(h) =>
                  buffers'[Target'][CellOf(h)] = NextGeneration'[CellOf(h)]
  <2>1. /\ pc[g] = "loaded"
        /\ buffers' = [buffers EXCEPT ![Target] =
                         [buffers[Target] EXCEPT ![CellOf(g)] = alive[g]]]
        /\ pc' = [pc EXCEPT ![g] = "done"]
        /\ UNCHANGED <<src, alive>>
    BY <1>4 DEF Store
  <2>2. /\ Target \in Slots /\ Target # src /\ src \in Slots
        /\ buffers[Target] \in [Cells(GridSize) -> {0, 1}]
    BY OtherSlot DEF PassTypeOK, Boards
  <2>3. buffers'[src] = buffers[src] /\ Target' = Target
        /\ NextGeneration' = NextGeneration
    BY <2>1, <2>2 DEF PassTypeOK, NextGeneration, Target
  <2>4. buffers'[Target] = [buffers[Target] EXCEPT ![CellOf(g)] = alive[g]]
    BY <2>1, <2>2 DEF PassTypeOK
  <2>5. InGrid(h) => CellOf(h) \in Cells(GridSize)
    BY InvocationOf
  <2>6. CASE h = g
    BY <1>0, <2>1, <2>2, <2>3, <2>4, <2>5, <2>6 DEF PassTypeOK
  <2>7. CASE h # g
    <3>1. InGrid(g)
      BY <2>1 DEF PassInv
    <3>2. InGrid(h) => CellOf(h) # CellOf(g)
      BY <2>7, <3>1, InvocationOf
    <3>. QED
      BY <1>0, <2>1, <2>2, <2>3, <2>4, <2>5, <2>7, <3>2 DEF PassTypeOK
  <2>. QED
    BY <2>6, <2>7
<1>5. CASE NextDispatch
  BY <1>5 DEF NextDispatch
<1>6. CASE UNCHANGED passVars
  BY <1>0, <1>6 DEF passVars, NextGeneration, Target
<1>. QED
  BY <1>2, <1>3, <1>4, <1>5, <1>6 DEF PassNext

\* However the invocations are scheduled, every one that has finished has
\* computed its cell of the next generation, and none has disturbed another.
THEOREM PassInvariant == PassSpec => []PassInv
<1>1. PassInit => PassInv
  BY DEF PassInit, PassInv
<1>. QED
  BY <1>1, PassTypeCorrect, PassInvStep, PTL DEF PassSpec

\* When the last invocation of a dispatch finishes, the buffer it wrote holds
\* the whole next generation, whatever it held before.
LEMMA DispatchComplete ==
  ASSUME PassTypeOK, PassInv, \A g \in Gids : pc[g] = "done"
  PROVE  buffers[Target] = NextGeneration
<1>1. buffers[src] \in Boards(GridSize) /\ buffers[Target] \in Boards(GridSize)
  BY OtherSlot DEF PassTypeOK
<1>2. NextGeneration \in Boards(GridSize)
  BY <1>1, PassAssumption, LifeOfBoard DEF NextGeneration
<1>3. ASSUME NEW i \in Cells(GridSize)
      PROVE  buffers[Target][i] = NextGeneration[i]
  BY InvocationOf DEF PassInv
<1>. QED
  BY <1>1, <1>2, <1>3 DEF Boards

\* The abstract specification's rule is the rule.
LEMMA SameRule == \A b, n : Generations!Life(b, n) = Life(b, n)
BY DEF Life, LifeCell, LiveNeighbours, Neighbour, Index, Offsets, Cells,
   Generations!Life, Generations!LifeCell, Generations!LiveNeighbours,
   Generations!Neighbour, Generations!Index, Generations!Offsets,
   Generations!Cells, Cardinality, Generations!Cardinality

\* A pass implements Life: seen through the slot it reads, a dispatch is one
\* generation of the whole board, and nothing else changes what it reads.
THEOREM PassImplementsLife == PassSpec => ImplementsLife
<1>1. PassInit => Generations!LifeInit
  BY DEF PassInit, Generations!LifeInit, Slots
<1>2. PassTypeOK /\ PassInv /\ [PassNext]_passVars
        => [Generations!Generation]_(buffers[src])
  <2>. SUFFICES ASSUME PassTypeOK, PassInv, [PassNext]_passVars
                PROVE  \/ Generations!Generation
                       \/ UNCHANGED buffers[src]
    OBVIOUS
  <2>1. CASE \E g \in Gids : Return(g) \/ Load(g)
    BY <2>1 DEF Return, Load
  <2>2. CASE \E g \in Gids : Store(g)
    BY <2>2, OtherSlot DEF Store, PassTypeOK
  <2>3. CASE NextDispatch
    <3>1. buffers[Target] = NextGeneration
      BY <2>3, DispatchComplete DEF NextDispatch
    <3>2. buffers'[src'] = buffers[Target]
      BY <2>3, OtherSlot DEF NextDispatch, PassTypeOK
    <3>. QED
      BY <3>1, <3>2, SameRule DEF Generations!Generation, NextGeneration
  <2>4. CASE UNCHANGED passVars
    BY <2>4 DEF passVars
  <2>. QED
    BY <2>1, <2>2, <2>3, <2>4 DEF PassNext
<1>. QED
  BY <1>1, <1>2, PassTypeCorrect, PassInvariant, PTL
     DEF PassSpec, ImplementsLife, Generations!LifeSpec
=============================================================================
