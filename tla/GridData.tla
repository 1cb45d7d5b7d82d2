------------------------------ MODULE GridData ------------------------------
(***************************************************************************)
(* The contents of a grid, as the engine sees them.  The engine never      *)
(* looks inside a grid: it blanks it, fills it, stamps cells into it, runs *)
(* generations of it and copies it whole.  A grid is therefore a value of  *)
(* the set Grids, and what the engine does to one is a constant operator.  *)
(* The kernels behind LifeN are modelled cell by cell in LifeRule,         *)
(* GpuPass and CpuStep.                                                    *)
(***************************************************************************)
EXTENDS Integers

CONSTANTS
  Sizes,          \* edge lengths a grid may have (GRID_SIZES of the app)
  InitialGrid,    \* the edge length at startup (INITIAL_GRID)
  Grids,          \* every value the cells of a grid may take
  Seeds,          \* seeds a host may randomize with
  Strokes,        \* cell lists a host may stamp
  MaxTicks,       \* bound: generations one call of step may ask for
  SizeOf(_),      \* edge length of a grid value
  Blank(_),       \* all cells dead, at an edge length
  Seeded(_),      \* the picture the first buffer starts with
  LifeN(_, _),    \* a grid after a number of generations
  Stamped(_, _),  \* a grid with a stroke's cells written into it
  Soup(_, _)      \* the soup a seed gives, at an edge length

GridsOf(n) == {g \in Grids : SizeOf(g) = n}

Ticks == 0 .. MaxTicks

(***************************************************************************)
(* No operation but resize changes the edge length of a grid, and no       *)
(* generations change nothing.                                             *)
(***************************************************************************)
GridsBehave ==
  /\ InitialGrid \in Sizes
  /\ MaxTicks \in Nat
  /\ \A g \in Grids : SizeOf(g) \in Sizes
  /\ \A n \in Sizes : {Blank(n), Seeded(n)} \subseteq GridsOf(n)
  /\ \A n \in Sizes, s \in Seeds : Soup(s, n) \in GridsOf(n)
  /\ \A g \in Grids, c \in Strokes : Stamped(g, c) \in GridsOf(SizeOf(g))
  /\ \A g \in Grids, t \in Ticks : LifeN(g, t) \in GridsOf(SizeOf(g))
  /\ \A g \in Grids : LifeN(g, 0) = g

ASSUME GridAssumption == GridsBehave
=============================================================================
