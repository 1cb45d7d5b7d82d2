----------------------------- MODULE BoardGrids -----------------------------
(***************************************************************************)
(* The boards of LifeRule as the grids of GridData: what the engine does   *)
(* to a grid, done to its cells.  A grid is an edge length and a board, as *)
(* Grid (buffers.rs) and CpuSim (cpu.rs) keep them.                        *)
(***************************************************************************)
EXTENDS Patterns

GridsOn(edges) == UNION {{n} \X Boards(n) : n \in edges}

EdgeOf(g) == g[1]

BlankGrid(n) == <<n, BlankBoard(n)>>

SeedGrid(n) == <<n, GliderSeed(n)>>

\* A number of generations, one after another.
Generations(g, t) ==
  LET after[k \in Nat] == IF k = 0 THEN g[2] ELSE Life(after[k - 1], g[1])
  IN  <<g[1], after[t]>>

StampedGrid(g, cells_on_grid) == <<g[1], StampedInto(g[2], cells_on_grid, g[1])>>

\* CpuSim::randomize: a seed is the sequence of bits that the generator draws.
SoupGrid(seed, n) == <<n, [i \in Cells(n) |-> seed[i]]>>
=============================================================================
