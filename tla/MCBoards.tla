------------------------------ MODULE MCBoards ------------------------------
(***************************************************************************)
(* GolEngine and its refinement on true boards of Life.                    *)
(***************************************************************************)
EXTENDS EngineProperties

LOCAL Board == INSTANCE BoardGrids

MCGrids == Board!GridsOn(Sizes)
MCSizeOf(g) == Board!EdgeOf(g)
MCBlank(n) == Board!BlankGrid(n)
MCSeeded(n) == Board!SeedGrid(n)
MCLifeN(g, t) == Board!Generations(g, t)
MCStamped(g, c) == Board!StampedGrid(g, c)
MCSoup(s, n) == Board!SoupGrid(s, n)

\* A row of three cells, which is a blinker.
MCStrokes == {{<<0, 1>>, <<1, 1>>, <<2, 1>>}}

\* A block.
MCSeeds == {[i \in 0 .. 8 |-> IF i \in {0, 1, 3, 4} THEN 1 ELSE 0]}
=============================================================================
