----------------------------- MODULE MCPictures -----------------------------
(***************************************************************************)
(* Small grids for TLC.  A grid is an edge length and one of four          *)
(* pictures: blank, the two phases of a blinker, and a block.  That is a   *)
(* true fragment of Life (period 1, 2 and extinct), in which a blank, a    *)
(* previous generation and an edited grid all differ.                      *)
(***************************************************************************)
EXTENDS GridData

MCSizeOf(g) == g[1]

MCGrids == Sizes \X {"blank", "row", "column", "block"}

MCBlank(n) == <<n, "blank">>

MCSeeded(n) == <<n, "row">>

MCSoup(s, n) == <<n, "block">>

\* The next generation of a picture.
Successor == [blank |-> "blank", row |-> "column", column |-> "row",
              block |-> "block"]

MCLifeN(g, t) ==
  LET run[k \in 0 .. t] == IF k = 0 THEN g[2] ELSE Successor[run[k - 1]]
  IN  <<g[1], run[t]>>

\* A stroke draws a row on a blank grid and makes a block of anything else.
MCStamped(g, c) == <<g[1], IF g[2] = "blank" THEN "row" ELSE "block">>
=============================================================================
