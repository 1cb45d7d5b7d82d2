--------------------------- MODULE LifeGeneration ---------------------------
(***************************************************************************)
(* What both backends promise of a tick: the board becomes the next        *)
(* generation, all of it at once.                                          *)
(***************************************************************************)
EXTENDS LifeRule

CONSTANTS
  GridSize,   \* the edge length
  Starts      \* boards the simulation may start from

VARIABLE board

LifeInit == board \in Starts

Generation == board' = Life(board, GridSize)

LifeSpec == LifeInit /\ [][Generation]_board
=============================================================================
