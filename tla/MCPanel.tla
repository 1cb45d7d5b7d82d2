------------------------------ MODULE MCPanel -------------------------------
(***************************************************************************)
(* The panel for TLC, on the small grids of MCPictures.                    *)
(***************************************************************************)
EXTENDS Panel, MCPictures

\* A step without ticks takes another time than one with.
MCCostsOf(ticks) == IF ticks = 0 THEN {1} ELSE {3}
=============================================================================
