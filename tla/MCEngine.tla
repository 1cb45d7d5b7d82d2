------------------------------ MODULE MCEngine ------------------------------
(***************************************************************************)
(* GolEngine and its refinement on the small grids of MCPictures.          *)
(***************************************************************************)
EXTENDS EngineRefinement, MCPictures
=============================================================================
