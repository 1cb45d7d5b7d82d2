--------------------------- MODULE MCEngineHistory ---------------------------
(***************************************************************************)
(* GolEngine with its histories on the small grids of MCPictures.          *)
(***************************************************************************)
EXTENDS EngineHistory, MCPictures
=============================================================================
