------------------------------ MODULE MCGpuPass ------------------------------
(***************************************************************************)
(* The compute pass from every board of one edge length.                  *)
(***************************************************************************)
EXTENDS GpuPass

MCStarts == Boards(GridSize)
=============================================================================
