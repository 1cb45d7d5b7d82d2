------------------------------ MODULE MCCpuStep ------------------------------
(***************************************************************************)
(* The CPU's loop from every board of one edge length.                     *)
(***************************************************************************)
EXTENDS CpuStep

MCStarts == Boards(GridSize)
=============================================================================
