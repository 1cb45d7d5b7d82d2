-------------------------------- MODULE MCApp --------------------------------
(***************************************************************************)
(* The app for TLC.  Its properties are about backends and edge lengths,   *)
(* not about cells, so a grid is only its edge length.                     *)
(***************************************************************************)
EXTENDS GolApp

MCSame(g) == g
MCAfter(g, t) == g
MCSoup(s, n) == n
=============================================================================
