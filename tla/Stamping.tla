------------------------------ MODULE Stamping ------------------------------
(***************************************************************************)
(* From a pattern to the grid.  A pattern is a set of offsets <<dx, dy>>   *)
(* from its top left corner.  patterns.rs and rle.rs each have the same    *)
(* stamp_centred, which moves a pattern onto the grid and drops what falls *)
(* outside; CpuSim::stamp (cpu.rs) writes the cells into the flat vector.  *)
(* Every cell a host stamps is alive.                                      *)
(***************************************************************************)
EXTENDS LifeRule

Square(n) == Coords(n) \X Coords(n)

\* Where a w by h pattern goes when it is centred on <<cx, cy>>.
Moved(pattern, w, h, cx, cy) ==
  {<<cx - w \div 2 + c[1], cy - h \div 2 + c[2]>> : c \in pattern}

\* Fault: a translation that forgets half of the pattern's size.
CentredByCorner(pattern, w, h, cx, cy, n) ==
  {<<cx + c[1], cy + c[2]>> : c \in pattern} \cap Square(n)

\* stamp_centred.
Centred(pattern, w, h, cx, cy, n) == Moved(pattern, w, h, cx, cy) \cap Square(n)

\* A board with cells of the grid written into it.
StampedInto(b, cells_on_grid, n) ==
  [i \in Cells(n) |-> IF <<i % n, i \div n>> \in cells_on_grid THEN 1 ELSE b[i]]

BlankBoard(n) == [i \in Cells(n) |-> 0]

\* The live cells of a board, by column and row.
AliveOn(b, n) == {c \in Square(n) : b[Index(n, c[1], c[2])] = 1}
=============================================================================
