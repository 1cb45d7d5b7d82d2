------------------------------ MODULE Painting ------------------------------
(***************************************************************************)
(* From the pointer to the grid and back to the screen: the brush of       *)
(* show_grid (app/src/app.rs), the byte offsets at which GolEngine::stamp  *)
(* pokes cells into a GPU buffer, and the cell that the fragment shader    *)
(* (gol_render.wgsl) samples for a pixel.                                  *)
(*                                                                         *)
(* The grid is drawn in a square of Pixels by Pixels.  A position of the   *)
(* pointer along one side counts half pixels, and both ends belong to the  *)
(* square.  Coordinates are exact fractions here, f32 in the code.         *)
(***************************************************************************)
EXTENDS Stamping

CONSTANTS
  Pixels,    \* the side of the square on the screen
  WideFrom   \* the smallest grid that gets the wide brush, 1024 in the code

ASSUME PaintingAssumption == Pixels \in Nat \ {0} /\ WideFrom \in Nat

Positions == 0 .. 2 * Pixels

\* The pixel that a position is on.
PixelAt(p) == IF p = 2 * Pixels THEN Pixels - 1 ELSE p \div 2

\* The column, or row, under the pointer; the clamp keeps the far end in.
UnderPointer(p, n) == IF p = 2 * Pixels THEN n - 1 ELSE (p * n) \div (2 * Pixels)

Radius(n) == IF n >= WideFrom THEN 2 ELSE 1

\* The columns, or rows, the brush covers.
Reached(p, n) ==
  {c \in Coords(n) : /\ c >= UnderPointer(p, n) - Radius(n)
                     /\ c <= UnderPointer(p, n) + Radius(n)}

\* The cells of a dab: a square around the pointer, cut at the edges.
Dab(at, n) == Reached(at[1], n) \X Reached(at[2], n)

\* Fault: columns take the stride and rows do not.
PokedTransposed(b, cells_on_grid, n) ==
  LET offsets == {c[1] * (n * 4) + c[2] * 4 : c \in cells_on_grid \cap Square(n)}
  IN  [i \in Cells(n) |-> IF i * 4 \in offsets THEN 1 ELSE b[i]]

\* Cells of four bytes each, poked into the current buffer.
PokedInto(b, cells_on_grid, n) ==
  LET offsets == {c[2] * (n * 4) + c[1] * 4 : c \in cells_on_grid \cap Square(n)}
  IN  [i \in Cells(n) |-> IF i * 4 \in offsets THEN 1 ELSE b[i]]

\* GolEngine::stamp, on the side of the backend in charge.
Stamped(b, cells_on_grid, n) ==
  {StampedInto(b, cells_on_grid, n), PokedInto(b, cells_on_grid, n)}

\* The column, or row, that the shader samples for a pixel: the one at the
\* pixel's centre.
Sampled(k, n) ==
  LET at == ((2 * k + 1) * n) \div (2 * Pixels)
  IN  IF at < n - 1 THEN at ELSE n - 1

\* The cell whose colour a pixel gets.
Shaded(b, k, l, n) == b[Index(n, Sampled(k, n), Sampled(l, n))]
=============================================================================
