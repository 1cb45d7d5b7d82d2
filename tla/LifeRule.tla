------------------------------ MODULE LifeRule ------------------------------
(***************************************************************************)
(* Conway's rule on a torus, stated once as the game defines it and twice  *)
(* as the code computes it: gol_step of shader/src/lib.rs, and the loop    *)
(* body of CpuSim::step in engine/src/cpu.rs.  A board is the flat vector  *)
(* of cells that both keep, in row-major order, one 0 or 1 for each cell.  *)
(***************************************************************************)
EXTENDS Integers, FiniteSets

Coords(n) == 0 .. n - 1

Cells(n) == 0 .. n * n - 1

Boards(n) == [Cells(n) -> {0, 1}]

\* The cell at column x of row y (idx in gol_step, yw + x in CpuSim::step).
Index(n, x, y) == y * n + x

-----------------------------------------------------------------------------
(***************************************************************************)
(* The definition: a cell is alive in the next generation when it has      *)
(* three live neighbours, or has two and is alive.                         *)
(***************************************************************************)
Offsets == ((-1 .. 1) \X (-1 .. 1)) \ {<<0, 0>>}

Neighbour(n, x, y, d) == Index(n, (x + d[1]) % n, (y + d[2]) % n)

LiveNeighbours(b, n, x, y) ==
  Cardinality({d \in Offsets : b[Neighbour(n, x, y, d)] = 1})

LifeCell(b, n, x, y) ==
  LET count == LiveNeighbours(b, n, x, y)
  IN  IF count = 3 \/ (count = 2 /\ b[Index(n, x, y)] = 1) THEN 1 ELSE 0

Life(b, n) == [i \in Cells(n) |-> LifeCell(b, n, i % n, i \div n)]

-----------------------------------------------------------------------------
(***************************************************************************)
(* The two kernels.  They share the sum and the rule, and differ in how    *)
(* they wrap: the shader by a remainder that never goes below zero, the    *)
(* CPU by a comparison with the edge.                                      *)
(***************************************************************************)
Sum8(b, n, xm, x, xp, ym, y, yp) ==
  b[Index(n, xm, ym)] + b[Index(n, x, ym)] + b[Index(n, xp, ym)]
  + b[Index(n, xm, y)] + b[Index(n, xp, y)]
  + b[Index(n, xm, yp)] + b[Index(n, x, yp)] + b[Index(n, xp, yp)]

AliveNext(me, sum) ==
  IF (me = 1 /\ (sum = 2 \/ sum = 3)) \/ (me = 0 /\ sum = 3) THEN 1 ELSE 0

GpuBefore(i, n) == (i + n - 1) % n
GpuAfter(i, n) == (i + 1) % n

GpuCell(src, n, x, y) ==
  AliveNext(src[Index(n, x, y)],
            Sum8(src, n, GpuBefore(x, n), x, GpuAfter(x, n),
                 GpuBefore(y, n), y, GpuAfter(y, n)))

\* Fault: a wrap that is one cell short.
CpuAfterShort(i, n) == IF i + 2 >= n THEN 0 ELSE i + 1

CpuBefore(i, n) == IF i = 0 THEN n - 1 ELSE i - 1
CpuAfter(i, n) == IF i + 1 = n THEN 0 ELSE i + 1

CpuCell(front, n, x, y) ==
  AliveNext(front[Index(n, x, y)],
            Sum8(front, n, CpuBefore(x, n), x, CpuAfter(x, n),
                 CpuBefore(y, n), y, CpuAfter(y, n)))
=============================================================================
