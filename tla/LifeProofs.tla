----------------------------- MODULE LifeProofs -----------------------------
(***************************************************************************)
(* Proofs about the rule and its kernels, for every edge length, even the  *)
(* degenerate ones on which a cell is its own neighbour; and about what    *)
(* the rule makes of the glider and the pulsar, on every torus that is     *)
(* wide enough for them.                                                   *)
(***************************************************************************)
EXTENDS Patterns, FiniteSetTheorems, TLAPS

-----------------------------------------------------------------------------
(***************************************************************************)
(* Wrapping.                                                               *)
(***************************************************************************)

\* The shader's remainder and the CPU's comparison are the torus's wrap.
LEMMA Wraps ==
  ASSUME NEW n \in Nat \ {0}, NEW i \in Coords(n)
  PROVE  /\ GpuBefore(i, n) = (i + (-1)) % n
         /\ CpuBefore(i, n) = (i + (-1)) % n
         /\ GpuAfter(i, n) = (i + 1) % n
         /\ CpuAfter(i, n) = (i + 1) % n
         /\ (i + 0) % n = i
BY DEF Coords, GpuBefore, CpuBefore, GpuAfter, CpuAfter

\* A wrapped coordinate is a coordinate.
LEMMA WrapRange ==
  ASSUME NEW n \in Nat \ {0}, NEW i \in Coords(n), NEW k \in -1 .. 1
  PROVE  (i + k) % n \in Coords(n)
BY DEF Coords

\* The cell of a column and a row is in the vector, and no other column and
\* row have it.
LEMMA IndexRange ==
  ASSUME NEW n \in Nat \ {0}, NEW x \in Coords(n), NEW y \in Coords(n)
  PROVE  /\ Index(n, x, y) \in Cells(n)
         /\ Index(n, x, y) % n = x
         /\ Index(n, x, y) \div n = y
<1>1. x \in Int /\ y \in Int /\ 0 <= x /\ x < n /\ 0 <= y /\ y <= n - 1
  BY DEF Coords
<1>2. y * n <= (n - 1) * n /\ 0 <= y * n
  BY <1>1
<1>3. (n - 1) * n = n * n - n
  OBVIOUS
<1>4. y * n \in Int /\ n * n \in Int
  BY <1>1
<1>5. Index(n, x, y) \in Cells(n)
  BY <1>1, <1>2, <1>3, <1>4 DEF Index, Cells
<1>6. (y * n + x) % n = x /\ (y * n + x) \div n = y
  BY <1>1
<1>. QED
  BY <1>5, <1>6 DEF Index

\* Every cell of the vector has a column and a row.
LEMMA CellCoords ==
  ASSUME NEW n \in Nat \ {0}, NEW i \in Cells(n)
  PROVE  /\ i % n \in Coords(n)
         /\ i \div n \in Coords(n)
         /\ Index(n, i % n, i \div n) = i
<1>1. i \in Nat /\ i < n * n
  BY DEF Cells
<1>2. /\ i \div n \in Nat
      /\ i = n * (i \div n) + (i % n)
      /\ i % n \in 0 .. n - 1
  BY <1>1
<1>3. (i \div n) * n = n * (i \div n)
  BY <1>2
<1>4. i \div n < n
  <2>1. ASSUME NEW q \in Nat, q >= n PROVE n * q >= n * n
    BY <2>1
  <2>2. i \div n >= n => n * (i \div n) >= n * n
    BY <1>2, <2>1
  <2>3. /\ n * (i \div n) \in Int
        /\ i >= n * (i \div n)
    BY <1>2
  <2>. QED
    BY <1>1, <1>2, <2>2, <2>3
<1>. QED
  BY <1>2, <1>3, <1>4 DEF Index, Coords

-----------------------------------------------------------------------------
(***************************************************************************)
(* Counting.                                                               *)
(***************************************************************************)
In(d, S) == IF d \in S THEN 1 ELSE 0

\* A set grows by one when an element it lacks is put in.
LEMMA CountOneMore ==
  ASSUME NEW S, NEW T, NEW d, IsFiniteSet(T), d \notin T
  PROVE  /\ IsFiniteSet(T \cup (S \cap {d}))
         /\ Cardinality(T \cup (S \cap {d})) = Cardinality(T) + In(d, S)
<1>1. CASE d \in S
  <2>1. T \cup (S \cap {d}) = T \cup {d}
    BY <1>1
  <2>2. Cardinality(T) \in Nat
    BY FS_CardinalityType
  <2>. QED
    BY <1>1, <2>1, <2>2, FS_AddElement DEF In
<1>2. CASE d \notin S
  <2>1. T \cup (S \cap {d}) = T
    BY <1>2
  <2>2. Cardinality(T) \in Nat
    BY FS_CardinalityType
  <2>3. In(d, S) = 0
    BY <1>2 DEF In
  <2>4. Cardinality(T) + In(d, S) = Cardinality(T)
    BY <2>2, <2>3
  <2>. QED
    BY <2>1, <2>4, Zenon
<1>. QED
  BY <1>1, <1>2

\* The eight neighbours, one by one.
LEMMA CountNeighbours ==
  ASSUME NEW S \in SUBSET Offsets
  PROVE  Cardinality(S) = In(<<-1, -1>>, S) + In(<<0, -1>>, S) + In(<<1, -1>>, S)
                          + In(<<-1, 0>>, S) + In(<<1, 0>>, S)
                          + In(<<-1, 1>>, S) + In(<<0, 1>>, S) + In(<<1, 1>>, S)
<1>. DEFINE A1 == {} \cup (S \cap {<<-1, -1>>})
            A2 == A1 \cup (S \cap {<<0, -1>>})
            A3 == A2 \cup (S \cap {<<1, -1>>})
            A4 == A3 \cup (S \cap {<<-1, 0>>})
            A5 == A4 \cup (S \cap {<<1, 0>>})
            A6 == A5 \cup (S \cap {<<-1, 1>>})
            A7 == A6 \cup (S \cap {<<0, 1>>})
            A8 == A7 \cup (S \cap {<<1, 1>>})
<1>1. IsFiniteSet({}) /\ Cardinality({}) = 0
  BY FS_EmptySet
<1>2. IsFiniteSet(A1) /\ Cardinality(A1) = In(<<-1, -1>>, S)
  <2>1. IsFiniteSet(A1) /\ Cardinality(A1) = Cardinality({}) + In(<<-1, -1>>, S)
    BY <1>1, CountOneMore
  <2>. QED
    BY <2>1, <1>1 DEF In
<1>3. IsFiniteSet(A2) /\ Cardinality(A2) = Cardinality(A1) + In(<<0, -1>>, S)
  <2>1. <<0, -1>> \notin A1
    OBVIOUS
  <2>. QED
    BY <2>1, <1>2, CountOneMore
<1>4. IsFiniteSet(A3) /\ Cardinality(A3) = Cardinality(A2) + In(<<1, -1>>, S)
  <2>1. <<1, -1>> \notin A2
    OBVIOUS
  <2>. QED
    BY <2>1, <1>3, CountOneMore
<1>5. IsFiniteSet(A4) /\ Cardinality(A4) = Cardinality(A3) + In(<<-1, 0>>, S)
  <2>1. <<-1, 0>> \notin A3
    OBVIOUS
  <2>. QED
    BY <2>1, <1>4, CountOneMore
<1>6. IsFiniteSet(A5) /\ Cardinality(A5) = Cardinality(A4) + In(<<1, 0>>, S)
  <2>1. <<1, 0>> \notin A4
    OBVIOUS
  <2>. QED
    BY <2>1, <1>5, CountOneMore
<1>7. IsFiniteSet(A6) /\ Cardinality(A6) = Cardinality(A5) + In(<<-1, 1>>, S)
  <2>1. <<-1, 1>> \notin A5
    OBVIOUS
  <2>. QED
    BY <2>1, <1>6, CountOneMore
<1>8. IsFiniteSet(A7) /\ Cardinality(A7) = Cardinality(A6) + In(<<0, 1>>, S)
  <2>1. <<0, 1>> \notin A6
    OBVIOUS
  <2>. QED
    BY <2>1, <1>7, CountOneMore
<1>9. IsFiniteSet(A8) /\ Cardinality(A8) = Cardinality(A7) + In(<<1, 1>>, S)
  <2>1. <<1, 1>> \notin A7
    OBVIOUS
  <2>. QED
    BY <2>1, <1>8, CountOneMore
<1>10. A8 = S
  <2>1. Offsets = {<<-1, -1>>, <<0, -1>>, <<1, -1>>, <<-1, 0>>, <<1, 0>>,
                   <<-1, 1>>, <<0, 1>>, <<1, 1>>}
    BY DEF Offsets
  <2>. QED
    BY <2>1
<1>. HIDE DEF A1, A2, A3, A4, A5, A6, A7, A8
<1>. QED
  BY <1>2, <1>3, <1>4, <1>5, <1>6, <1>7, <1>8, <1>9, <1>10 DEF In

-----------------------------------------------------------------------------
(***************************************************************************)
(* The kernels.                                                            *)
(***************************************************************************)

\* The eight cells both kernels add up are the live neighbours.
LEMMA SumIsCount ==
  ASSUME NEW n \in Nat \ {0}, NEW b \in Boards(n),
         NEW x \in Coords(n), NEW y \in Coords(n)
  PROVE  LiveNeighbours(b, n, x, y)
           = Sum8(b, n, (x + (-1)) % n, x, (x + 1) % n,
                  (y + (-1)) % n, y, (y + 1) % n)
<1>. DEFINE S == {d \in Offsets : b[Neighbour(n, x, y, d)] = 1}
<1>1. S \in SUBSET Offsets
  OBVIOUS
<1>2. ASSUME NEW i \in -1 .. 1, NEW j \in -1 .. 1, <<i, j>> # <<0, 0>>
      PROVE  In(<<i, j>>, S) = b[Index(n, (x + i) % n, (y + j) % n)]
  <2>1. <<i, j>> \in Offsets
    BY <1>2 DEF Offsets
  <2>2. (x + i) % n \in Coords(n) /\ (y + j) % n \in Coords(n)
    BY WrapRange
  <2>3. Index(n, (x + i) % n, (y + j) % n) \in Cells(n)
    BY <2>2, IndexRange
  <2>4. b[Index(n, (x + i) % n, (y + j) % n)] \in {0, 1}
    BY <2>3 DEF Boards
  <2>5. Neighbour(n, x, y, <<i, j>>) = Index(n, (x + i) % n, (y + j) % n)
    BY DEF Neighbour
  <2>. QED
    BY <2>1, <2>4, <2>5 DEF In
<1>3. (x + 0) % n = x /\ (y + 0) % n = y
  BY Wraps
<1>. HIDE DEF S
<1>4. /\ In(<<-1, -1>>, S) = b[Index(n, (x + (-1)) % n, (y + (-1)) % n)]
      /\ In(<<0, -1>>, S) = b[Index(n, x, (y + (-1)) % n)]
      /\ In(<<1, -1>>, S) = b[Index(n, (x + 1) % n, (y + (-1)) % n)]
      /\ In(<<-1, 0>>, S) = b[Index(n, (x + (-1)) % n, y)]
      /\ In(<<1, 0>>, S) = b[Index(n, (x + 1) % n, y)]
      /\ In(<<-1, 1>>, S) = b[Index(n, (x + (-1)) % n, (y + 1) % n)]
      /\ In(<<0, 1>>, S) = b[Index(n, x, (y + 1) % n)]
      /\ In(<<1, 1>>, S) = b[Index(n, (x + 1) % n, (y + 1) % n)]
  BY <1>2, <1>3
<1>5. LiveNeighbours(b, n, x, y) = Cardinality(S)
  BY DEF LiveNeighbours, S
<1>. QED
  BY <1>1, <1>4, <1>5, CountNeighbours DEF Sum8

\* Both kernels compute the next generation that the rule defines.
THEOREM KernelsCompute ==
  ASSUME NEW n \in Nat \ {0}, NEW b \in Boards(n),
         NEW x \in Coords(n), NEW y \in Coords(n)
  PROVE  /\ GpuCell(b, n, x, y) = LifeCell(b, n, x, y)
         /\ CpuCell(b, n, x, y) = LifeCell(b, n, x, y)
<1>. DEFINE sum == Sum8(b, n, (x + (-1)) % n, x, (x + 1) % n,
                        (y + (-1)) % n, y, (y + 1) % n)
<1>1. b[Index(n, x, y)] \in {0, 1}
  BY IndexRange DEF Boards
<1>2. /\ GpuCell(b, n, x, y) = AliveNext(b[Index(n, x, y)], sum)
      /\ CpuCell(b, n, x, y) = AliveNext(b[Index(n, x, y)], sum)
  BY Wraps DEF GpuCell, CpuCell
<1>3. LiveNeighbours(b, n, x, y) = sum
  BY SumIsCount
<1>. HIDE DEF sum
<1>. QED
  BY <1>1, <1>2, <1>3 DEF AliveNext, LifeCell

\* A generation of a board is a board, cell by cell.
LEMMA LifeOfBoard ==
  ASSUME NEW n \in Nat \ {0}, NEW b \in Boards(n)
  PROVE  /\ Life(b, n) \in Boards(n)
         /\ \A x, y \in Coords(n) :
              Life(b, n)[Index(n, x, y)] = LifeCell(b, n, x, y)
<1>1. \A x, y : LifeCell(b, n, x, y) \in {0, 1}
  BY DEF LifeCell
<1>2. Life(b, n) \in Boards(n)
  BY <1>1 DEF Life, Boards
<1>3. ASSUME NEW x \in Coords(n), NEW y \in Coords(n)
      PROVE  Life(b, n)[Index(n, x, y)] = LifeCell(b, n, x, y)
  <2>1. /\ Index(n, x, y) \in Cells(n)
        /\ Index(n, x, y) % n = x
        /\ Index(n, x, y) \div n = y
    BY IndexRange
  <2>. QED
    BY <2>1 DEF Life
<1>. QED
  BY <1>2, <1>3

-----------------------------------------------------------------------------
(***************************************************************************)
(* Generations as sets of live cells.  The neighbours are the CPU's, so    *)
(* that wrapping is a comparison and not a remainder.                      *)
(***************************************************************************)
Around(s, n, x, y) ==
  LET xm == CpuBefore(x, n)
      xp == CpuAfter(x, n)
      ym == CpuBefore(y, n)
      yp == CpuAfter(y, n)
  IN  In(<<xm, ym>>, s) + In(<<x, ym>>, s) + In(<<xp, ym>>, s)
      + In(<<xm, y>>, s) + In(<<xp, y>>, s)
      + In(<<xm, yp>>, s) + In(<<x, yp>>, s) + In(<<xp, yp>>, s)

GenerationOf(s, n) ==
  {c \in Square(n) : AliveNext(In(c, s), Around(s, n, c[1], c[2])) = 1}

\* The CPU's neighbours of a coordinate are coordinates.
LEMMA BesideRange ==
  ASSUME NEW n \in Nat \ {0}, NEW i \in Coords(n)
  PROVE  CpuBefore(i, n) \in Coords(n) /\ CpuAfter(i, n) \in Coords(n)
BY DEF Coords, CpuBefore, CpuAfter

\* What is alive after a generation of the board is the generation of what is
\* alive on it.
LEMMA GenerationAlive ==
  ASSUME NEW n \in Nat \ {0}, NEW b \in Boards(n)
  PROVE  LET next == [i \in Cells(n) |-> CpuCell(b, n, i % n, i \div n)]
         IN  /\ next \in Boards(n)
             /\ AliveOn(next, n) = GenerationOf(AliveOn(b, n), n)
<1>. DEFINE next == [i \in Cells(n) |-> CpuCell(b, n, i % n, i \div n)]
            s == AliveOn(b, n)
<1>1. next \in Boards(n)
  BY DEF Boards, CpuCell, AliveNext
<1>2. ASSUME NEW x \in Coords(n), NEW y \in Coords(n)
      PROVE  b[Index(n, x, y)] = In(<<x, y>>, s)
  <2>1. b[Index(n, x, y)] \in {0, 1}
    BY IndexRange DEF Boards
  <2>2. <<x, y>> \in s <=> b[Index(n, x, y)] = 1
    BY DEF AliveOn, Square
  <2>. QED
    BY <2>1, <2>2 DEF In
<1>3. ASSUME NEW c \in Square(n)
      PROVE  next[Index(n, c[1], c[2])] = AliveNext(In(c, s), Around(s, n, c[1], c[2]))
  <2>1. c[1] \in Coords(n) /\ c[2] \in Coords(n) /\ c = <<c[1], c[2]>>
    BY DEF Square
  <2>2. next[Index(n, c[1], c[2])] = CpuCell(b, n, c[1], c[2])
    BY <2>1, IndexRange
  <2>. HIDE DEF s, next
  <2>3. CpuCell(b, n, c[1], c[2]) = AliveNext(In(c, s), Around(s, n, c[1], c[2]))
    BY <1>2, <2>1, BesideRange DEF CpuCell, Sum8, Around
  <2>. QED
    BY <2>2, <2>3
<1>. HIDE DEF next, s
<1>4. AliveOn(next, n) = GenerationOf(s, n)
  BY <1>3 DEF AliveOn, GenerationOf
<1>. QED
  BY <1>1, <1>4 DEF next, s

\* A set of cells moved along the diagonal of the torus.
Diagonally(s, n, d) == {<<(c[1] + d) % n, (c[2] + d) % n>> : c \in s}

\* Two moves are one.
LEMMA MovedOnce ==
  ASSUME NEW n \in Nat \ {0}, NEW s \in SUBSET (Int \X Int), NEW j \in Nat, NEW d \in Nat
  PROVE  Diagonally({<<c[1] + j, c[2] + j>> : c \in s}, n, d) = Diagonally(s, n, d + j)
<1>. DEFINE moved == {<<c[1] + j, c[2] + j>> : c \in s}
            At(c) == <<(c[1] + d) % n, (c[2] + d) % n>>
            There(c) == <<(c[1] + (d + j)) % n, (c[2] + (d + j)) % n>>
<1>1. ASSUME NEW c \in s PROVE At(<<c[1] + j, c[2] + j>>) = There(c)
  <2>1. c[1] \in Int /\ c[2] \in Int
    OBVIOUS
  <2>2. (c[1] + j) + d = c[1] + (d + j) /\ (c[2] + j) + d = c[2] + (d + j)
    BY <2>1
  <2>. QED
    BY <2>2
<1>2. Diagonally(moved, n, d) = {At(e) : e \in moved}
  BY DEF Diagonally
<1>3. Diagonally(s, n, d + j) = {There(c) : c \in s}
  BY DEF Diagonally
<1>. HIDE DEF At, There
<1>4. {At(e) : e \in moved} = {There(c) : c \in s}
  BY <1>1
<1>5. Diagonally(moved, n, d) = Diagonally(s, n, d + j)
  <2>. HIDE DEF moved
  <2>. QED
    BY <1>2, <1>3, <1>4
<1>. QED
  BY <1>5

LEMMA MovedByOne ==
  ASSUME NEW n \in Nat \ {0}, NEW s \in SUBSET (Int \X Int), NEW d \in Nat
  PROVE  Diagonally({<<c[1] + 1, c[2] + 1>> : c \in s}, n, d) = Diagonally(s, n, d + 1)
<1>1. \A j \in Nat :
        Diagonally({<<c[1] + j, c[2] + j>> : c \in s}, n, d) = Diagonally(s, n, d + j)
  BY MovedOnce, SMT
<1>2. 1 \in Nat
  OBVIOUS
<1>. QED
  BY <1>1, <1>2, Zenon

\* A move is by less than an edge, and wraps at most once.
LEMMA MoveWraps ==
  ASSUME NEW n \in Nat \ {0}, NEW d \in Nat
  PROVE  \E r \in Coords(n) : \A i \in Coords(n) :
           (i + d) % n = IF i + r < n THEN i + r ELSE i + r - n
<1>. DEFINE q == d \div n
            r == d % n
<1>1. q \in Nat /\ r \in Coords(n) /\ d = n * q + r
  BY DEF Coords
<1>. HIDE DEF q, r
<1>2. ASSUME NEW k \in Int, NEW t \in Coords(n) PROVE (n * k + t) % n = t
  BY DEF Coords
<1>3. ASSUME NEW i \in Coords(n)
      PROVE  (i + d) % n = IF i + r < n THEN i + r ELSE i + r - n
  <2>1. i \in Int /\ r \in Int /\ 0 <= i /\ i < n /\ 0 <= r /\ r < n
    BY <1>1 DEF Coords
  <2>2. CASE i + r < n
    <3>1. i + d = n * q + (i + r)
      BY <1>1, <2>1
    <3>2. (n * q + (i + r)) % n = i + r
      BY <1>1, <2>1, <2>2
    <3>. QED
      BY <2>2, <3>1, <3>2
  <2>3. CASE i + r >= n
    <3>1. i + d = n * (q + 1) + (i + r - n)
      BY <1>1, <2>1
    <3>2. q + 1 \in Int /\ i + r - n \in Coords(n)
      BY <1>1, <2>1, <2>3 DEF Coords
    <3>3. (n * (q + 1) + (i + r - n)) % n = i + r - n
      BY <1>2, <3>2
    <3>. QED
      BY <2>1, <2>3, <3>1, <3>3
  <2>. QED
    BY <2>1, <2>2, <2>3
<1>. QED
  BY <1>1, <1>3

\* The rule is the same everywhere on the torus: moving a picture and taking
\* its generation commute, and a move loses nothing.
THEOREM GenerationMoves ==
  ASSUME NEW n \in Nat \ {0}, NEW d \in Nat, NEW s \in SUBSET Square(n)
  PROVE  /\ GenerationOf(Diagonally(s, n, d), n) = Diagonally(GenerationOf(s, n), n, d)
         /\ Diagonally(s, n, d) \subseteq Square(n)
         /\ \A t \in SUBSET Square(n) : Diagonally(s, n, d) = Diagonally(t, n, d) => s = t
<1>1. PICK r \in Coords(n) : \A i \in Coords(n) :
        (i + d) % n = IF i + r < n THEN i + r ELSE i + r - n
  BY MoveWraps
<1>. DEFINE To(i) == IF i + r < n THEN i + r ELSE i + r - n
            From(i) == IF i - r >= 0 THEN i - r ELSE i - r + n
<1>2. ASSUME NEW i \in Coords(n)
      PROVE  /\ To(i) \in Coords(n) /\ From(i) \in Coords(n)
             /\ From(To(i)) = i /\ To(From(i)) = i
             /\ CpuBefore(To(i), n) = To(CpuBefore(i, n))
             /\ CpuAfter(To(i), n) = To(CpuAfter(i, n))
  BY DEF Coords, CpuBefore, CpuAfter
<1>3. \A t \in SUBSET Square(n) :
        Diagonally(t, n, d) = {<<To(c[1]), To(c[2])>> : c \in t}
  BY <1>1 DEF Diagonally, Square
<1>. HIDE DEF To, From
<1>4. ASSUME NEW t \in SUBSET Square(n), NEW x \in Coords(n), NEW y \in Coords(n)
      PROVE  <<To(x), To(y)>> \in Diagonally(t, n, d) <=> <<x, y>> \in t
  <2>1. \A c \in t : c[1] \in Coords(n) /\ c[2] \in Coords(n) /\ c = <<c[1], c[2]>>
    BY DEF Square
  <2>2. \A c \in t : To(c[1]) = To(x) /\ To(c[2]) = To(y) => c = <<x, y>>
    BY <1>2, <2>1
  <2>. QED
    BY <1>3, <2>2
<1>5. \A t \in SUBSET Square(n) : Diagonally(t, n, d) \subseteq Square(n)
  BY <1>2, <1>3 DEF Square
<1>6. ASSUME NEW x \in Coords(n), NEW y \in Coords(n)
      PROVE  <<To(x), To(y)>> \in GenerationOf(Diagonally(s, n, d), n)
               <=> <<x, y>> \in GenerationOf(s, n)
  <2>. DEFINE m == Diagonally(s, n, d)
  <2>1. \A i, j \in Coords(n) : In(<<To(i), To(j)>>, m) = In(<<i, j>>, s)
    BY <1>4 DEF In
  <2>. HIDE DEF m
  <2>2. Around(m, n, To(x), To(y)) = Around(s, n, x, y)
    BY <1>2, <2>1, BesideRange DEF Around
  <2>3. <<To(x), To(y)>> \in Square(n) /\ <<x, y>> \in Square(n)
    BY <1>2 DEF Square
  <2>. QED
    BY <2>1, <2>2, <2>3 DEF GenerationOf, m
<1>7. ASSUME NEW t \in SUBSET Square(n), NEW u \in SUBSET Square(n),
             \A x, y \in Coords(n) : <<To(x), To(y)>> \in t <=> <<To(x), To(y)>> \in u
      PROVE  t = u
  <2>1. ASSUME NEW c \in Square(n) PROVE c \in t <=> c \in u
    <3>1. c[1] \in Coords(n) /\ c[2] \in Coords(n) /\ c = <<c[1], c[2]>>
      BY DEF Square
    <3>2. /\ From(c[1]) \in Coords(n) /\ From(c[2]) \in Coords(n)
          /\ c = <<To(From(c[1])), To(From(c[2]))>>
      BY <1>2, <3>1
    <3>. QED
      BY <1>7, <3>2
  <2>. QED
    BY <2>1
<1>8. GenerationOf(Diagonally(s, n, d), n) = Diagonally(GenerationOf(s, n), n, d)
  <2>1. GenerationOf(s, n) \in SUBSET Square(n)
    BY DEF GenerationOf
  <2>. DEFINE after == GenerationOf(Diagonally(s, n, d), n)
              before == Diagonally(GenerationOf(s, n), n, d)
  <2>2. after \in SUBSET Square(n)
    BY DEF GenerationOf
  <2>3. before \in SUBSET Square(n)
    BY <1>5, <2>1
  <2>4. \A x, y \in Coords(n) : <<To(x), To(y)>> \in after <=> <<To(x), To(y)>> \in before
    BY <1>4, <1>6, <2>1
  <2>. HIDE DEF after, before
  <2>5. after = before
    BY <1>7, <2>2, <2>3, <2>4
  <2>. QED
    BY <2>5 DEF after, before
<1>9. ASSUME NEW t \in SUBSET Square(n), Diagonally(s, n, d) = Diagonally(t, n, d)
      PROVE  s = t
  <2>1. \A x, y \in Coords(n) : <<x, y>> \in s <=> <<x, y>> \in t
    BY <1>4, <1>9
  <2>. QED
    BY <2>1 DEF Square
<1>. QED
  BY <1>5, <1>8, <1>9

-----------------------------------------------------------------------------
(***************************************************************************)
(* The glider and the pulsar, from their first picture to the next like    *)
(* it.                                                                     *)
(***************************************************************************)

\* The glider's four phases; the first is the pattern of the table.
GliderPhases ==
  [k \in 0 .. 3 |->
     CASE k = 0 -> GliderCells
       [] k = 1 -> Row(1, {0, 2}) \cup Row(2, {1, 2}) \cup Row(3, {1})
       [] k = 2 -> Row(1, {2}) \cup Row(2, {0, 2}) \cup Row(3, {1, 2})
       [] k = 3 -> Row(1, {1}) \cup Row(2, {2, 3}) \cup Row(3, {1, 2})]

\* The pulsar's three phases, in the box of the widest; the first is the
\* pattern of the table, one cell in from the corner.
PulsarPhases ==
  [k \in 0 .. 2 |->
     CASE k = 0 ->
            UNION {{1, 6, 8, 13} \X {3, 4, 5, 9, 10, 11},
                   {3, 4, 5, 9, 10, 11} \X {1, 6, 8, 13}}
       [] k = 1 ->
            UNION {{4, 10} \X {0, 1, 13, 14},
                   {4, 5, 9, 10} \X {2, 6, 8, 12},
                   {0, 1, 2, 5, 6, 8, 9, 12, 13, 14} \X {4, 10},
                   {2, 4, 6, 8, 10, 12} \X {5, 9}}
       [] k = 2 ->
            UNION {{3, 4, 10, 11} \X {1, 13},
                   {4, 5, 9, 10} \X {2, 12},
                   {1, 4, 6, 8, 10, 13} \X {3, 11},
                   {1, 2, 3, 5, 6, 8, 9, 11, 12, 13} \X {4, 10},
                   {2, 4, 6, 8, 10, 12} \X {5, 9},
                   {3, 4, 5, 9, 10, 11} \X {6, 8}}]

\* Two pictures, each given by what is alive in it, are a generation apart if
\* the rule says so of every cell.
LEMMA GenerationBy ==
  ASSUME NEW n \in Nat \ {0}, NEW s \in SUBSET Square(n), NEW t \in SUBSET Square(n),
         \A x, y \in Coords(n) :
           <<x, y>> \in t <=> AliveNext(In(<<x, y>>, s), Around(s, n, x, y)) = 1
  PROVE  GenerationOf(s, n) = t
<1>1. \A c \in Square(n) : c[1] \in Coords(n) /\ c[2] \in Coords(n) /\ c = <<c[1], c[2]>>
  BY DEF Square
<1>. QED
  BY <1>1 DEF GenerationOf

\* After four generations the glider is one cell further down the diagonal, on
\* every torus on which its two sides do not meet.
LEMMA GliderGenerations ==
  ASSUME NEW n \in Nat, n > 4
  PROVE  /\ \A k \in 0 .. 3 : GliderPhases[k] \subseteq Square(n)
         /\ \A k \in 0 .. 2 : GenerationOf(GliderPhases[k], n) = GliderPhases[k + 1]
         /\ GenerationOf(GliderPhases[3], n) = {<<c[1] + 1, c[2] + 1>> : c \in GliderCells}
<1>. DEFINE G0(x, y) == \/ y = 0 /\ x = 1
                        \/ y = 1 /\ x = 2
                        \/ y = 2 /\ x \in {0, 1, 2}
            G1(x, y) == \/ y = 1 /\ x \in {0, 2}
                        \/ y = 2 /\ x \in {1, 2}
                        \/ y = 3 /\ x = 1
            G2(x, y) == \/ y = 1 /\ x = 2
                        \/ y = 2 /\ x \in {0, 2}
                        \/ y = 3 /\ x \in {1, 2}
            G3(x, y) == \/ y = 1 /\ x = 1
                        \/ y = 2 /\ x \in {2, 3}
                        \/ y = 3 /\ x \in {1, 2}
            G4(x, y) == \/ y = 1 /\ x = 2
                        \/ y = 2 /\ x = 3
                        \/ y = 3 /\ x \in {1, 2, 3}
            moved == {<<c[1] + 1, c[2] + 1>> : c \in GliderCells}
<1>1. /\ GliderPhases[0] \subseteq Square(n) /\ GliderPhases[1] \subseteq Square(n)
      /\ GliderPhases[2] \subseteq Square(n) /\ GliderPhases[3] \subseteq Square(n)
      /\ moved \subseteq Square(n)
  BY DEF GliderPhases, GliderCells, Row, Square, Coords
<1>2. \A x, y : /\ <<x, y>> \in GliderPhases[0] <=> G0(x, y)
                /\ <<x, y>> \in GliderPhases[1] <=> G1(x, y)
                /\ <<x, y>> \in GliderPhases[2] <=> G2(x, y)
                /\ <<x, y>> \in GliderPhases[3] <=> G3(x, y)
                /\ <<x, y>> \in moved <=> G4(x, y)
  <2>1. \A x, y : /\ <<x, y>> \in GliderCells <=> G0(x, y)
                  /\ <<x, y>> \in GliderPhases[1] <=> G1(x, y)
                  /\ <<x, y>> \in GliderPhases[2] <=> G2(x, y)
                  /\ <<x, y>> \in GliderPhases[3] <=> G3(x, y)
    BY DEF GliderPhases, GliderCells, Row
  <2>2. GliderPhases[0] = GliderCells
    BY DEF GliderPhases
  <2>3. GliderCells = {<<1, 0>>, <<2, 1>>, <<0, 2>>, <<1, 2>>, <<2, 2>>}
    BY DEF GliderCells, Row
  <2>4. moved = {<<2, 1>>, <<3, 2>>, <<1, 3>>, <<2, 3>>, <<3, 3>>}
    BY <2>3
  <2>5. \A x, y : <<x, y>> \in moved <=> G4(x, y)
    BY <2>4
  <2>. QED
    BY <2>1, <2>2, <2>5
<1>. HIDE DEF moved
<1>3. GenerationOf(GliderPhases[0], n) = GliderPhases[1]
  <2>1. ASSUME NEW x \in Coords(n), NEW y \in Coords(n)
        PROVE  <<x, y>> \in GliderPhases[1]
                 <=> AliveNext(In(<<x, y>>, GliderPhases[0]), Around(GliderPhases[0], n, x, y)) = 1
    BY <1>2 DEF In, Around, AliveNext, CpuBefore, CpuAfter, Coords
  <2>. QED
    BY <1>1, <2>1, GenerationBy
<1>4. GenerationOf(GliderPhases[1], n) = GliderPhases[2]
  <2>1. ASSUME NEW x \in Coords(n), NEW y \in Coords(n)
        PROVE  <<x, y>> \in GliderPhases[2]
                 <=> AliveNext(In(<<x, y>>, GliderPhases[1]), Around(GliderPhases[1], n, x, y)) = 1
    BY <1>2 DEF In, Around, AliveNext, CpuBefore, CpuAfter, Coords
  <2>. QED
    BY <1>1, <2>1, GenerationBy
<1>5. GenerationOf(GliderPhases[2], n) = GliderPhases[3]
  <2>1. ASSUME NEW x \in Coords(n), NEW y \in Coords(n)
        PROVE  <<x, y>> \in GliderPhases[3]
                 <=> AliveNext(In(<<x, y>>, GliderPhases[2]), Around(GliderPhases[2], n, x, y)) = 1
    BY <1>2 DEF In, Around, AliveNext, CpuBefore, CpuAfter, Coords
  <2>. QED
    BY <1>1, <2>1, GenerationBy
<1>6. GenerationOf(GliderPhases[3], n) = moved
  <2>1. ASSUME NEW x \in Coords(n), NEW y \in Coords(n)
        PROVE  <<x, y>> \in moved
                 <=> AliveNext(In(<<x, y>>, GliderPhases[3]), Around(GliderPhases[3], n, x, y)) = 1
    BY <1>2 DEF In, Around, AliveNext, CpuBefore, CpuAfter, Coords
  <2>. QED
    BY <1>1, <2>1, GenerationBy
<1>. QED
  BY <1>1, <1>3, <1>4, <1>5, <1>6 DEF moved

\* The pulsar is back after three generations and not before, on every torus
\* on which its widest phase has an empty row and column between its sides.
LEMMA PulsarGenerations ==
  ASSUME NEW n \in Nat, n > 15
  PROVE  /\ \A k \in 0 .. 2 : PulsarPhases[k] \subseteq Square(n)
         /\ \A k \in 0 .. 2 : GenerationOf(PulsarPhases[k], n) = PulsarPhases[(k + 1) % 3]
         /\ PulsarPhases[1] # PulsarPhases[0] /\ PulsarPhases[2] # PulsarPhases[0]
         /\ PulsarPhases[0] = {<<c[1] + 1, c[2] + 1>> : c \in PulsarCells}
<1>. DEFINE P0(x, y) == \/ x \in {1, 6, 8, 13} /\ y \in {3, 4, 5, 9, 10, 11}
                        \/ x \in {3, 4, 5, 9, 10, 11} /\ y \in {1, 6, 8, 13}
            P1(x, y) == \/ x \in {4, 10} /\ y \in {0, 1, 13, 14}
                        \/ x \in {4, 5, 9, 10} /\ y \in {2, 6, 8, 12}
                        \/ x \in {0, 1, 2, 5, 6, 8, 9, 12, 13, 14} /\ y \in {4, 10}
                        \/ x \in {2, 4, 6, 8, 10, 12} /\ y \in {5, 9}
            P2(x, y) == \/ x \in {3, 4, 10, 11} /\ y \in {1, 13}
                        \/ x \in {4, 5, 9, 10} /\ y \in {2, 12}
                        \/ x \in {1, 4, 6, 8, 10, 13} /\ y \in {3, 11}
                        \/ x \in {1, 2, 3, 5, 6, 8, 9, 11, 12, 13} /\ y \in {4, 10}
                        \/ x \in {2, 4, 6, 8, 10, 12} /\ y \in {5, 9}
                        \/ x \in {3, 4, 5, 9, 10, 11} /\ y \in {6, 8}
<1>1. \A x, y : <<x, y>> \in PulsarPhases[0] <=> P0(x, y)
  BY DEF PulsarPhases
<1>2. \A x, y : <<x, y>> \in PulsarPhases[1] <=> P1(x, y)
  BY DEF PulsarPhases
<1>3. \A x, y : <<x, y>> \in PulsarPhases[2] <=> P2(x, y)
  BY DEF PulsarPhases
<1>4. /\ PulsarPhases[0] \subseteq Square(n)
      /\ PulsarPhases[1] \subseteq Square(n)
      /\ PulsarPhases[2] \subseteq Square(n)
  BY DEF PulsarPhases, Square, Coords
<1>5. n \in Nat \ {0}
  OBVIOUS
<1>. HIDE DEF P0, P1, P2
<1>6. GenerationOf(PulsarPhases[0], n) = PulsarPhases[1]
  <2>1. ASSUME NEW x \in Coords(n), NEW y \in Coords(n)
        PROVE  <<x, y>> \in PulsarPhases[1]
                 <=> AliveNext(In(<<x, y>>, PulsarPhases[0]), Around(PulsarPhases[0], n, x, y)) = 1
    BY <1>1, <1>2 DEF P0, P1, P2, In, Around, AliveNext, CpuBefore, CpuAfter, Coords
  <2>. QED
    BY <1>4, <1>5, <2>1, GenerationBy
<1>7. GenerationOf(PulsarPhases[1], n) = PulsarPhases[2]
  <2>1. ASSUME NEW x \in Coords(n), NEW y \in Coords(n)
        PROVE  <<x, y>> \in PulsarPhases[2]
                 <=> AliveNext(In(<<x, y>>, PulsarPhases[1]), Around(PulsarPhases[1], n, x, y)) = 1
    BY <1>2, <1>3 DEF P0, P1, P2, In, Around, AliveNext, CpuBefore, CpuAfter, Coords
  <2>. QED
    BY <1>4, <1>5, <2>1, GenerationBy
<1>8. GenerationOf(PulsarPhases[2], n) = PulsarPhases[0]
  <2>1. ASSUME NEW x \in Coords(n), NEW y \in Coords(n)
        PROVE  <<x, y>> \in PulsarPhases[0]
                 <=> AliveNext(In(<<x, y>>, PulsarPhases[2]), Around(PulsarPhases[2], n, x, y)) = 1
    BY <1>1, <1>3 DEF P0, P1, P2, In, Around, AliveNext, CpuBefore, CpuAfter, Coords
  <2>. QED
    BY <1>4, <1>5, <2>1, GenerationBy
<1>9. PulsarPhases[1] # PulsarPhases[0] /\ PulsarPhases[2] # PulsarPhases[0]
  <2>1. <<4, 0>> \notin PulsarPhases[0] /\ <<4, 0>> \in PulsarPhases[1]
    BY <1>1, <1>2 DEF P0, P1
  <2>2. <<4, 2>> \notin PulsarPhases[0] /\ <<4, 2>> \in PulsarPhases[2]
    BY <1>1, <1>3 DEF P0, P2
  <2>. QED
    BY <2>1, <2>2
<1>10. PulsarPhases[0] = {<<c[1] + 1, c[2] + 1>> : c \in PulsarCells}
  <2>. DEFINE moved == {<<c[1] + 1, c[2] + 1>> : c \in PulsarCells}
  <2>1. PulsarCells = ({2, 3, 4, 8, 9, 10} \X {0, 5, 7, 12})
                        \cup ({0, 5, 7, 12} \X {2, 3, 4, 8, 9, 10})
    <3>1. UNION {Row(j, {2, 3, 4, 8, 9, 10}) : j \in {0, 5, 7, 12}}
            = {2, 3, 4, 8, 9, 10} \X {0, 5, 7, 12}
      BY DEF Row
    <3>2. UNION {Row(j, {0, 5, 7, 12}) : j \in {2, 3, 4, 8, 9, 10}}
            = {0, 5, 7, 12} \X {2, 3, 4, 8, 9, 10}
      BY DEF Row
    <3>. QED
      BY <3>1, <3>2 DEF PulsarCells
  <2>2. \A c \in PulsarCells : <<c[1] + 1, c[2] + 1>> \in PulsarPhases[0]
    BY <1>1, <2>1 DEF P0
  <2>3. ASSUME NEW c \in PulsarPhases[0] PROVE c \in moved
    <3>1. /\ c = <<c[1], c[2]>> /\ c[1] \in Int /\ c[2] \in Int
          /\ P0(c[1], c[2])
      BY <1>1, <1>4 DEF Square, Coords
    <3>2. <<c[1] - 1, c[2] - 1>> \in PulsarCells
      BY <2>1, <3>1 DEF P0
    <3>. QED
      BY <3>1, <3>2
  <2>. QED
    BY <2>2, <2>3
<1>. QED
  <2>1. (0 + 1) % 3 = 1 /\ (1 + 1) % 3 = 2 /\ (2 + 1) % 3 = 0
    OBVIOUS
  <2>2. \A k \in 0 .. 2 : GenerationOf(PulsarPhases[k], n) = PulsarPhases[(k + 1) % 3]
    <3>. SUFFICES ASSUME NEW k \in 0 .. 2
                  PROVE  GenerationOf(PulsarPhases[k], n) = PulsarPhases[(k + 1) % 3]
      OBVIOUS
    <3>1. k = 0 \/ k = 1 \/ k = 2
      OBVIOUS
    <3>. QED
      BY <1>6, <1>7, <1>8, <2>1, <3>1
  <2>3. \A k \in 0 .. 2 : PulsarPhases[k] \subseteq Square(n)
    BY <1>4
  <2>. QED
    BY <1>9, <1>10, <2>2, <2>3
=============================================================================
