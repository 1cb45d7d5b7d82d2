--------------------------- MODULE LoadingProofs ----------------------------
(***************************************************************************)
(* Proofs about Loading, for every width of a number, text, grid size and  *)
(* time: what parse yields is what the text means and lies in the declared *)
(* box, what fits the grid is stamped whole, the glider and the pulsar do  *)
(* what their names promise, and boards are what GridData takes for grids. *)
(***************************************************************************)
EXTENDS Loading, BoardGrids, LifeProofs, RleProofs

-----------------------------------------------------------------------------
(***************************************************************************)
(* Stamping.                                                               *)
(***************************************************************************)

\* A pattern that is no larger than the grid loses nothing when it is
\* centred, whatever the parity of the two sizes.
LEMMA CentredWhole ==
  ASSUME NEW n \in Nat \ {0}, NEW w \in 0 .. n, NEW h \in 0 .. n,
         NEW pattern \in SUBSET ((0 .. w - 1) \X (0 .. h - 1))
  PROVE  /\ Moved(pattern, w, h, n \div 2, n \div 2) \subseteq Square(n)
         /\ Centred(pattern, w, h, n \div 2, n \div 2, n)
              = Moved(pattern, w, h, n \div 2, n \div 2)
<1>1. ASSUME NEW c \in pattern
      PROVE  <<n \div 2 - w \div 2 + c[1], n \div 2 - h \div 2 + c[2]>> \in Square(n)
  <2>1. c[1] \in 0 .. w - 1 /\ c[2] \in 0 .. h - 1
    OBVIOUS
  <2>2. /\ n \div 2 - w \div 2 + c[1] \in 0 .. n - 1
        /\ n \div 2 - h \div 2 + c[2] \in 0 .. n - 1
    BY <2>1
  <2>. QED
    BY <2>2 DEF Square, Coords
<1>2. Moved(pattern, w, h, n \div 2, n \div 2) \subseteq Square(n)
  BY <1>1 DEF Moved
<1>. QED
  BY <1>2 DEF Centred

\* The bytes that the GPU side pokes are those of the cells that the CPU side
\* writes.
THEOREM StampsAgree ==
  ASSUME NEW n \in Nat \ {0}, NEW s, NEW b
  PROVE  /\ PokedInto(b, s, n) = StampedInto(b, s, n)
         /\ Stamped(b, s, n) = {StampedInto(b, s, n)}
<1>. DEFINE offsets == {c[2] * (n * 4) + c[1] * 4 : c \in s \cap Square(n)}
<1>1. ASSUME NEW i \in Cells(n)
      PROVE  i * 4 \in offsets <=> <<i % n, i \div n>> \in s
  <2>1. i \in Nat
    BY DEF Cells
  <2>2. ASSUME NEW c \in Square(n)
        PROVE  i * 4 = c[2] * (n * 4) + c[1] * 4 <=> c = <<i % n, i \div n>>
    <3>1. c[1] \in Coords(n) /\ c[2] \in Coords(n) /\ c = <<c[1], c[2]>>
      BY DEF Square
    <3>2. c[1] \in Int /\ c[2] \in Int /\ c[2] * n \in Int
      BY <3>1 DEF Coords
    <3>3. c[2] * (n * 4) = (c[2] * n) * 4
      BY <3>2
    <3>4. i * 4 = c[2] * (n * 4) + c[1] * 4 <=> i = Index(n, c[1], c[2])
      <4>1. \A j, k \in Int : i * 4 = j * 4 + k * 4 <=> i = j + k
        BY <2>1
      <4>. QED
        BY <3>2, <3>3, <4>1 DEF Index
    <3>5. i = Index(n, c[1], c[2]) <=> c[1] = i % n /\ c[2] = i \div n
      BY <3>1, IndexRange, CellCoords
    <3>. QED
      BY <3>1, <3>4, <3>5
  <2>3. <<i % n, i \div n>> \in Square(n)
    BY CellCoords DEF Square
  <2>. QED
    BY <2>2, <2>3
<1>2. PokedInto(b, s, n) = StampedInto(b, s, n)
  BY <1>1 DEF PokedInto, StampedInto
<1>. QED
  BY <1>2 DEF Stamped

\* Stamping adds its cells to those that are alive.
LEMMA StampAdds ==
  ASSUME NEW n \in Nat \ {0}, NEW s \in SUBSET Square(n), NEW b
  PROVE  AliveOn(StampedInto(b, s, n), n) = AliveOn(b, n) \cup s
<1>. DEFINE stamped == StampedInto(b, s, n)
<1>1. ASSUME NEW c \in Square(n)
      PROVE  stamped[Index(n, c[1], c[2])] = 1 <=> b[Index(n, c[1], c[2])] = 1 \/ c \in s
  <2>1. c[1] \in Coords(n) /\ c[2] \in Coords(n) /\ c = <<c[1], c[2]>>
    BY DEF Square
  <2>2. /\ Index(n, c[1], c[2]) \in Cells(n)
        /\ Index(n, c[1], c[2]) % n = c[1]
        /\ Index(n, c[1], c[2]) \div n = c[2]
    BY <2>1, IndexRange
  <2>. QED
    BY <2>1, <2>2 DEF StampedInto
<1>. QED
  BY <1>1 DEF AliveOn

\* What is stamped on a blank board is what is alive on it.
LEMMA StampedAlive ==
  ASSUME NEW n \in Nat \ {0}, NEW s \in SUBSET Square(n)
  PROVE  AliveOn(StampedInto(BlankBoard(n), s, n), n) = s
<1>1. AliveOn(BlankBoard(n), n) = {}
  <2>1. ASSUME NEW c \in Square(n) PROVE BlankBoard(n)[Index(n, c[1], c[2])] = 0
    <3>1. c[1] \in Coords(n) /\ c[2] \in Coords(n)
      BY DEF Square
    <3>2. Index(n, c[1], c[2]) \in Cells(n)
      BY <3>1, IndexRange
    <3>. QED
      BY <3>2 DEF BlankBoard
  <2>. QED
    BY <2>1 DEF AliveOn
<1>. QED
  BY <1>1, StampAdds

-----------------------------------------------------------------------------
(***************************************************************************)
(* Loading.                                                                *)
(***************************************************************************)

\* A generation of the grid is a grid.
LEMMA TickTypes ==
  ASSUME LoadTypeOK
  PROVE  [i \in Cells(edge) |-> CpuCell(board, edge, i % edge, i \div edge)]
           \in Boards(edge)
<1>1. edge \in Nat \ {0} /\ board \in Boards(edge)
  BY LoadingAssumption DEF LoadTypeOK, Boards
<1>2. ASSUME NEW i \in Cells(edge)
      PROVE  CpuCell(board, edge, i % edge, i \div edge) \in {0, 1}
  <2>1. i % edge \in Coords(edge) /\ i \div edge \in Coords(edge)
    BY <1>1, CellCoords
  <2>2. CpuCell(board, edge, i % edge, i \div edge)
          = LifeCell(board, edge, i % edge, i \div edge)
    BY <1>1, <2>1, KernelsCompute
  <2>. QED
    BY <2>2 DEF LifeCell
<1>. QED
  BY <1>2 DEF Boards

\* Every action keeps the types.
LEMMA LoadTypes == LoadTypeOK /\ [LoadNext]_loadVars => LoadTypeOK'
<1>. SUFFICES ASSUME LoadTypeOK, [LoadNext]_loadVars PROVE LoadTypeOK'
  OBVIOUS
<1>1. /\ RleTypeOK /\ edge \in Edges /\ edge \in Nat \ {0}
      /\ board \in Boards(edge) /\ behind \in Boards(edge)
      /\ generation \in 0 .. 1 /\ backend \in {"Gpu", "Cpu"}
      /\ source \in {"nothing", "rle", "brush"} \cup Presets /\ age \in 0 .. MaxAge
      /\ pointer \in Positions \X Positions
  BY LoadingAssumption DEF LoadTypeOK, Boards
<1>2. \A n \in Nat \ {0} : BlankBoard(n) \in Boards(n)
  BY DEF BlankBoard, Boards
<1>3. \A b, s : b \in Boards(edge) => Stamped(b, s, edge) \subseteq Boards(edge)
  <2>1. \A b, s : b \in Boards(edge) => StampedInto(b, s, edge) \in Boards(edge)
    BY DEF StampedInto, Boards
  <2>2. \A b, s : Stamped(b, s, edge) = {StampedInto(b, s, edge)}
    BY <1>1, StampsAgree
  <2>. QED
    BY <2>1, <2>2
<1>4. UNCHANGED gridVars => /\ edge' \in Edges /\ board' \in Boards(edge')
                            /\ behind' \in Boards(edge') /\ generation' \in 0 .. 1
                            /\ backend' \in {"Gpu", "Cpu"}
                            /\ source' \in {"nothing", "rle", "brush"} \cup Presets
                            /\ age' \in 0 .. MaxAge
                            /\ pointer' \in Positions \X Positions
  BY <1>1 DEF gridVars, bufferVars
<1>5. NewText => RleTypeOK'
  BY WordArithmetic DEF NewText, RleTypeOK
<1>6. UNCHANGED rleVars => RleTypeOK'
  BY <1>1, ParseTypes
<1>7. CASE Parse
  BY <1>1, <1>4, <1>7, ParseTypes DEF Parse, LoadTypeOK, Boards
<1>8. CASE Load
  <2>1. LeftByClear \in Boards(edge) /\ behind' \in Boards(edge) /\ age' \in 0 .. MaxAge
    BY <1>1, <1>2, <1>8, LoadingAssumption DEF Load, LeftByClear
  <2>2. board' \in Boards(edge)
    BY <1>3, <1>8, <2>1 DEF Load
  <2>. QED
    BY <1>1, <1>5, <1>8, <2>1, <2>2 DEF Load, LoadTypeOK, Boards
<1>9. CASE Refuse
  BY <1>4, <1>5, <1>9 DEF Refuse, LoadTypeOK, Boards
<1>10. CASE Tick
  <2>1. age' \in 0 .. MaxAge
    BY <1>1, <1>10, LoadingAssumption DEF Tick
  <2>2. board' \in Boards(edge)
    BY <1>10, TickTypes DEF Tick
  <2>3. behind' \in Boards(edge) /\ generation' \in 0 .. 1
    BY <1>1, <1>10 DEF Tick, bufferVars
  <2>. QED
    BY <1>1, <1>6, <1>10, <2>1, <2>2, <2>3 DEF Tick, LoadTypeOK, Boards
<1>11. ASSUME NEW p \in Presets, StampPreset(p) PROVE LoadTypeOK'
  BY <1>1, <1>3, <1>6, <1>11 DEF StampPreset, bufferVars, LoadTypeOK, Boards
<1>12. ASSUME NEW n \in Edges, Resize(n) PROVE LoadTypeOK'
  <2>1. /\ BlankBoard(n) \in Boards(n) /\ 0 \in 0 .. MaxAge
        /\ <<0, 0>> \in Positions \X Positions
    BY <1>2, LoadingAssumption, PaintingAssumption DEF Positions
  <2>. QED
    BY <1>1, <1>6, <1>12, <2>1 DEF Resize, LoadTypeOK, Boards
<1>13. CASE UNCHANGED loadVars
  BY <1>4, <1>6, <1>13 DEF loadVars, LoadTypeOK, Boards
<1>14. ASSUME NEW at \in Positions \X Positions, Paint(at) PROVE LoadTypeOK'
  BY <1>1, <1>3, <1>6, <1>14 DEF Paint, bufferVars, LoadTypeOK, Boards
<1>. QED
  BY <1>7, <1>8, <1>9, <1>10, <1>11, <1>12, <1>13, <1>14 DEF LoadNext

\* Parsing, loading and running keep their types, at every width of a number,
\* for every text and every grid size.
THEOREM LoadTypeCorrect == LoadSpec => []LoadTypeOK
<1>1. LoadInit => LoadTypeOK
  <2>1. \A n \in Edges : GliderSeed(n) \in [Cells(n) -> {0, 1}]
    BY DEF GliderSeed, StampedInto, BlankBoard
  <2>2. "Glider" \in Presets
    BY DEF Presets
  <2>. QED
    BY <2>1, <2>2, LoadingAssumption, PaintingAssumption, WordArithmetic
       DEF BlankBoard, LoadInit, RleInit, LoadTypeOK, RleTypeOK, Positions
<1>. QED
  BY <1>1, LoadTypes, PTL DEF LoadSpec

\* Whatever the text and wherever its counters wrap, parse yields no cell
\* outside the declared box.
THEOREM ParsedInBox == LoadSpec => [](HeaderFirst /\ CellsInBox)
<1>1. LoadInit => HeaderFirst /\ CellsInBox
  BY DEF LoadInit, RleInit, HeaderFirst, CellsInBox
<1>2. LoadTypeOK /\ HeaderFirst /\ CellsInBox /\ [LoadNext]_loadVars
        => HeaderFirst' /\ CellsInBox'
  <2>. SUFFICES ASSUME LoadTypeOK, HeaderFirst, CellsInBox, [LoadNext]_loadVars
                PROVE  HeaderFirst' /\ CellsInBox'
    OBVIOUS
  <2>1. CASE [RleNext]_rleVars
    BY <2>1, ParseInBox DEF LoadTypeOK
  <2>2. CASE NewText
    BY <2>2 DEF NewText, HeaderFirst, CellsInBox
  <2>. QED
    BY <2>1, <2>2 DEF LoadNext, Parse, Load, Refuse, Tick, StampPreset, Paint, Resize,
       loadVars
<1>. QED
  BY <1>1, <1>2, LoadTypeCorrect, PTL DEF LoadSpec

\* A plain body yields the cells that the format says, and is refused as out
\* of bounds only if it is: the digits, pen and counters of parse lose nothing.
THEOREM ParsedMeaning == LoadSpec => []ParsesMeaning
<1>1. LoadInit => ParserInv
  BY MeaningKnown DEF LoadInit, RleInit
<1>2. LoadTypeOK /\ ParserInv /\ [LoadNext]_loadVars => ParserInv'
  <2>. SUFFICES ASSUME LoadTypeOK, ParserInv, [LoadNext]_loadVars PROVE ParserInv'
    OBVIOUS
  <2>1. CASE [RleNext]_rleVars
    BY <2>1, ParseMeans DEF LoadTypeOK
  <2>2. CASE NewText
    BY <2>2, MeaningKnown DEF NewText, ParserInv
  <2>. QED
    BY <2>1, <2>2 DEF LoadNext, Parse, Load, Refuse, Tick, StampPreset, Paint, Resize,
       loadVars
<1>. QED
  BY <1>1, <1>2, LoadTypeCorrect, MeaningKnown, PTL DEF LoadSpec

\* On the GPU the current buffer is the one of the generation's parity; on the
\* CPU it is buffer 0.
ParityKept == generation = IF backend = "Gpu" THEN age % 2 ELSE 0

LEMMA ParityCorrect == LoadSpec => []ParityKept
<1>1. LoadInit => ParityKept
  BY DEF LoadInit, ParityKept
<1>2. LoadTypeOK /\ ParityKept /\ [LoadNext]_loadVars => ParityKept'
  <2>. SUFFICES ASSUME LoadTypeOK, ParityKept, [LoadNext]_loadVars
                PROVE  ParityKept'
    OBVIOUS
  <2>1. CASE UNCHANGED gridVars
    BY <2>1 DEF gridVars, bufferVars, ParityKept
  <2>2. CASE Load
    BY <2>2 DEF Load, ParityKept
  <2>3. CASE Tick
    <3>1. age \in Nat /\ age' = age + 1 /\ backend' = backend
      BY <2>3, LoadingAssumption DEF Tick, LoadTypeOK
    <3>2. CASE backend = "Gpu"
      <4>1. generation = age % 2 /\ generation' = 1 - generation
        BY <2>3, <3>2 DEF Tick, ParityKept
      <4>. QED
        BY <3>1, <3>2, <4>1 DEF ParityKept
    <3>3. CASE backend # "Gpu"
      BY <2>3, <3>1, <3>3 DEF Tick, bufferVars, ParityKept
    <3>. QED
      BY <3>2, <3>3
  <2>4. ASSUME NEW n \in Edges, Resize(n) PROVE ParityKept'
    BY <2>4 DEF Resize, ParityKept
  <2>5. ASSUME NEW p \in Presets, StampPreset(p) PROVE ParityKept'
    BY <2>5 DEF StampPreset, bufferVars, ParityKept
  <2>6. ASSUME NEW at \in Positions \X Positions, Paint(at) PROVE ParityKept'
    BY <2>6 DEF Paint, bufferVars, ParityKept
  <2>. QED
    BY <2>1, <2>2, <2>3, <2>4, <2>5, <2>6 DEF LoadNext, Parse, Refuse, loadVars
<1>. QED
  BY <1>1, <1>2, LoadTypeCorrect, PTL DEF LoadSpec

\* The size check of the import is enough: a pattern that passes it is on the
\* grid whole and in the middle, on a grid of any size; and it is alone there
\* on the CPU and after an even number of generations.
THEOREM LoadWhole == LoadSpec => LoadedWhole
<1>. DEFINE Whole ==
       Load => LET pattern == InMiddle(cells, width, height)
               IN  /\ pattern \subseteq AliveOn(board', edge)
                   /\ backend = "Cpu" \/ age % 2 = 0 => AliveOn(board', edge) = pattern
<1>1. LoadTypeOK /\ CellsInBox /\ ParityKept => [Whole]_loadVars
  <2>. SUFFICES ASSUME LoadTypeOK, CellsInBox, ParityKept, Load
                PROVE  /\ InMiddle(cells, width, height) \subseteq AliveOn(board', edge)
                       /\ backend = "Cpu" \/ age % 2 = 0 =>
                            AliveOn(board', edge) = InMiddle(cells, width, height)
    OBVIOUS
  <2>1. edge \in Nat \ {0} /\ width \in 0 .. edge /\ height \in 0 .. edge
    BY LoadingAssumption, RleAssumption DEF LoadTypeOK, RleTypeOK, Word, Load, Fits
  <2>2. cells \in SUBSET ((0 .. width - 1) \X (0 .. height - 1))
    BY DEF CellsInBox, Box
  <2>. DEFINE s == Centred(cells, width, height, edge \div 2, edge \div 2, edge)
  <2>3. s \subseteq Square(edge) /\ s = InMiddle(cells, width, height)
    BY <2>1, <2>2, CentredWhole DEF InMiddle
  <2>4. board' = StampedInto(LeftByClear, s, edge)
    BY <2>1, StampsAgree DEF Load
  <2>5. backend = "Cpu" \/ age % 2 = 0 => LeftByClear = BlankBoard(edge)
    BY DEF ParityKept, LeftByClear
  <2>. HIDE DEF s
  <2>6. s \subseteq AliveOn(board', edge)
    BY <2>1, <2>3, <2>4, StampAdds
  <2>7. LeftByClear = BlankBoard(edge) => AliveOn(board', edge) = s
    BY <2>1, <2>3, <2>4, StampedAlive
  <2>. QED
    BY <2>3, <2>5, <2>6, <2>7
<1>. QED
  BY <1>1, LoadTypeCorrect, ParsedInBox, ParityCorrect, PTL DEF LoadSpec, LoadedWhole
-----------------------------------------------------------------------------
(***************************************************************************)
(* Presets.                                                                *)
(***************************************************************************)

\* A bound that is a member is the maximum.
LEMMA MaxIs ==
  ASSUME NEW m \in Nat, NEW S \in SUBSET (0 .. m), m \in S
  PROVE  Max(S) = m
<1>1. \A k \in S : m >= k
  OBVIOUS
<1>2. \A k \in S : (\A j \in S : k >= j) => k = m
  OBVIOUS
<1>. QED
  BY <1>1, <1>2 DEF Max

\* A pattern with a cell in its last column and one in its last row has the
\* extent of the two.
LEMMA ExtentOf ==
  ASSUME NEW p \in Presets, NEW w \in Nat, NEW h \in Nat,
         PatternCells[p] \subseteq (0 .. w) \X (0 .. h),
         NEW c \in PatternCells[p], c[1] = w,
         NEW d \in PatternCells[p], d[2] = h
  PROVE  Width(p) = w + 1 /\ Height(p) = h + 1
<1>. DEFINE columns == {0} \cup {e[1] : e \in PatternCells[p]}
            rows == {0} \cup {e[2] : e \in PatternCells[p]}
<1>1. /\ w \in columns /\ columns \subseteq 0 .. w
      /\ h \in rows /\ rows \subseteq 0 .. h
  OBVIOUS
<1>2. Max(columns) = w /\ Max(rows) = h
  BY <1>1, MaxIs
<1>. QED
  BY <1>2 DEF Width, Height

\* Every preset lies in the box that extent gives it, and the box has the
\* preset's true size.
LEMMA PresetBox ==
  ASSUME NEW p \in Presets
  PROVE  /\ Width(p) \in Nat /\ Height(p) \in Nat
         /\ PatternCells[p] \subseteq (0 .. Width(p) - 1) \X (0 .. Height(p) - 1)
         /\ Width(p) = PresetSize[p][1] /\ Height(p) = PresetSize[p][2]
<1>1. CASE p = "Glider"
  <2>1. GliderCells \subseteq (0 .. 2) \X (0 .. 2)
    BY DEF GliderCells, Row
  <2>2. <<2, 2>> \in GliderCells
    BY DEF GliderCells, Row
  <2>3. PatternCells[p] = GliderCells
    BY <1>1 DEF PatternCells
  <2>4. Width(p) = 3 /\ Height(p) = 3
    <3>1. \A c, d \in PatternCells[p] :
            c[1] = 2 /\ d[2] = 2 => Width(p) = 3 /\ Height(p) = 3
      BY <2>1, <2>3, ExtentOf
    <3>. QED
      BY <2>2, <2>3, <3>1
  <2>. QED
    BY <1>1, <2>1, <2>3, <2>4 DEF PresetSize
<1>2. CASE p = "GosperGliderGun"
  <2>1. GosperGliderGunCells \subseteq (0 .. 35) \X (0 .. 8)
    BY DEF GosperGliderGunCells, Row
  <2>2. <<35, 2>> \in GosperGliderGunCells /\ <<12, 8>> \in GosperGliderGunCells
    BY DEF GosperGliderGunCells, Row
  <2>3. PatternCells[p] = GosperGliderGunCells
    BY <1>2 DEF PatternCells
  <2>4. Width(p) = 36 /\ Height(p) = 9
    <3>1. \A c, d \in PatternCells[p] :
            c[1] = 35 /\ d[2] = 8 => Width(p) = 36 /\ Height(p) = 9
      BY <2>1, <2>3, ExtentOf
    <3>. QED
      BY <2>2, <2>3, <3>1
  <2>. QED
    BY <1>2, <2>1, <2>3, <2>4 DEF PresetSize
<1>3. CASE p = "Pulsar"
  <2>1. PulsarCells \subseteq (0 .. 12) \X (0 .. 12)
    <3>1. /\ \A j \in {0, 5, 7, 12} :
                Row(j, {2, 3, 4, 8, 9, 10}) \subseteq (0 .. 12) \X (0 .. 12)
          /\ \A j \in {2, 3, 4, 8, 9, 10} :
                Row(j, {0, 5, 7, 12}) \subseteq (0 .. 12) \X (0 .. 12)
      BY DEF Row
    <3>. QED
      BY <3>1 DEF PulsarCells
  <2>2. <<12, 2>> \in PulsarCells /\ <<2, 12>> \in PulsarCells
    <3>1. /\ <<12, 2>> \in Row(2, {0, 5, 7, 12})
          /\ <<2, 12>> \in Row(12, {2, 3, 4, 8, 9, 10})
      BY DEF Row
    <3>2. /\ Row(2, {0, 5, 7, 12}) \subseteq PulsarCells
          /\ Row(12, {2, 3, 4, 8, 9, 10}) \subseteq PulsarCells
      BY DEF PulsarCells
    <3>. QED
      BY <3>1, <3>2
  <2>3. PatternCells[p] = PulsarCells
    BY <1>3 DEF PatternCells
  <2>4. Width(p) = 13 /\ Height(p) = 13
    <3>1. \A c, d \in PatternCells[p] :
            c[1] = 12 /\ d[2] = 12 => Width(p) = 13 /\ Height(p) = 13
      BY <2>1, <2>3, ExtentOf
    <3>. QED
      BY <2>2, <2>3, <3>1
  <2>. QED
    BY <1>3, <2>1, <2>3, <2>4 DEF PresetSize
<1>4. CASE p = "RPentomino"
  <2>1. RPentominoCells \subseteq (0 .. 2) \X (0 .. 2)
    BY DEF RPentominoCells, Row
  <2>2. <<2, 0>> \in RPentominoCells /\ <<1, 2>> \in RPentominoCells
    BY DEF RPentominoCells, Row
  <2>3. PatternCells[p] = RPentominoCells
    BY <1>4 DEF PatternCells
  <2>4. Width(p) = 3 /\ Height(p) = 3
    <3>1. \A c, d \in PatternCells[p] :
            c[1] = 2 /\ d[2] = 2 => Width(p) = 3 /\ Height(p) = 3
      BY <2>1, <2>3, ExtentOf
    <3>. QED
      BY <2>2, <2>3, <3>1
  <2>. QED
    BY <1>4, <2>1, <2>3, <2>4 DEF PresetSize
<1>5. CASE p = "Acorn"
  <2>1. AcornCells \subseteq (0 .. 6) \X (0 .. 2)
    BY DEF AcornCells, Row
  <2>2. <<6, 2>> \in AcornCells
    BY DEF AcornCells, Row
  <2>3. PatternCells[p] = AcornCells
    BY <1>5 DEF PatternCells
  <2>4. Width(p) = 7 /\ Height(p) = 3
    <3>1. \A c, d \in PatternCells[p] :
            c[1] = 6 /\ d[2] = 2 => Width(p) = 7 /\ Height(p) = 3
      BY <2>1, <2>3, ExtentOf
    <3>. QED
      BY <2>2, <2>3, <3>1
  <2>. QED
    BY <1>5, <2>1, <2>3, <2>4 DEF PresetSize
<1>. QED
  BY <1>1, <1>2, <1>3, <1>4, <1>5 DEF Presets

\* A grid without a pattern is blank.
StartsBlank == source = "nothing" => board = BlankBoard(edge) /\ age = 0

\* A preset stamped on a blank grid that it fits is on it whole.
LEMMA CentredPresetWhole ==
  ASSUME NEW n \in Nat \ {0}, NEW p \in Presets, Width(p) <= n, Height(p) <= n
  PROVE  AliveOn(StampedInto(BlankBoard(n), PresetCentred(p, n), n), n)
           = Moved(PatternCells[p], Width(p), Height(p), n \div 2, n \div 2)
<1>. DEFINE s == PresetCentred(p, n)
<1>1. Width(p) \in 0 .. n /\ Height(p) \in 0 .. n
  BY PresetBox
<1>2. /\ s \subseteq Square(n)
      /\ s = Moved(PatternCells[p], Width(p), Height(p), n \div 2, n \div 2)
  BY <1>1, PresetBox, CentredWhole DEF PresetCentred
<1>3. AliveOn(StampedInto(BlankBoard(n), s, n), n) = s
  <2>. HIDE DEF s
  <2>. QED
    BY <1>2, StampedAlive
<1>. QED
  BY <1>2, <1>3

\* A preset is stamped whole on every grid it fits.
LEMMA StampWhole ==
  ASSUME LoadTypeOK, StartsBlank, NEW p \in Presets, StampPreset(p)
  PROVE  PresetWhole'
<1>. SUFFICES ASSUME Width(p) <= edge, Height(p) <= edge
              PROVE  AliveOn(board', edge) = Moved(PatternCells[p], Width(p), Height(p),
                                                   edge \div 2, edge \div 2)
  BY PresetBox DEF StampPreset, PresetWhole, PresetFits, PresetInMiddle, Alive, InMiddle
<1>1. edge \in Nat \ {0}
  BY LoadingAssumption DEF LoadTypeOK
<1>2. board' = StampedInto(BlankBoard(edge), PresetCentred(p, edge), edge)
  BY <1>1, StampsAgree DEF StampPreset, StartsBlank
<1>. QED
  BY <1>1, <1>2, CentredPresetWhole

\* A preset that fits the grid is on it whole, whatever the grid's size, and
\* extent is its true extent.
THEOREM PresetSafe == LoadSpec => [](StartsBlank /\ PresetWhole)
<1>1. LoadInit => StartsBlank /\ PresetWhole
  <2>. SUFFICES ASSUME LoadInit PROVE StartsBlank /\ PresetWhole
    OBVIOUS
  <2>1. edge \in Nat \ {0} /\ source = "Glider" /\ "Glider" \in Presets
    BY LoadingAssumption DEF LoadInit, Presets
  <2>2. board = StampedInto(BlankBoard(edge), PresetCentred("Glider", edge), edge)
    BY DEF LoadInit, GliderSeed
  <2>3. PresetFits(source) => Alive = PresetInMiddle(source)
    <3>1. Width("Glider") <= edge /\ Height("Glider") <= edge =>
            AliveOn(board, edge)
              = Moved(PatternCells["Glider"], Width("Glider"), Height("Glider"),
                      edge \div 2, edge \div 2)
      BY <2>1, <2>2, CentredPresetWhole
    <3>. QED
      BY <2>1, <3>1, PresetBox DEF PresetFits, PresetInMiddle, Alive, InMiddle
  <2>. QED
    BY <2>1, <2>3 DEF StartsBlank, PresetWhole
<1>2. LoadTypeOK /\ StartsBlank /\ PresetWhole /\ [LoadNext]_loadVars
        => StartsBlank' /\ PresetWhole'
  <2>. SUFFICES ASSUME LoadTypeOK, StartsBlank, PresetWhole, [LoadNext]_loadVars
                PROVE  StartsBlank' /\ PresetWhole'
    OBVIOUS
  <2>1. CASE UNCHANGED gridVars
    BY <2>1 DEF gridVars, StartsBlank, PresetWhole, PresetFits, PresetInMiddle, Alive,
       InMiddle
  <2>2. CASE Load
    BY <2>2 DEF Load, StartsBlank, PresetWhole, Presets
  <2>3. CASE Tick
    <3>1. age' # 0 /\ source' # "nothing"
      BY <2>3 DEF Tick, LoadTypeOK
    <3>. QED
      BY <3>1 DEF StartsBlank, PresetWhole
  <2>4. ASSUME NEW p \in Presets, StampPreset(p) PROVE StartsBlank' /\ PresetWhole'
    BY <2>4, StampWhole DEF StampPreset, StartsBlank, Presets
  <2>5. ASSUME NEW n \in Edges, Resize(n) PROVE StartsBlank' /\ PresetWhole'
    BY <2>5 DEF Resize, StartsBlank, PresetWhole, Presets
  <2>6. ASSUME NEW at \in Positions \X Positions, Paint(at)
        PROVE  StartsBlank' /\ PresetWhole'
    BY <2>6 DEF Paint, StartsBlank, PresetWhole, Presets
  <2>. QED
    BY <2>1, <2>2, <2>3, <2>4, <2>5, <2>6 DEF LoadNext, Parse, Refuse, loadVars
<1>. QED
  BY <1>1, <1>2, LoadTypeCorrect, PTL DEF LoadSpec

-----------------------------------------------------------------------------
(***************************************************************************)
(* Painting.                                                               *)
(***************************************************************************)

\* What a quotient is.
LEMMA Quotient ==
  ASSUME NEW a \in Nat, NEW d \in Nat \ {0}
  PROVE  /\ a \div d \in Nat
         /\ (a \div d) * d <= a
         /\ a < (a \div d) * d + d
OBVIOUS

\* The column under the pointer is a column, and the one that the shader
\* samples for the pixel there is within the brush.
LEMMA SampledNear ==
  ASSUME NEW n \in Nat \ {0}, NEW p \in Positions,
         n <= 2 * Pixels * Radius(n)
  PROVE  Sampled(PixelAt(p), n) \in Reached(p, n)
<1>. DEFINE d == 2 * Pixels
            r == Radius(n)
            k == PixelAt(p)
            m == (2 * k + 1) * n
            q == m \div d
            u == UnderPointer(p, n)
<1>1. d \in Nat \ {0} /\ r \in {1, 2} /\ n <= d * r
  BY PaintingAssumption DEF Radius
<1>2. p \in 0 .. d /\ k \in 0 .. Pixels - 1
  BY PaintingAssumption DEF Positions, PixelAt
<1>3. 2 * k + 1 <= p + 1 /\ p <= 2 * k + 2 /\ 2 * k + 1 \in 0 .. d
  BY <1>2, PaintingAssumption DEF PixelAt
<1>4. /\ m \in Nat /\ p * n \in Nat
      /\ m <= p * n + n /\ p * n <= m + n
  <2>1. m = 2 * (k * n) + n /\ k * n \in Int /\ p * n \in Int
    BY <1>2
  <2>2. \A i, j \in Nat : i <= j => i * n <= j * n
    OBVIOUS
  <2>3. (2 * k + 1) * n <= (p + 1) * n /\ p * n <= (2 * k + 2) * n
    BY <1>2, <1>3, <2>2
  <2>4. (p + 1) * n = p * n + n /\ (2 * k + 2) * n = m + n
    BY <1>2
  <2>. QED
    BY <1>2, <2>3, <2>4
<1>5. q \in Nat /\ q * d <= m /\ m < q * d + d
  BY <1>1, <1>4, Quotient
<1>6. q <= n - 1
  <2>1. m < d * n
    BY <1>2, PaintingAssumption
  <2>2. q >= n => q * d >= n * d
    BY <1>1, <1>5
  <2>3. n * d = d * n /\ n * d \in Int /\ q * d \in Int
    BY <1>1, <1>5
  <2>. QED
    BY <1>4, <1>5, <2>1, <2>2, <2>3
<1>7. Sampled(k, n) = q
  BY <1>5, <1>6 DEF Sampled
<1>8. /\ u \in Int /\ u * d <= p * n
      /\ p # d => u \in Nat /\ p * n < u * d + d
      /\ p = d => u = n - 1
  <2>1. CASE p = d
    <3>1. u = n - 1 /\ (n - 1) * d = n * d - d /\ p * n = n * d /\ n * d \in Int
      BY <1>1, <2>1 DEF UnderPointer
    <3>2. (n - 1) * d <= p * n
      BY <1>1, <3>1
    <3>. QED
      BY <2>1, <3>1, <3>2
  <2>2. CASE p # d
    <3>1. u = (p * n) \div d
      BY <2>2 DEF UnderPointer
    <3>. QED
      BY <1>1, <1>4, <2>2, <3>1, Quotient
  <2>. QED
    BY <2>1, <2>2
<1>. DEFINE D == q * d
            U == u * d
            R == r * d
            M == p * n
<1>9. /\ D \in Int /\ U \in Int /\ R \in Int /\ M \in Int
      /\ D <= m /\ m < D + d /\ U <= M /\ n <= R
      /\ p # d => M < U + d
      /\ m <= M + n /\ M <= m + n
  <2>1. R = d * r
    BY <1>1
  <2>. QED
    BY <1>1, <1>4, <1>5, <1>8, <2>1
<1>10. q >= u - r
  <2>. SUFFICES ASSUME q + 1 + r <= u PROVE FALSE
    BY <1>1, <1>5, <1>8
  <2>1. (q + 1 + r) * d <= u * d
    BY <1>1, <1>5, <1>8
  <2>2. (q + 1 + r) * d = D + d + R
    BY <1>1, <1>5
  <2>. HIDE DEF D, U, R, M, d, m
  <2>3. D + d + R <= U
    BY <2>1, <2>2 DEF U
  <2>. QED
    BY <1>1, <1>4, <1>9, <2>3
<1>11. q <= u + r
  <2>1. CASE p = d
    BY <1>1, <1>5, <1>6, <1>8, <2>1
  <2>2. CASE p # d
    <3>. SUFFICES ASSUME u + r + 1 <= q PROVE FALSE
      BY <1>1, <1>5, <1>8
    <3>1. (u + r + 1) * d <= q * d
      BY <1>1, <1>5, <1>8
    <3>2. (u + r + 1) * d = U + R + d
      BY <1>1, <1>8
    <3>. HIDE DEF D, U, R, M, d, m
    <3>3. U + R + d <= D
      BY <3>1, <3>2 DEF D
    <3>. QED
      BY <1>1, <1>4, <1>9, <2>2, <3>3
  <2>. QED
    BY <2>1, <2>2
<1>. QED
  BY <1>5, <1>6, <1>7, <1>10, <1>11 DEF Reached, Coords

\* A dab is cells of the grid.
LEMMA DabOnGrid ==
  ASSUME NEW n, NEW at
  PROVE  Dab(at, n) \subseteq Square(n)
BY DEF Dab, Reached, Square

\* On every grid that the radius is meant for, whatever the position, the dab
\* shows under the pointer, and nothing else is painted.
THEOREM PaintSafe == LoadSpec => [](StartsBlank /\ PaintShows)
<1>1. LoadInit => PaintShows
  BY DEF LoadInit, PaintShows
<1>2. LoadTypeOK /\ StartsBlank /\ PaintShows /\ [LoadNext]_loadVars => PaintShows'
  <2>. SUFFICES ASSUME LoadTypeOK, StartsBlank, PaintShows, [LoadNext]_loadVars
                PROVE  PaintShows'
    OBVIOUS
  <2>1. CASE UNCHANGED gridVars
    BY <2>1 DEF gridVars, PaintShows, Alive
  <2>2. ASSUME NEW at \in Positions \X Positions, Paint(at) PROVE PaintShows'
    <3>. DEFINE s == Dab(at, edge)
    <3>1. edge \in Nat \ {0} /\ s \in SUBSET Square(edge)
      BY LoadingAssumption, DabOnGrid DEF LoadTypeOK
    <3>2. board' = StampedInto(BlankBoard(edge), s, edge) /\ edge' = edge /\ pointer' = at
      BY <2>2, <3>1, StampsAgree DEF Paint, StartsBlank
    <3>. HIDE DEF s
    <3>3. AliveOn(board', edge) = s
      BY <3>1, <3>2, StampedAlive
    <3>4. ASSUME edge <= 2 * Pixels * Radius(edge)
          PROVE  Shaded(board', PixelAt(at[1]), PixelAt(at[2]), edge) = 1
      <4>1. <<Sampled(PixelAt(at[1]), edge), Sampled(PixelAt(at[2]), edge)>> \in s
        BY <3>1, <3>4, SampledNear DEF s, Dab
      <4>. QED
        BY <3>3, <4>1 DEF AliveOn, Shaded
    <3>. QED
      BY <3>2, <3>3, <3>4 DEF PaintShows, Alive, s
  <2>3. CASE source' # "brush"
    BY <2>3 DEF PaintShows
  <2>4. CASE Tick
    BY <2>4 DEF Tick, PaintShows
  <2>. QED
    BY <2>1, <2>2, <2>3, <2>4
       DEF LoadNext, Parse, Load, Refuse, StampPreset, Resize, Presets, loadVars
<1>. QED
  BY <1>1, <1>2, LoadTypeCorrect, PresetSafe, PTL DEF LoadSpec

-----------------------------------------------------------------------------
(***************************************************************************)
(* Running.                                                                *)
(***************************************************************************)

\* A tick takes the live cells to their next generation.
LEMMA TickAlive ==
  ASSUME LoadTypeOK, Tick
  PROVE  /\ AliveOn(board', edge') = GenerationOf(AliveOn(board, edge), edge)
         /\ edge' = edge /\ source' = source /\ age' = age + 1
<1>1. edge \in Nat \ {0} /\ board \in Boards(edge)
  BY LoadingAssumption DEF LoadTypeOK, Boards
<1>2. board' = [i \in Cells(edge) |-> CpuCell(board, edge, i % edge, i \div edge)]
  BY DEF Tick
<1>. QED
  BY <1>1, <1>2, GenerationAlive DEF Tick

\* The glider through all its ages: in its phase, and as far down the diagonal
\* as the completed periods brought it.
GliderOnCourse ==
  source = "Glider" /\ edge > 4 =>
    Alive = Diagonally(GliderPhases[age % 4], edge, edge \div 2 - 1 + age \div 4)

\* The glider of the table in the middle of the grid is its first phase.
LEMMA GliderInMiddle ==
  ASSUME NEW n \in Nat, n > 4
  PROVE  Moved(PatternCells["Glider"], 3, 3, n \div 2, n \div 2)
           = Diagonally(GliderPhases[0], n, n \div 2 - 1)
<1>. DEFINE d == n \div 2 - 1
<1>1. d \in Nat /\ d + 2 < n
  OBVIOUS
<1>2. PatternCells["Glider"] = GliderCells /\ GliderPhases[0] = GliderCells
  BY DEF PatternCells, GliderPhases
<1>3. \A c \in GliderCells : c[1] \in 0 .. 2 /\ c[2] \in 0 .. 2
  BY DEF GliderCells, Row
<1>4. \A i \in 0 .. 2 : n \div 2 - 3 \div 2 + i = i + d /\ (i + d) % n = i + d
  BY <1>1
<1>. HIDE DEF d
<1>. QED
  BY <1>2, <1>3, <1>4 DEF Moved, Diagonally, d

\* One generation further, it is in its next phase, or in its first and a cell
\* further.
LEMMA GliderTick ==
  ASSUME NEW n \in Nat, n > 4, NEW a \in Nat, NEW d \in Nat
  PROVE  GenerationOf(Diagonally(GliderPhases[a % 4], n, d + a \div 4), n)
           = Diagonally(GliderPhases[(a + 1) % 4], n, d + (a + 1) \div 4)
<1>. DEFINE k == a % 4
            m == d + a \div 4
<1>1. k \in 0 .. 3 /\ m \in Nat /\ n \in Nat \ {0}
  OBVIOUS
<1>2. /\ GliderPhases[k] \in SUBSET Square(n)
      /\ k \in 0 .. 2 => GenerationOf(GliderPhases[k], n) = GliderPhases[k + 1]
      /\ GenerationOf(GliderPhases[3], n) = {<<c[1] + 1, c[2] + 1>> : c \in GliderCells}
  BY <1>1, GliderGenerations
<1>3. GenerationOf(Diagonally(GliderPhases[k], n, m), n)
        = Diagonally(GenerationOf(GliderPhases[k], n), n, m)
  BY <1>1, <1>2, GenerationMoves
<1>4. CASE k # 3
  <2>1. (a + 1) % 4 = k + 1 /\ d + (a + 1) \div 4 = m
    BY <1>4
  <2>. QED
    BY <1>1, <1>2, <1>3, <1>4, <2>1
<1>5. CASE k = 3
  <2>1. (a + 1) % 4 = 0 /\ d + (a + 1) \div 4 = m + 1
    BY <1>5
  <2>2. GliderPhases[0] = GliderCells /\ GliderCells \in SUBSET (Int \X Int)
    BY DEF GliderPhases, GliderCells, Row
  <2>. HIDE DEF m, k
  <2>3. Diagonally({<<c[1] + 1, c[2] + 1>> : c \in GliderCells}, n, m)
          = Diagonally(GliderCells, n, m + 1)
    BY <1>1, <2>2, MovedByOne
  <2>. QED
    BY <1>2, <1>3, <1>5, <2>1, <2>2, <2>3 DEF m, k
<1>. QED
  BY <1>4, <1>5

\* The glider is on course at every age, on every torus that is wider than
\* itself by two.
LEMMA GliderCourse == LoadSpec => []GliderOnCourse
<1>1. LoadTypeOK /\ PresetWhole /\ age = 0 => GliderOnCourse
  <2>. SUFFICES ASSUME LoadTypeOK, PresetWhole, age = 0, source = "Glider", edge > 4
                PROVE  GliderOnCourse
    BY DEF GliderOnCourse
  <2>1. edge \in Nat /\ "Glider" \in Presets /\ PresetSize["Glider"] = <<3, 3>>
    BY LoadingAssumption DEF LoadTypeOK, Presets, PresetSize
  <2>2. Alive = Moved(PatternCells["Glider"], 3, 3, edge \div 2, edge \div 2)
    BY <2>1 DEF PresetWhole, PresetFits, PresetInMiddle, InMiddle
  <2>3. 0 % 4 = 0 /\ edge \div 2 - 1 + 0 \div 4 = edge \div 2 - 1
    BY <2>1
  <2>. QED
    BY <2>1, <2>2, <2>3, GliderInMiddle DEF GliderOnCourse
<1>2. LoadInit => age = 0
  BY DEF LoadInit
<1>3. LoadTypeOK /\ LoadTypeOK' /\ StartsBlank /\ PresetWhole' /\ GliderOnCourse
        /\ [LoadNext]_loadVars => GliderOnCourse'
  <2>. SUFFICES ASSUME LoadTypeOK, LoadTypeOK', StartsBlank, PresetWhole', GliderOnCourse,
                       [LoadNext]_loadVars
                PROVE  GliderOnCourse'
    OBVIOUS
  <2>1. CASE UNCHANGED gridVars
    BY <2>1 DEF gridVars, GliderOnCourse, Alive
  <2>2. CASE source' # "Glider"
    BY <2>2 DEF GliderOnCourse
  <2>3. CASE Tick
    <3>. SUFFICES ASSUME source = "Glider", edge > 4
                  PROVE  AliveOn(board', edge)
                           = Diagonally(GliderPhases[(age + 1) % 4], edge,
                                        edge \div 2 - 1 + (age + 1) \div 4)
      BY <2>3, TickAlive DEF GliderOnCourse, Alive
    <3>1. edge \in Nat /\ age \in Nat
      BY LoadingAssumption DEF LoadTypeOK
    <3>2. edge \div 2 - 1 \in Nat
      BY <3>1
    <3>3. AliveOn(board', edge) = GenerationOf(Alive, edge)
      BY <2>3, TickAlive DEF Alive
    <3>4. Alive = Diagonally(GliderPhases[age % 4], edge, edge \div 2 - 1 + age \div 4)
      BY DEF GliderOnCourse
    <3>5. GenerationOf(Diagonally(GliderPhases[age % 4], edge,
                                  edge \div 2 - 1 + age \div 4), edge)
            = Diagonally(GliderPhases[(age + 1) % 4], edge,
                         edge \div 2 - 1 + (age + 1) \div 4)
      BY <3>1, <3>2, GliderTick
    <3>. QED
      BY <3>3, <3>4, <3>5
  <2>4. ASSUME NEW p \in Presets, StampPreset(p) PROVE GliderOnCourse'
    <3>1. age' = 0
      BY <2>4 DEF StampPreset, StartsBlank
    <3>2. (LoadTypeOK /\ PresetWhole /\ age = 0 => GliderOnCourse)'
      BY <1>1, PTL
    <3>. QED
      BY <3>1, <3>2
  <2>. QED
    BY <2>1, <2>2, <2>3, <2>4
       DEF LoadNext, Parse, Load, Refuse, Paint, Resize, Presets, loadVars
<1>. QED
  BY <1>1, <1>2, <1>3, LoadTypeCorrect, PresetSafe, PTL DEF LoadSpec

\* "Travels diagonally with period 4": after every fourth generation, for ever
\* and on every torus it does not meet itself on, the glider is whole and one
\* cell further.
THEOREM GliderSafe == LoadSpec => []GliderTravels
<1>1. LoadTypeOK /\ GliderOnCourse => GliderTravels
  <2>. SUFFICES ASSUME LoadTypeOK, GliderOnCourse, source = "Glider", edge > 4, age % 4 = 0
                PROVE  Alive = Shifted(InMiddle(PatternCells["Glider"], 3, 3),
                                       age \div 4, age \div 4)
    BY DEF GliderTravels
  <2>. DEFINE d == edge \div 2 - 1
              k == age \div 4
              middle == InMiddle(PatternCells["Glider"], 3, 3)
  <2>1. edge \in Nat /\ d \in Nat /\ d + 2 < edge /\ k \in Nat
    BY LoadingAssumption DEF LoadTypeOK
  <2>2. PatternCells["Glider"] = GliderCells /\ GliderPhases[0] = GliderCells
    BY DEF PatternCells, GliderPhases
  <2>3. \A c \in GliderCells : c[1] \in 0 .. 2 /\ c[2] \in 0 .. 2
    BY DEF GliderCells, Row
  <2>4. middle = {<<c[1] + d, c[2] + d>> : c \in GliderCells}
    <3>1. \A i \in 0 .. 2 : edge \div 2 - 3 \div 2 + i = i + d
      BY <2>1
    <3>. HIDE DEF d
    <3>. QED
      BY <2>2, <2>3, <3>1 DEF InMiddle, Moved
  <2>5. Shifted(middle, k, k) = Diagonally(middle, edge, k)
    BY DEF Shifted, Diagonally
  <2>6. Diagonally(middle, edge, k) = Diagonally(GliderCells, edge, k + d)
    <3>1. GliderCells \in SUBSET (Int \X Int)
      BY DEF GliderCells, Row
    <3>. HIDE DEF d, k, middle
    <3>. QED
      BY <2>1, <2>4, <3>1, MovedOnce
  <2>7. Alive = Diagonally(GliderCells, edge, k + d)
    <3>1. k + d = d + k
      BY <2>1
    <3>. QED
      BY <2>2, <3>1 DEF GliderOnCourse
  <2>. QED
    BY <2>5, <2>6, <2>7
<1>. QED
  BY <1>1, GliderCourse, LoadTypeCorrect, PTL

\* The pulsar through all its ages.
PulsarOnCourse ==
  source = "Pulsar" /\ edge > 15 =>
    Alive = Diagonally(PulsarPhases[age % 3], edge, edge \div 2 - 7)

\* The pulsar of the table in the middle of the grid is its first phase.
LEMMA PulsarInMiddle ==
  ASSUME NEW n \in Nat, n > 15
  PROVE  Moved(PatternCells["Pulsar"], 13, 13, n \div 2, n \div 2)
           = Diagonally(PulsarPhases[0], n, n \div 2 - 7)
<1>. DEFINE d == n \div 2 - 7
<1>1. d \in Nat /\ d + 13 < n
  OBVIOUS
<1>2. PatternCells["Pulsar"] = PulsarCells
  BY DEF PatternCells
<1>3. PulsarCells \subseteq (0 .. 12) \X (0 .. 12)
  BY <1>2, PresetBox DEF Presets, PresetSize
<1>4. Diagonally(PulsarPhases[0], n, d) = Diagonally(PulsarCells, n, d + 1)
  <2>1. PulsarCells \in SUBSET (Int \X Int)
    BY <1>3
  <2>2. PulsarPhases[0] = {<<c[1] + 1, c[2] + 1>> : c \in PulsarCells}
    BY PulsarGenerations
  <2>. HIDE DEF d
  <2>. QED
    BY <1>1, <2>1, <2>2, MovedByOne
<1>5. \A c \in PulsarCells : c[1] \in 0 .. 12 /\ c[2] \in 0 .. 12
  BY <1>3
<1>6. \A i \in 0 .. 12 :
        n \div 2 - 13 \div 2 + i = i + (d + 1) /\ (i + (d + 1)) % n = i + (d + 1)
  BY <1>1
<1>. HIDE DEF d
<1>7. Moved(PulsarCells, 13, 13, n \div 2, n \div 2) = Diagonally(PulsarCells, n, d + 1)
  BY <1>5, <1>6 DEF Moved, Diagonally
<1>. QED
  BY <1>2, <1>4, <1>7 DEF d

\* The pulsar is on course at every age.
LEMMA PulsarCourse == LoadSpec => []PulsarOnCourse
<1>1. LoadTypeOK /\ PresetWhole /\ age = 0 => PulsarOnCourse
  <2>. SUFFICES ASSUME LoadTypeOK, PresetWhole, age = 0, source = "Pulsar", edge > 15
                PROVE  PulsarOnCourse
    BY DEF PulsarOnCourse
  <2>1. edge \in Nat /\ "Pulsar" \in Presets /\ PresetSize["Pulsar"] = <<13, 13>>
    BY LoadingAssumption DEF LoadTypeOK, Presets, PresetSize
  <2>2. Alive = Moved(PatternCells["Pulsar"], 13, 13, edge \div 2, edge \div 2)
    BY <2>1 DEF PresetWhole, PresetFits, PresetInMiddle, InMiddle
  <2>. QED
    BY <2>1, <2>2, PulsarInMiddle DEF PulsarOnCourse
<1>2. LoadInit => age = 0
  BY DEF LoadInit
<1>3. LoadTypeOK /\ LoadTypeOK' /\ StartsBlank /\ PresetWhole' /\ PulsarOnCourse
        /\ [LoadNext]_loadVars => PulsarOnCourse'
  <2>. SUFFICES ASSUME LoadTypeOK, LoadTypeOK', StartsBlank, PresetWhole', PulsarOnCourse,
                       [LoadNext]_loadVars
                PROVE  PulsarOnCourse'
    OBVIOUS
  <2>1. CASE UNCHANGED gridVars
    BY <2>1 DEF gridVars, PulsarOnCourse, Alive
  <2>2. CASE source' # "Pulsar"
    BY <2>2 DEF PulsarOnCourse
  <2>3. CASE Tick
    <3>. DEFINE k == age % 3
                d == edge \div 2 - 7
    <3>. SUFFICES ASSUME source = "Pulsar", edge > 15
                  PROVE  AliveOn(board', edge)
                           = Diagonally(PulsarPhases[(age + 1) % 3], edge, d)
      BY <2>3, TickAlive DEF PulsarOnCourse, Alive
    <3>1. edge \in Nat \ {0} /\ age \in Nat
      BY LoadingAssumption DEF LoadTypeOK
    <3>2. d \in Nat /\ k \in 0 .. 2 /\ (age + 1) % 3 = (k + 1) % 3
      BY <3>1
    <3>3. AliveOn(board', edge) = GenerationOf(Diagonally(PulsarPhases[k], edge, d), edge)
      BY <2>3, TickAlive DEF PulsarOnCourse, Alive
    <3>4. /\ PulsarPhases[k] \in SUBSET Square(edge)
          /\ GenerationOf(PulsarPhases[k], edge) = PulsarPhases[(k + 1) % 3]
      BY <3>1, <3>2, PulsarGenerations
    <3>. HIDE DEF k, d
    <3>5. GenerationOf(Diagonally(PulsarPhases[k], edge, d), edge)
            = Diagonally(GenerationOf(PulsarPhases[k], edge), edge, d)
      BY <3>1, <3>2, <3>4, GenerationMoves
    <3>. QED
      BY <3>2, <3>3, <3>4, <3>5
  <2>4. ASSUME NEW p \in Presets, StampPreset(p) PROVE PulsarOnCourse'
    <3>1. age' = 0
      BY <2>4 DEF StampPreset, StartsBlank
    <3>2. (LoadTypeOK /\ PresetWhole /\ age = 0 => PulsarOnCourse)'
      BY <1>1, PTL
    <3>. QED
      BY <3>1, <3>2
  <2>. QED
    BY <2>1, <2>2, <2>3, <2>4
       DEF LoadNext, Parse, Load, Refuse, Paint, Resize, Presets, loadVars
<1>. QED
  BY <1>1, <1>2, <1>3, LoadTypeCorrect, PresetSafe, PTL DEF LoadSpec

\* "Oscillator with period 3", and not less, on every torus it does not meet
\* itself on, for ever.
THEOREM PulsarSafe == LoadSpec => []PulsarOscillates
<1>1. LoadTypeOK /\ PulsarOnCourse => PulsarOscillates
  <2>. SUFFICES ASSUME LoadTypeOK, PulsarOnCourse, source = "Pulsar", edge > 15
                PROVE  age % 3 = 0 <=> Alive = InMiddle(PatternCells["Pulsar"], 13, 13)
    BY DEF PulsarOscillates
  <2>. DEFINE k == age % 3
              d == edge \div 2 - 7
  <2>1. edge \in Nat \ {0} /\ d \in Nat /\ k \in 0 .. 2
    BY LoadingAssumption DEF LoadTypeOK
  <2>2. /\ \A j \in 0 .. 2 : PulsarPhases[j] \in SUBSET Square(edge)
        /\ PulsarPhases[1] # PulsarPhases[0] /\ PulsarPhases[2] # PulsarPhases[0]
    BY <2>1, PulsarGenerations
  <2>3. InMiddle(PatternCells["Pulsar"], 13, 13) = Diagonally(PulsarPhases[0], edge, d)
    BY <2>1, PulsarInMiddle DEF InMiddle
  <2>4. Alive = Diagonally(PulsarPhases[k], edge, d)
    BY DEF PulsarOnCourse
  <2>. HIDE DEF d, k
  <2>5. Diagonally(PulsarPhases[k], edge, d) = Diagonally(PulsarPhases[0], edge, d)
          => PulsarPhases[k] = PulsarPhases[0]
    BY <2>1, <2>2, GenerationMoves
  <2>6. k = 0 <=> Alive = InMiddle(PatternCells["Pulsar"], 13, 13)
    <3>1. k = 0 \/ k = 1 \/ k = 2
      BY <2>1
    <3>. QED
      BY <2>2, <2>3, <2>4, <2>5, <3>1
  <2>. QED
    BY <2>6 DEF k
<1>. QED
  BY <1>1, PulsarCourse, LoadTypeCorrect, PTL

-----------------------------------------------------------------------------
(***************************************************************************)
(* The engine's grids are boards.  The bound on the generations of a step  *)
(* is here that on the age.                                                *)
(***************************************************************************)
Data(first) == INSTANCE GridData WITH
  Sizes <- Edges, InitialGrid <- first, Grids <- GridsOn(Edges),
  Seeds <- [Nat -> {0, 1}], Strokes <- SUBSET (Nat \X Nat), MaxTicks <- MaxAge,
  SizeOf <- EdgeOf, Blank <- BlankGrid, Seeded <- SeedGrid,
  LifeN <- Generations, Stamped <- StampedGrid, Soup <- SoupGrid

\* The recursion of Generations has a solution: a grid after no generation is
\* the grid, and after one more it is the next generation of what it was.
LEMMA GenerationsAre ==
  ASSUME NEW n \in Nat \ {0}, NEW b \in Boards(n)
  PROVE  /\ Generations(<<n, b>>, 0) = <<n, b>>
         /\ \A t \in Nat :
              LET g == Generations(<<n, b>>, t)
              IN  /\ g \in {n} \X Boards(n)
                  /\ Generations(<<n, b>>, t + 1) = <<n, Life(g[2], n)>>
<1>. DEFINE Solves(f, m) == /\ f \in [0 .. m -> Boards(n)]
                            /\ f[0] = b
                            /\ \A i \in 1 .. m : f[i] = Life(f[i - 1], n)
            T == {m \in Nat : \E f : Solves(f, m)}
<1>1. 0 \in T
  <2>1. Solves([i \in 0 .. 0 |-> b], 0)
    OBVIOUS
  <2>. QED
    BY <2>1
<1>2. ASSUME NEW m \in T PROVE m + 1 \in T
  <2>1. PICK f : Solves(f, m)
    OBVIOUS
  <2>. DEFINE g == [i \in 0 .. m + 1 |-> IF i = m + 1 THEN Life(f[m], n) ELSE f[i]]
  <2>2. m \in Nat /\ f[m] \in Boards(n)
    BY <2>1
  <2>3. Life(f[m], n) \in Boards(n)
    BY <2>2, LifeOfBoard
  <2>4. g \in [0 .. m + 1 -> Boards(n)] /\ g[0] = b
    BY <2>1, <2>2, <2>3
  <2>5. ASSUME NEW i \in 1 .. m + 1 PROVE g[i] = Life(g[i - 1], n)
    <3>1. CASE i = m + 1
      BY <2>2, <3>1
    <3>2. CASE i # m + 1
      <4>1. i \in 1 .. m /\ g[i] = f[i] /\ g[i - 1] = f[i - 1]
        BY <2>2, <3>2
      <4>. QED
        BY <2>1, <4>1
    <3>. QED
      BY <3>1, <3>2
  <2>6. Solves(g, m + 1)
    <3>. HIDE DEF g
    <3>. QED
      BY <2>4, <2>5
  <2>. HIDE DEF Solves, g
  <2>7. m + 1 \in Nat /\ \E h : Solves(h, m + 1)
    BY <2>2, <2>6
  <2>. QED
    BY <2>7
<1>3. \A m \in Nat : \E f : Solves(f, m)
  <2>. HIDE DEF T
  <2>1. T = Nat
    BY <1>1, <1>2, AllNumbers DEF T
  <2>. QED
    BY <2>1 DEF T
<1>4. ASSUME NEW k \in Nat, NEW m \in Nat, k <= m, NEW f, NEW h, Solves(f, k), Solves(h, m)
      PROVE  f[k] = h[k]
  <2>. DEFINE U == {i \in Nat : i <= k => f[i] = h[i]}
  <2>1. 0 \in U
    BY <1>4
  <2>2. ASSUME NEW i \in U PROVE i + 1 \in U
    <3>1. SUFFICES ASSUME i + 1 <= k PROVE f[i + 1] = h[i + 1]
      OBVIOUS
    <3>2. i + 1 \in 1 .. k /\ i + 1 \in 1 .. m /\ (i + 1) - 1 = i /\ f[i] = h[i]
      BY <1>4, <3>1
    <3>. QED
      BY <1>4, <3>2
  <2>. HIDE DEF U
  <2>3. U = Nat
    BY <2>1, <2>2, AllNumbers DEF U
  <2>. QED
    BY <2>3 DEF U
<1>. DEFINE course == [k \in Nat |-> CHOOSE f : Solves(f, k)]
            sum == [k \in Nat |-> course[k][k]]
            Turn(v) == [k \in Nat |-> IF k = 0 THEN b ELSE Life(v[k - 1], n)]
<1>. HIDE DEF Solves
<1>5. \A k \in Nat : Solves(course[k], k)
  BY <1>3
<1>6. sum = Turn(sum)
  <2>1. ASSUME NEW k \in Nat, k # 0 PROVE sum[k] = Life(sum[k - 1], n)
    <3>1. k - 1 \in Nat /\ k - 1 <= k /\ k \in 1 .. k
      BY <2>1
    <3>2. Solves(course[k - 1], k - 1) /\ Solves(course[k], k)
      BY <1>5, <3>1
    <3>. HIDE DEF course
    <3>3. course[k - 1][k - 1] = course[k][k - 1]
      BY <1>4, <3>1, <3>2
    <3>4. course[k][k] = Life(course[k][k - 1], n)
      BY <3>1, <3>2 DEF Solves
    <3>. QED
      BY <3>1, <3>3, <3>4
  <2>2. sum[0] = b
    <3>1. Solves(course[0], 0)
      BY <1>5
    <3>. HIDE DEF course
    <3>. QED
      BY <3>1 DEF Solves
  <2>. HIDE DEF course
  <2>3. \A k \in Nat : sum[k] = IF k = 0 THEN b ELSE Life(sum[k - 1], n)
    <3>. HIDE DEF sum
    <3>. QED
      BY <2>1, <2>2
  <2>. QED
    BY <2>3
<1>. DEFINE after == CHOOSE v : v = Turn(v)
<1>7. after = Turn(after)
  <2>. HIDE DEF Turn, sum
  <2>. QED
    BY <1>6
<1>8. \A t : Generations(<<n, b>>, t) = <<n, after[t]>>
  BY DEF Generations
<1>. HIDE DEF after
<1>9. after[0] = b /\ \A t \in Nat : after[t + 1] = Life(after[t], n)
  <2>1. \A t \in Nat : t + 1 \in Nat /\ t + 1 # 0 /\ (t + 1) - 1 = t
    OBVIOUS
  <2>. QED
    BY <1>7, <2>1
<1>10. \A t \in Nat : after[t] \in Boards(n)
  <2>. DEFINE U == {t \in Nat : after[t] \in Boards(n)}
  <2>1. 0 \in U
    BY <1>9
  <2>2. \A t \in U : t + 1 \in U
    BY <1>9, LifeOfBoard
  <2>. HIDE DEF U
  <2>3. U = Nat
    BY <2>1, <2>2, AllNumbers DEF U
  <2>. QED
    BY <2>3 DEF U
<1>. QED
  BY <1>8, <1>9, <1>10

\* A generation of a grid is what the shader computes cell by cell, and what
\* the CPU computes.
THEOREM KernelsRunGrids ==
  ASSUME NEW n \in Nat \ {0}, NEW b \in Boards(n), NEW t \in Nat
  PROVE  LET g == Generations(<<n, b>>, t)
             next == Generations(<<n, b>>, t + 1)
         IN  /\ next = <<n, [i \in Cells(n) |-> GpuCell(g[2], n, i % n, i \div n)]>>
             /\ next = <<n, [i \in Cells(n) |-> CpuCell(g[2], n, i % n, i \div n)]>>
<1>. DEFINE now == Generations(<<n, b>>, t)[2]
<1>1. now \in Boards(n) /\ Generations(<<n, b>>, t + 1) = <<n, Life(now, n)>>
  BY GenerationsAre
<1>. HIDE DEF now
<1>2. \A i \in Cells(n) : i % n \in Coords(n) /\ i \div n \in Coords(n)
  BY CellCoords
<1>3. \A i \in Cells(n) : /\ GpuCell(now, n, i % n, i \div n) = Life(now, n)[i]
                         /\ CpuCell(now, n, i % n, i \div n) = Life(now, n)[i]
  BY <1>1, <1>2, KernelsCompute DEF Life
<1>4. /\ [i \in Cells(n) |-> GpuCell(now, n, i % n, i \div n)] = Life(now, n)
      /\ [i \in Cells(n) |-> CpuCell(now, n, i % n, i \div n)] = Life(now, n)
  BY <1>3 DEF Life
<1>. QED
  BY <1>1, <1>4 DEF now

\* What GridData assumes of what the engine does to a grid, its boards do:
\* every theorem about the engine is one about Life on boards of any size.
THEOREM BoardsAreGrids == \A first \in Edges : Data(first)!GridsBehave
<1>. SUFFICES ASSUME NEW first \in Edges PROVE Data(first)!GridsBehave
  OBVIOUS
<1>1. Edges \subseteq Nat \ {0} /\ MaxAge \in Nat
  BY LoadingAssumption
<1>2. ASSUME NEW g \in GridsOn(Edges)
      PROVE  /\ g = <<g[1], g[2]>>
             /\ EdgeOf(g) = g[1]
             /\ g[1] \in Edges /\ g[1] \in Nat \ {0}
             /\ g[2] \in Boards(g[1])
  BY <1>1 DEF GridsOn, EdgeOf
<1>3. ASSUME NEW n \in Edges, NEW b \in Boards(n)
      PROVE  <<n, b>> \in Data(first)!GridsOf(n)
  BY DEF Data!GridsOf, GridsOn, EdgeOf
<1>4. ASSUME NEW n \in Edges
      PROVE  {BlankGrid(n), SeedGrid(n)} \subseteq Data(first)!GridsOf(n)
  <2>1. BlankBoard(n) \in Boards(n)
    BY DEF BlankBoard, Boards
  <2>2. GliderSeed(n) \in Boards(n)
    BY <2>1 DEF GliderSeed, StampedInto, Boards
  <2>. QED
    BY <1>3, <2>1, <2>2 DEF BlankGrid, SeedGrid
<1>5. ASSUME NEW n \in Edges, NEW s \in [Nat -> {0, 1}]
      PROVE  SoupGrid(s, n) \in Data(first)!GridsOf(n)
  <2>1. [i \in Cells(n) |-> s[i]] \in Boards(n)
    BY <1>1 DEF Cells, Boards
  <2>. QED
    BY <1>3, <2>1 DEF SoupGrid
<1>6. ASSUME NEW g \in GridsOn(Edges), NEW c
      PROVE  StampedGrid(g, c) \in Data(first)!GridsOf(EdgeOf(g))
  <2>1. StampedInto(g[2], c, g[1]) \in Boards(g[1])
    BY <1>2 DEF StampedInto, Boards
  <2>. QED
    BY <1>2, <1>3, <2>1 DEF StampedGrid
<1>7. ASSUME NEW g \in GridsOn(Edges), NEW t \in Nat
      PROVE  Generations(g, t) \in Data(first)!GridsOf(EdgeOf(g))
  BY <1>2, <1>3, GenerationsAre
<1>8. ASSUME NEW g \in GridsOn(Edges) PROVE Generations(g, 0) = g
  BY <1>2, GenerationsAre
<1>. QED
  BY <1>1, <1>2, <1>4, <1>5, <1>6, <1>7, <1>8 DEF Data!GridsBehave, Data!Ticks
=============================================================================
