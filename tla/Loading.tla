------------------------------ MODULE Loading -------------------------------
(***************************************************************************)
(* How a pattern gets onto the grid: the import tab's load button          *)
(* (try_load_rle of app/src/app.rs), the preset button, a dab of the       *)
(* brush, and the generations that follow.  A grid gets a pattern and runs *)
(* until the next one is loaded over it, or a resize makes it blank.  The  *)
(* first pattern is the glider that the engine starts with.                *)
(* The backend in charge is the same for the whole behaviour.  On the GPU  *)
(* the grid is one of two buffers, and the other one matters: a clear      *)
(* blanks the current buffer and makes buffer 0 current, which at an odd   *)
(* generation is the other (EngineProperties!ClearBlanks).                 *)
(***************************************************************************)
EXTENDS Rle, Patterns, Painting

CONSTANTS
  Edges,     \* edge lengths of the grid
  MaxAge,    \* bound: generations a grid is watched for
  ReadOn(_, _, _, _)  \* bound: the body read so far of a text for a grid, by
                      \* the grid's edge, its source and age

ASSUME LoadingAssumption ==
  /\ Edges \subseteq Nat \ {0}
  /\ MaxAge \in Nat

VARIABLES
  backend,     \* the backend in charge
  edge,        \* app.grid_size
  board,       \* the grid: CpuSim's cells, or the current buffer
  behind,      \* the other of the two buffers
  generation,  \* engine.generation & 1
  source,      \* where the pattern on the grid came from
  age,         \* generations since then
  pointer      \* where the brush was pressed last

bufferVars == <<behind, generation>>

gridVars == <<backend, edge, board, bufferVars, source, age, pointer>>

loadVars == <<rleVars, gridVars>>

LoadTypeOK ==
  /\ RleTypeOK
  /\ backend \in {"Gpu", "Cpu"}
  /\ edge \in Edges
  /\ board \in [Cells(edge) -> {0, 1}]
  /\ behind \in [Cells(edge) -> {0, 1}]
  /\ generation \in 0 .. 1
  /\ source \in {"nothing", "rle", "brush"} \cup Presets
  /\ age \in 0 .. MaxAge
  /\ pointer \in Positions \X Positions

LoadInit ==
  /\ RleInit
  /\ backend \in {"Gpu", "Cpu"}
  /\ edge \in Edges
  /\ board = GliderSeed(edge)
  /\ behind = BlankBoard(edge)
  /\ generation = 0
  /\ source = "Glider"
  /\ age = 0
  /\ pointer = <<0, 0>>

-----------------------------------------------------------------------------
\* The text is parsed within one call of try_load_rle: no frame comes between.
Parse ==
  /\ RleNext
  /\ ReadOn(edge, source, age, body')
  /\ UNCHANGED gridVars

\* The user goes on to another text.
NewText ==
  /\ parsing' = "header"
  /\ width' = 0 /\ height' = 0
  /\ run' = 0 /\ x' = 0 /\ y' = 0
  /\ cells' = {}
  /\ body' = <<>>

Fits == width <= edge /\ height <= edge

\* Fault: a clear that blanks the buffer that is written next.
LeftByLateClear == IF generation = 1 THEN BlankBoard(edge) ELSE board

\* The current grid after GolEngine::clear, which blanks the current buffer and
\* then makes buffer 0 current.
LeftByClear == IF generation = 1 THEN behind ELSE BlankBoard(edge)

\* The grid is cleared and the pattern stamped at its middle.
Load ==
  /\ parsing = "Ok"
  /\ Fits
  /\ board' \in Stamped(LeftByClear,
                       Centred(cells, width, height, edge \div 2, edge \div 2, edge),
                       edge)
  /\ behind' = IF generation = 1 THEN BlankBoard(edge) ELSE behind
  /\ generation' = 0
  /\ source' = "rle"
  /\ age' = 0
  /\ NewText
  /\ UNCHANGED <<backend, edge, pointer>>

\* A pattern that is too large, or no pattern at all: the status line says
\* so and the grid stays.
Refuse ==
  /\ parsing \in Errors \/ (parsing = "Ok" /\ ~Fits)
  /\ NewText
  /\ UNCHANGED gridVars

StampPreset(p) ==
  /\ parsing = "header"
  /\ source = "nothing"
  /\ board' \in Stamped(board, PresetCentred(p, edge), edge)
  /\ source' = p
  /\ UNCHANGED <<rleVars, backend, edge, bufferVars, age, pointer>>

\* A press of the pointer at a position of the square.
Paint(at) ==
  /\ parsing = "header"
  /\ source = "nothing"
  /\ board' \in Stamped(board, Dab(at, edge), edge)
  /\ source' = "brush"
  /\ pointer' = at
  /\ UNCHANGED <<rleVars, backend, edge, bufferVars, age>>

\* One generation.  The GPU writes it into the other buffer, which becomes the
\* current one, and keeps what it read; the two kernels compute the same.  A
\* dab is looked at and not run: of generations the patterns are enough.
Tick ==
  /\ parsing = "header"
  /\ source \notin {"nothing", "brush"}
  /\ age < MaxAge
  /\ board' = [i \in Cells(edge) |-> CpuCell(board, edge, i % edge, i \div edge)]
  /\ IF backend = "Gpu"
       THEN behind' = board /\ generation' = 1 - generation
       ELSE UNCHANGED bufferVars
  /\ age' = age + 1
  /\ UNCHANGED <<rleVars, backend, edge, source, pointer>>

\* A resize gives the engine new buffers, both blank.
Resize(n) ==
  /\ parsing = "header"
  /\ n # edge
  /\ edge' = n
  /\ board' = BlankBoard(n)
  /\ behind' = BlankBoard(n)
  /\ generation' = 0
  /\ source' = "nothing"
  /\ age' = 0
  /\ pointer' = <<0, 0>>
  /\ UNCHANGED <<rleVars, backend>>

LoadNext ==
  \/ Parse \/ Load \/ Refuse \/ Tick
  \/ \E p \in Presets : StampPreset(p)
  \/ \E at \in Positions \X Positions : Paint(at)
  \/ \E n \in Edges : Resize(n)

LoadSpec == LoadInit /\ [][LoadNext]_loadVars

-----------------------------------------------------------------------------
(***************************************************************************)
(* Properties.                                                             *)
(***************************************************************************)

Alive == AliveOn(board, edge)

\* A set of cells moved across the torus.
Shifted(s, dx, dy) == {<<(c[1] + dx) % edge, (c[2] + dy) % edge>> : c \in s}

InMiddle(s, w, h) == Moved(s, w, h, edge \div 2, edge \div 2)

\* A pattern that is loaded is on the grid whole and in the middle: the size
\* check of try_load_rle is enough for stamp_centred to drop nothing.  It is
\* alone there in CPU mode, and on the GPU if the pattern before it ran for an
\* even number of generations.  After an odd number the clear leaves it as it
\* was one generation ago.
LoadedWhole ==
  [][Load =>
       LET pattern == InMiddle(cells, width, height)
       IN  /\ pattern \subseteq AliveOn(board', edge)
           /\ backend = "Cpu" \/ age % 2 = 0 => AliveOn(board', edge) = pattern]_loadVars

\* Columns and rows of the presets.
PresetSize ==
  [Glider |-> <<3, 3>>, GosperGliderGun |-> <<36, 9>>, Pulsar |-> <<13, 13>>,
   RPentomino |-> <<3, 3>>, Acorn |-> <<7, 3>>]

PresetFits(p) == PresetSize[p][1] <= edge /\ PresetSize[p][2] <= edge

PresetInMiddle(p) == InMiddle(PatternCells[p], PresetSize[p][1], PresetSize[p][2])

\* A preset that fits is on the grid whole and centred by its true size, which
\* is the one that extent finds.
PresetWhole ==
  source \in Presets /\ age = 0 /\ PresetFits(source) => Alive = PresetInMiddle(source)

\* What is painted shows under the pointer, if the square has enough pixels
\* for the radius of the brush, and nothing but the dab is painted.
PaintShows ==
  source = "brush" =>
    /\ edge <= 2 * Pixels * Radius(edge) =>
         Shaded(board, PixelAt(pointer[1]), PixelAt(pointer[2]), edge) = 1
    /\ Alive = Dab(pointer, edge)

\* "Travels diagonally with period 4", on a torus wide enough for it not to
\* meet itself.
GliderTravels ==
  source = "Glider" /\ edge > 4 /\ age % 4 = 0 =>
    Alive = Shifted(InMiddle(PatternCells[source], 3, 3), age \div 4, age \div 4)

\* "Oscillator with period 3", and not less.
PulsarOscillates ==
  source = "Pulsar" /\ edge > 15 =>
    (age % 3 = 0 <=> Alive = InMiddle(PatternCells[source], 13, 13))

\* "Emits gliders periodically": every 30 generations the gun is back, and
\* there are five more cells.  That is before the first glider, which takes
\* four generations for a cell, is half way round the torus: in the end the
\* gliders come back and hit the gun.
GunFires ==
  source = "GosperGliderGun" /\ edge > 37 /\ age <= 2 * edge /\ age % 30 = 0 =>
    /\ InMiddle(PatternCells[source], 36, 9) \subseteq Alive
    /\ Cardinality(Alive) = 36 + 5 * (age \div 30)
=============================================================================
