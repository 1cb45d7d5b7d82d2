------------------------------ MODULE Patterns ------------------------------
(***************************************************************************)
(* The presets of engine/src/patterns.rs, row by row.                      *)
(***************************************************************************)
EXTENDS Stamping, FiniteSetsExt

Presets == {"Glider", "GosperGliderGun", "Pulsar", "RPentomino", "Acorn"}

\* The cells of row j at the columns of a set.
Row(j, columns) == columns \X {j}

GliderCells == Row(0, {1}) \cup Row(1, {2}) \cup Row(2, {0, 1, 2})

GosperGliderGunCells ==
  UNION {Row(0, {24}),
         Row(1, {22, 24}),
         Row(2, {12, 13, 20, 21, 34, 35}),
         Row(3, {11, 15, 20, 21, 34, 35}),
         Row(4, {0, 1, 10, 16, 20, 21}),
         Row(5, {0, 1, 10, 14, 16, 17, 22, 24}),
         Row(6, {10, 16, 24}),
         Row(7, {11, 15}),
         Row(8, {12, 13})}

PulsarCells ==
  UNION ({Row(j, {2, 3, 4, 8, 9, 10}) : j \in {0, 5, 7, 12}}
         \cup {Row(j, {0, 5, 7, 12}) : j \in {2, 3, 4, 8, 9, 10}})

RPentominoCells == Row(0, {1, 2}) \cup Row(1, {0, 1}) \cup Row(2, {1})

AcornCells == Row(0, {1}) \cup Row(1, {3}) \cup Row(2, {0, 1, 4, 5, 6})

\* Fault: one wrong coordinate in each of three tables.
PatternCellsMistyped ==
  [Glider |-> (GliderCells \ {<<0, 2>>}) \cup {<<0, 1>>},
   GosperGliderGun |-> (GosperGliderGunCells \ {<<14, 5>>}) \cup {<<15, 5>>},
   Pulsar |-> (PulsarCells \ {<<12, 8>>}) \cup {<<12, 7>>},
   RPentomino |-> RPentominoCells,
   Acorn |-> AcornCells]

\* Pattern::cells.
PatternCells ==
  [Glider |-> GliderCells,
   GosperGliderGun |-> GosperGliderGunCells,
   Pulsar |-> PulsarCells,
   RPentomino |-> RPentominoCells,
   Acorn |-> AcornCells]

\* Fault: the last column taken for the number of columns.
LastColumn(p) == Max({0} \cup {c[1] : c \in PatternCells[p]})

\* Pattern::extent, by columns and then by rows.
Width(p) == Max({0} \cup {c[1] : c \in PatternCells[p]}) + 1

Height(p) == Max({0} \cup {c[2] : c \in PatternCells[p]}) + 1

\* stamp_centred for a preset; the app aims at the middle of the grid.
PresetCentred(p, n) ==
  Centred(PatternCells[p], Width(p), Height(p), n \div 2, n \div 2, n)

\* glider_seed of buffers.rs, the grid the engine starts with.
GliderSeed(n) == StampedInto(BlankBoard(n), PresetCentred("Glider", n), n)
=============================================================================
