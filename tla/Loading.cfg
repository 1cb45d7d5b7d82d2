CONSTANTS
  WordSize = 16
  Headers <- MCHeaders
  Alphabet <- MCAlphabet
  Readable <- MCReadable
  MaxLength = 4
  Edges = {2, 5, 17, 38}
  MaxAge = 60
  ReadOn <- MCReadOn
  TextEdges = {2, 5}
  MaxReload = 3
  Pixels = 10
  WideFrom = 38
SPECIFICATION LoadSpec
INVARIANTS
  LoadTypeOK
  CellsInBox
  ParsesMeaning
  PresetWhole
  PaintShows
  GliderTravels
  PulsarOscillates
  GunFires
PROPERTIES
  LoadedWhole
