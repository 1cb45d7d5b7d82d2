CONSTANTS
  Sizes = {1}
  InitialGrid = 1
  Grids <- MCGrids
  Seeds = {s1}
  Strokes = {c1}
  MaxTicks = 1
  SizeOf <- MCSizeOf
  Blank <- MCBlank
  Seeded <- MCSeeded
  LifeN <- MCLifeN
  Stamped <- MCStamped
  Soup <- MCSoup
  HasTiming = FALSE
  Samples = {ns}
  NoSample = NoSample
  Readbacks = {r1}
  NoReadback = NoReadback
  GenModulus = 4
  MayLoseFrames = TRUE
  MayFailMaps = FALSE
SPECIFICATION HistSpec
PROPERTY LandsOnlyCopies
