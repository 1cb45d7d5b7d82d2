CONSTANTS
  Sizes = {3}
  InitialGrid = 3
  Grids <- MCGrids
  Seeds <- MCSeeds
  Strokes <- MCStrokes
  MaxTicks = 1
  SizeOf <- MCSizeOf
  Blank <- MCBlank
  Seeded <- MCSeeded
  LifeN <- MCLifeN
  Stamped <- MCStamped
  Soup <- MCSoup
  HasTiming = FALSE
  Samples = {ns}
  NoSample = NoSample
  Readbacks = {r1}
  NoReadback = NoReadback
  GenModulus = 4
  MayLoseFrames = FALSE
  MayFailMaps = FALSE
SPECIFICATION Spec
INVARIANT CpuModeShowsCpu
