CONSTANTS
  Sizes = {1}
  InitialGrid = 1
  Grids <- MCGrids
  Seeds = {}
  Strokes = {}
  MaxTicks = 2
  SizeOf <- MCSizeOf
  Blank <- MCBlank
  Seeded <- MCSeeded
  LifeN <- MCLifeN
  Stamped <- MCStamped
  Soup <- MCSoup
  HasTiming = TRUE
  Samples = {2}
  NoSample = NoSample
  Readbacks = {r1}
  NoReadback = NoReadback
  GenModulus = 2
  MayLoseFrames = TRUE
  MayFailMaps = TRUE
  Nothing = Nothing
  CostsOf <- MCCostsOf
  Capacity = 2
  CutShare = 50
SPECIFICATION PanelSpec
INVARIANTS
  PanelTypeOK
  ActiveIsLatest
  AverageHasValues
PROPERTIES
  OneSampleAtATime
  PauseHolds
  MeasurementShown
