CONSTANTS
  Sizes = {1, 2}
  InitialGrid = 1
  Grids <- MCGrids
  Seeds = {s1}
  Strokes = {c1}
  MaxTicks = 1
  SizeOf <- MCSizeOf
  Blank <- MCBlank
  Seeded <- MCSeeded
  LifeN <- MCLifeN
  Stamped <- MCStamped
  Soup <- MCSoup
  HasTiming = TRUE
  Samples = {ns}
  NoSample = NoSample
  Readbacks = {r1, r2}
  NoReadback = NoReadback
  GenModulus = 4
  MayLoseFrames = TRUE
  MayFailMaps = TRUE
  NoSnapshot = NoSnapshot
SPECIFICATION Spec
INVARIANTS
  TypeOK
  EngineInv
  NothingMappedIsSubmitted
  LandingFits
PROPERTY CpuDisplayKeepsUp
