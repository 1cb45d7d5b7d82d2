CONSTANTS
  Sizes = {1, 2}
  InitialGrid = 1
  Grids = {1, 2}
  Seeds = {s1}
  Strokes = {c1}
  MaxTicks = 1
  SizeOf <- MCSame
  Blank <- MCSame
  Seeded <- MCSame
  LifeN <- MCAfter
  Stamped <- MCAfter
  Soup <- MCSoup
  HasTiming = TRUE
  Samples = {ns}
  NoSample = NoSample
  Readbacks = {r1, r2}
  NoReadback = NoReadback
  GenModulus = 2
  MayLoseFrames = TRUE
  MayFailMaps = TRUE
  Nothing = Nothing
SPECIFICATION FairAppSpec
INVARIANTS
  AppTypeOK
  GpuPickIsFinal
  StampsFit
PROPERTIES
  SwitchCompletes
  ReadbackResolves
  TimerReturns
