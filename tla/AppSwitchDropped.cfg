CONSTANTS
  Sizes = {1, 2}
  InitialGrid = 1
  Grids = {1, 2}
  Seeds = {s1}
  Strokes = {c1}
  MaxTicks = 0
  SizeOf <- MCSame
  Blank <- MCSame
  Seeded <- MCSame
  LifeN <- MCAfter
  Stamped <- MCAfter
  Soup <- MCSoup
  HasTiming = FALSE
  Samples = {ns}
  NoSample = NoSample
  Readbacks = {r1}
  NoReadback = NoReadback
  GenModulus = 4
  MayLoseFrames = FALSE
  MayFailMaps = FALSE
  Nothing = Nothing
SPECIFICATION FairAppSpec
PROPERTY HandoverIsBrief
