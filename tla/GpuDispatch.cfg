CONSTANTS
  GridSize = 2
  WorkgroupSize = 3
  Starts <- MCStarts
SPECIFICATION PassSpec
INVARIANTS
  PassTypeOK
  PassInv
PROPERTY ImplementsLife
