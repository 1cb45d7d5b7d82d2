CONSTANTS
  GridSize = 3
  Starts <- MCStarts
SPECIFICATION CpuSpec
INVARIANTS
  CpuTypeOK
  CpuInv
  KernelsAgree
PROPERTY ImplementsLife
