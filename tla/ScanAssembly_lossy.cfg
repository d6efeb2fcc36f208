SPECIFICATION Spec
CONSTANTS
  Sectors = 3
  Counts <- UpToTwo
  Lossy = TRUE
  MaxSectors = 8
INVARIANTS
  TypeOK
  EveryPointOnce
  HeldPointsAreOpen
  WholeRotations
