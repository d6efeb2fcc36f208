SPECIFICATION Spec
CONSTANTS
  Splits <- UpToThreeParts
  SectorIds = 2
  Lossy = FALSE
  Restarts = TRUE
  Alarms = FALSE
  MaxNet = 2
INVARIANTS
  NeverUnstamped
