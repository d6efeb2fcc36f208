SPECIFICATION Spec
CONSTANTS
  Splits <- OneOrThreeParts
  SectorIds = 2
  Lossy = TRUE
  Restarts = TRUE
  Alarms = TRUE
  MaxNet = 2
INVARIANTS
  TypeOK
  BadOnlyFirst
  HeldIsIncomplete
  UnstampedNotPublished
  ScansAreSectors
CHECK_DEADLOCK FALSE
