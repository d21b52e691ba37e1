SPECIFICATION SavesSpec
CONSTANTS
  Locations <- Own
  Callers = {c1, c2}
  Retention = 1
  SameSecond = FALSE
  MayFail = TRUE
  MaxEdits = 2
  MaxBackups = 2
  MaxCrashes = 1
INVARIANTS
  SnapshotsKept
  
CHECK_DEADLOCK FALSE
SYMMETRY Symmetric
