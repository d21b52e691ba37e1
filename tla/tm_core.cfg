SPECIFICATION Spec
CONSTANTS
  d1 = d1
  d2 = d2
  u1 = u1
  u2 = u2
  s1 = s1
  Tasks = {d1, d2, u1, u2}
  IOTasks = {d1, d2}
  Pausable = {d1}
  Persist = {d1, d2}
  HasRunner = {d1}
  SyncTasks = {s1}
  MaxConcurrentDownloads = 1
  MaxConcurrentOperations = 1
  Scenes <- EveryScene
  SaveMayFail = FALSE
  MaxRestarts = 1
INVARIANTS SlotAccounting NoDoubleStart TerminalEventLast StoreCurrent ShutdownReachesAll
PROPERTY Lifecycle
CHECK_DEADLOCK FALSE
