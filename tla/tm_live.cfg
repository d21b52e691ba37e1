SPECIFICATION FairSpec
CONSTANTS
  d1 = d1
  d2 = d2
  u1 = u1
  u2 = u2
  s1 = s1
  Tasks = {u1, u2}
  IOTasks = {}
  Pausable = {}
  Persist = {}
  HasRunner = {}
  SyncTasks = {}
  MaxConcurrentDownloads = 1
  MaxConcurrentOperations = 1
  Scenes <- Operations
  SaveMayFail = TRUE
  MaxRestarts = 0
PROPERTIES QueueDrains 
CHECK_DEADLOCK FALSE
