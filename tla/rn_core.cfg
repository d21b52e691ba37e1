SPECIFICATION Spec
CONSTANTS
  l1 = l1
  l2 = l2
  Launches = {l1, l2}
  Dir <- OneGame
  Profile <- TwoProfiles
  Loader = {l1}
  Gamescope = {l2}
  Apart = {"instance", "home"}
  MayFail = TRUE
  MaxPlay = 1
  MaxCrashes = 1
INVARIANTS Attended  PlaytimeHonest
CHECK_DEADLOCK FALSE
