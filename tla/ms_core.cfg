SPECIFICATION Spec
CONSTANTS
  Games = {"g1", "g2"}
  Seats = {"p1", "p2"}
  Devices <- OneDevice
  Overlap = FALSE
  ScreenFails = FALSE
  MaxSessions = 2
  MaxRestarts = 1
INVARIANTS
  
  ScaleReturned
  
CHECK_DEADLOCK FALSE
