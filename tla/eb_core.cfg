SPECIFICATION BusSpec
CONSTANTS
  s1 = s1
  s2 = s2
  p1 = p1
  p2 = p2
  Subs = {s1, s2}
  FuncSubs = {s2}
  Publishers = {p1, p2}
  Types = {"progress", "done"}
  Filter <- MCFilter
  Buffer = 2
  MaxEvents = 3
INVARIANTS Delivery
CHECK_DEADLOCK FALSE
