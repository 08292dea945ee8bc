SPECIFICATION Spec
CONSTANTS
  e1 = e1
  e2 = e2
  p1 = p1
  p2 = p2
  p3 = p3
  Entries = {e2}
  Posts = {p1, p2}
  Kind <- MCReadd
  HasTtl = {}
  MaxDay = 0
  DaysBack = 1
  MaxCrashes = 0
  MaxDiskFaults = 0
  None = None
INVARIANTS
  NoAppendLost
CHECK_DEADLOCK FALSE
