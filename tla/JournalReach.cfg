SPECIFICATION Spec
CONSTANTS
  e1 = e1
  e2 = e2
  p1 = p1
  p2 = p2
  p3 = p3
  Entries = {e1}
  Posts = {p1, p2, p3}
  Kind <- MCOne
  HasTtl = {}
  MaxDay = 2
  DaysBack = 2
  MaxCrashes = 1
  MaxDiskFaults = 2
  None = None
SYMMETRY Symmetry
INVARIANTS
  SecondPostRejected
CHECK_DEADLOCK FALSE
