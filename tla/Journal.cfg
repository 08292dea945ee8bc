SPECIFICATION Spec
CONSTANTS
  e1 = e1
  e2 = e2
  p1 = p1
  p2 = p2
  p3 = p3
  Entries = {e1, e2}
  Posts = {p1, p2}
  Kind <- MCKind
  HasTtl = {e1}
  MaxDay = 1
  DaysBack = 2
  MaxCrashes = 1
  MaxDiskFaults = 1
  None = None
INVARIANTS
  TypeOK
  IInv
  RewriteExclusive
  MarkNamesItsUndo
PROPERTIES
  MarksSurvive
  EveryPostAnswered
CHECK_DEADLOCK FALSE
