SPECIFICATION Spec
CONSTANTS
  n1 = n1
  n2 = n2
  c1 = c1
  c2 = c2
  t1 = t1
  t2 = t2
  t3 = t3
  k1 = k1
  Conns = {n1, n2}
  Codes = {c1, c2}
  Refreshes = {t1, t2, t3}
  Confirms = {k1}
  Expiring = {k1}
  MaxRequests = 5
  MaxCrashes = 1
  MaxDiskFaults = 1
  None = None
INVARIANTS
  TypeOK
  AInv
  RevokeEndsChain
  LockedOutExplained
  PoisonMeansTorn
  ConfirmedOnce
PROPERTIES
  Implements
  AnsweredUnlessPoisoned
CHECK_DEADLOCK FALSE
