SPECIFICATION Spec
CONSTANTS
  w1 = w1
  w2 = w2
  c1 = c1
  c2 = c2
  s1 = s1
  s2 = s2
  Workers = {w1, w2}
  Cron = w1
  Campaigns = {c1}
  People = {s1, s2}
  BatchSize = 1
  Members = {s1}
  Drafts = {c1}
  MaxTokens = 2
  MaxRequests = 4
  MaxKills = 1
  None = None
INVARIANTS
  TypeOK
  OnlyConfirmedMailed
  FinishedMeansAttempted
  DuplicatesExplained
PROPERTIES
  QueueDrains
CHECK_DEADLOCK FALSE
