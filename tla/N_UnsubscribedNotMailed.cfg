SPECIFICATION Spec
CONSTANTS
  w1 = w1
  w2 = w2
  c1 = c1
  c2 = c2
  s1 = s1
  s2 = s2
  Workers = {w1, w2}
  Cron = w1
  Campaigns = {c1, c2}
  People = {s1}
  BatchSize = 1
  Members = {s1}
  Drafts = {c1, c2}
  MaxTokens = 1
  MaxRequests = 4
  MaxKills = 0
  None = None
PROPERTIES
  UnsubscribedNotMailed
CHECK_DEADLOCK FALSE
