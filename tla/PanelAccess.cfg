SPECIFICATION Spec
CONSTANTS
  d1 = d1
  d2 = d2
  d3 = d3
  a = a
  b = b
  c = c
  s1 = s1
  s2 = s2
  s3 = s3
  h1 = h1
  h2 = h2
  Host = Host
  Domains = {d1, d2, d3}
  Hosted = {d1, d2}
  Items = {a, b, c}
  Present = {a}
  Owner <- OwnerDef
  Dest <- DestDef
  AliasDomains = {}
  Sessions = {s1, s2, s3}
  Admins = {s1, s3}
  UserOf <- UserDef
  Claims <- ClaimsDef
  Helpers = {h1, h2}
  Asked <- AccessRequests
  Program <- ProgramDef
  MaxCommands = 2
  MaxTrouble = 1
ACTION_CONSTRAINT Nested
SYMMETRY Interchangeable
INVARIANTS
  RefreshTokenOnce
  StaysSignedIn
  AnAdminRemains
  EnvFollowsLicense
  AlertSentOnce
  JobsEnd
PROPERTIES
  NoEffectAfterLogout
  RevokedStaysRevoked
CHECK_DEADLOCK FALSE
