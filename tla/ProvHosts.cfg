SPECIFICATION Spec
CONSTANTS
  d1 = d1
  d2 = d2
  d3 = d3
  a = a
  b = b
  h1 = h1
  h2 = h2
  Host = Host
  Domains = {d1, d2, d3}
  Hosted = {d1, d2}
  Items = {a, b}
  Present = {a}
  Owner <- OwnerDef
  Dest <- DestDef
  AliasDomains = {}
  Sessions = {}
  Admins = {}
  UserOf <- Nobody
  Claims <- Nobody
  Helpers = {h1, h2}
  Asked <- WholeRequests
  Program <- ProgramDef
  MaxCommands = 2
  MaxTrouble = 1
ACTION_CONSTRAINT Nested
SYMMETRY Interchangeable
INVARIANTS
  ServedIsCurrent
  MapsAreCurrent
  CronIsCurrent
  RegisteredIsServed
CHECK_DEADLOCK FALSE
