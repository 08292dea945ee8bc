SPECIFICATION Spec
CONSTANTS
  i1 = i1
  i2 = i2
  Items = {i1, i2}
  View <- ViewDef
  MaxEvents = 3
  MaxTrouble = 1
SYMMETRY Interchangeable
INVARIANTS
  ShowsStored
  
CHECK_DEADLOCK FALSE
