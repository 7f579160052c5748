SPECIFICATION Spec
CONSTANTS
  a = a
  b = b
  Scopes = {a, b}
  MaxScopes = 1
  Ttl = 2
  Window = 4
  Timeout = "commit"
  MaxHeld = 2
  MaxUnits = 2
  U64Max = 50
  Mode = "block"
  Budget = 2
  Contributions = {1, 2}
  MaxClock = 5
  MaxLag = 2
  MaxId = 3
  MaxFree = 0
SYMMETRY ScopeSymmetry
INVARIANTS
  TypeOK
  ReservedIsActive
  CommittedIsCharged
  BudgetHeld
PROPERTIES
  ImplementsExposure
