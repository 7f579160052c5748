SPECIFICATION Spec
CONSTANTS
  a = a
  b = b
  c = c
  Scopes = {a, b, c}
  MaxScopes = 2
  Ttl = 1
  Window = 2
  Timeout = "release"
  MaxHeld = 2
  MaxUnits = 2
  U64Max = 50
  Mode = "monitor"
  Budget = 1
  Contributions = {0, 1}
  MaxClock = 4
  MaxLag = 2
  MaxId = 3
  MaxFree = 3
SYMMETRY ScopeSymmetry
INVARIANTS
  IndexExact
  Bounded
  CountersBalance
  AtCapacityMeansFull
PROPERTIES
  ImplementsExposure
