SPECIFICATION Spec
CONSTANTS
  w1 = w1
  w2 = w2
  a = a
  b = b
  Workers = {w1, w2}
  ScopeCount = 2
  Ids = {a, b}
  Settlements = {"release"}
  MaxScopes = 1
  Ttl = 1
  Grace = 3
  Recover = 2
  MinRescan = 1
  MaxRescan = 1
  GcInterval = 1
  GcCheck = 1
  SweepBudget = 1
  Faults = {"landed"}
  MaxFaults = 1
  MaxStall = 1
SYMMETRY Symmetry
INVARIANTS
  HeldInWindow
