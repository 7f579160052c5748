SPECIFICATION Spec
CONSTANTS
  w1 = w1
  w2 = w2
  a = a
  b = b
  Workers = {w1, w2}
  ScopeCount = 2
  Ids = {a, b}
  Settlements = {"commit", "release"}
  MaxScopes = 1
  Ttl = 1
  Grace = 3
  Recover = 2
  MinRescan = 1
  MaxRescan = 2
  GcInterval = 1
  GcCheck = 1
  SweepBudget = 2
  Faults = {}
  MaxFaults = 0
  MaxStall = 1
SYMMETRY Symmetry
INVARIANTS
  SlotsExact
  CapHeld
  HeldInWindow
PROPERTIES
  LeavesInOrder
