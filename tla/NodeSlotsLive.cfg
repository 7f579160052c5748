SPECIFICATION FairSpec
CONSTANTS
  w1 = w1
  w2 = w2
  a = a
  b = b
  Workers = {w1, w2}
  ScopeCount = 2
  Ids = {a, b}
  Settlements = {}
  MaxScopes = 1
  Ttl = 1
  Grace = 1
  Recover = 1
  MinRescan = 1
  MaxRescan = 1
  GcInterval = 1
  GcCheck = 1
  SweepBudget = 1
  Faults = {"unwritten", "landed", "restart"}
  MaxFaults = 2
  MaxStall = 0
INVARIANTS
  TypeOK
PROPERTIES
  RoomReturns
