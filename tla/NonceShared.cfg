SPECIFICATION Spec
CONSTANTS
  n1 = n1
  n2 = n2
  n3 = n3
  u = u
  v = v
  Workers = {u, v}
  Approvals <- SharedNonce
  Corrupt = {}
  Cap = 1
  LowWater = 1
  Backoff = 1
  Never = 20
  Second = 2
  MaxClock = 6
  MaxRebuilds = 0
  MaxStall = 2
SYMMETRY WorkerSymmetry
INVARIANTS
  SingleUse
