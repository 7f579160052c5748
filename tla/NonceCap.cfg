SPECIFICATION Spec
CONSTANTS
  n1 = n1
  n2 = n2
  n3 = n3
  u = u
  v = v
  Workers = {u, v}
  Approvals <- OneNonceEach
  Corrupt = {}
  Cap = 1
  LowWater = 1
  Backoff = 1
  Never = 20
  Second = 2
  MaxClock = 4
  MaxRebuilds = 0
  MaxStall = 1
SYMMETRY WorkerSymmetry
INVARIANTS
  StoreBounded
