SPECIFICATION Spec
CONSTANTS
  n1 = n1
  n2 = n2
  n3 = n3
  u = u
  v = v
  Workers = {u, v}
  Approvals <- OneNonceEach
  Corrupt = {n3}
  Cap = 2
  LowWater = 2
  Backoff = 1
  Never = 20
  Second = 2
  MaxClock = 6
  MaxRebuilds = 1
  MaxStall = 2
SYMMETRY WorkerSymmetry
INVARIANTS
  SingleUse
  KeptWhileFresh
  BoundHonest
PROPERTIES
  ImplementsRegister
