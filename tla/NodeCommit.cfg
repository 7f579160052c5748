SPECIFICATION Spec
CONSTANTS
  u = u
  v = v
  Workers = {u, v}
  Ttl = 1
  Window = 2
  Timeout = "commit"
  MaxHeld = 2
  MaxUnits = 1
  U64Max = 50
  Mode = "block"
  Budget = 1
  Contributions = {1}
  PendingLimit = 1
  DrainPerCall = 1
  MissingAttempts = 2
  MarkerCap = 9
  Grace = 0
  Faults = {"misread", "unwritten"}
  MaxFaults = 1
  MaxRestarts = 0
  MaxClock = 4
  MaxId = 2
  MaxStall = 1
  SlowPersist = FALSE
SYMMETRY WorkerSymmetry
INVARIANTS
  ChargedOnce
  HeldUntilDeadline
PROPERTIES
  MarksStand
