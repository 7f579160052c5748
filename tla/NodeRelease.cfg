SPECIFICATION Spec
CONSTANTS
  u = u
  v = v
  Workers = {u, v}
  Ttl = 1
  Window = 0
  Timeout = "release"
  MaxHeld = 2
  MaxUnits = 1
  U64Max = 50
  Mode = "block"
  Budget = 1
  Contributions = {1}
  PendingLimit = 1
  DrainPerCall = 1
  MissingAttempts = 2
  MarkerCap = 1
  Grace = 0
  Faults = {"full", "landed"}
  MaxFaults = 1
  MaxRestarts = 1
  MaxClock = 3
  MaxId = 2
  MaxStall = 1
  SlowPersist = FALSE
SYMMETRY WorkerSymmetry
INVARIANTS
  TypeOK
  CommitsKept
  BudgetHeld
PROPERTIES
  NotActiveIsGone
