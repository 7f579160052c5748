SPECIFICATION Spec
CONSTANTS
  FieldSpellings <- Spellings
  Utf8Order <- KeysByUtf8
  Utf16Order <- KeysByUtf16
  MaxSafe = 3
  MaxSkew = 3
  MaxLifetime = 4
  MaxInstant = 9
  Configs <- SomeConfigs
  Requests <- SomeRequests
  Presented <- SomeApprovals
  Rivals <- SomeRivals
  MaxBody = 1
  w1 = w1
  w2 = w2
  Workers = {w1, w2}
  Second = 1
  MaxClock = 2
  MaxStall = 1
SYMMETRY WorkerSymmetry
INVARIANTS
  ForwardedIsBound
  NonceSpentExactly
  ForwardedOnce
  EnvelopeRemoved
  SpliceSucceeds
  MonitorPredicts
