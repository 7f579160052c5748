SPECIFICATION Spec
CONSTANTS
  MaxUnits = 4
  U64Max = 7
  Slots <- TwoSlots
  Configs <- SomeConfigs
  Arrivals <- SomeArrivals
  Statuses = {200, 302, 404}
  Folded <- Spellings
  MaxBody = 1
  Ttl = 2
  MaxClock = 3
INVARIANTS
  AggregateHeld
  ForwardedIsReserved
  SettledAsAnswered
  HarmlessPasses
  RequestsAnswered
  BreachReported
