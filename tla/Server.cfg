SPECIFICATION Spec
CONSTANTS
  N = 2
  MaxCalls = 3
  Threshold = 1
  Cooldown = 1
  Requests = {r1, r2, r3}
  Kinds = {"completion", "chat", "stream"}
  OtherModel = TRUE
  Faults = {"disconnect", "redis"}
CHECK_DEADLOCK FALSE
INVARIANTS
  TypeOK
  CallsAreTracked
  ActiveIsExact
PROPERTIES
  UsesPool
  CompletionsTryStaleCache
  SparesCoolingBackends
  FallsBackInOutageOnly
SYMMETRY
  Symmetry
