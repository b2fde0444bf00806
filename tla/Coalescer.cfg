SPECIFICATION FairSpec
CONSTANTS
  Requests = {r1, r2, r3}
  Results = {"json_text", "null_text", "object"}
  LockTTL = 3
  WaitTimeout = 2
  MaxHold = 2
  Faults = {"cancel", "crash", "redis"}
INVARIANTS
  TypeOK
  ExclusiveClaim
  LockHasHolder
PROPERTIES
  ImplementsSingleFlight
  EveryRequestEnds
  LockIsFreed
