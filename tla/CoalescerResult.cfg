SPECIFICATION Spec
CONSTANTS
  Requests = {r1, r2, r3}
  Results = {"object"}
  LockTTL = 3
  WaitTimeout = 2
  MaxHold = 2
  Faults = {}
INVARIANT
  ProducedIsReturned
