SPECIFICATION Spec
CONSTANTS
  N = 1
  MaxCalls = 1
  Threshold = 1
  Cooldown = 1
  Requests = {r1}
  Kinds = {"stream"}
  OtherModel = TRUE
  Faults = {"disconnect"}
CHECK_DEADLOCK FALSE
INVARIANT
  ActiveSettles
