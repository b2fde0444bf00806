SPECIFICATION Spec
CONSTANTS
  Keys = {k1, k2, k3}
  Clients = {c1, c2}
  MaxSize = 1
  MaxClock = 5
  Maintenance = FALSE
  Crashes = FALSE
INVARIANT
  SettledWithinMaxSize
