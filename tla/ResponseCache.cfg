SPECIFICATION HSpec
CONSTANTS
  Keys = {k1, k2, k3, k4}
  Clients = {c1, c2}
  MaxSize = 2
  MaxClock = 6
  Maintenance = TRUE
  Crashes = TRUE
INVARIANTS
  TypeOK
  LiveIsTracked
  BoundedBetweenCalls
PROPERTIES
  LonePutRestoresBound
  LoneUseIsNewest
  LoneEvictionIsLRU
SYMMETRY
  Symmetry
