SPECIFICATION FairHSpec
CONSTANTS
  N = 3
  Threshold = 2
  Cooldown = 2
  MaxCalls = 2
INVARIANTS
  TypeOK
  BreakerShape
  NoStarvation
PROPERTIES
  NeverPicksCoolingBackend
  ImplementsStatelessPool
  RecoversWhenFailuresStop
