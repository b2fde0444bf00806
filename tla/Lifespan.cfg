SPECIFICATION FairLifeSpec
CONSTANTS
  Full = 2
  SoftLimit = 1
  HardLimit = 2
  Interval = 1
  Waits = 2
  FetchTimeout = 1
  Faults = {"unreachable", "no_metric", "dribble"}
  MaxMisses = 2
  Files <- MCFiles
  Environments <- MCEnvironments
  ProbeTimeout = 2
  LifeFaults = {"dribble", "close_raises"}
CHECK_DEADLOCK FALSE
INVARIANTS
  LifeTypeOK
  DecisionsAreFresh
  AcceptedConfigStarts
  ProbesAreBounded
  NothingIsLeftOpen
PROPERTY
  PressurePasses
