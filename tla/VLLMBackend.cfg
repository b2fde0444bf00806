SPECIFICATION FairSpec
CONSTANTS
  Requests = {r1, r2}
  MaxRetries = 1
  Waits = 2
  Timeout = 2
  Backoff = 1
  HeldUp = 1
  Deadline = 11
CHECK_DEADLOCK FALSE
INVARIANTS
  TypeOK
  SilenceIsReported
PROPERTIES
  EveryCallEnds
  QuietStreamsEnd
