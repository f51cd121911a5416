SPECIFICATION FairSpec
CONSTANTS
  Threads = {t1, t2}
  Channels = {c1, c2}
  NULL = NULL
  MaxCalls = 4
  MaxFaults = 2
CHECK_DEADLOCK FALSE
INVARIANT RightChannel
INVARIANT OwnAnswer
PROPERTY CallsReturn
