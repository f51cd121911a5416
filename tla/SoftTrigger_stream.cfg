SPECIFICATION FairSpec
CONSTANTS
  Unit = 1
  Pre = 2
  Triggers <- AllTriggers
  Enabled = {0, 1}
  Bits = {0, 1}
  MaxBuf = 3
  MaxSamples = 5
CHECK_DEADLOCK FALSE
INVARIANT Sound
INVARIANT FirstInBuffer
INVARIANT PreTriggerIsTail
PROPERTY CallReturns
