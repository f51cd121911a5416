SPECIFICATION FairSpec
CONSTANTS
  N = 3
  LimitSamples = 3
  LimitFrames = 3
  Triggered = {TRUE, FALSE}
  Pre = 1
  MAX_EMPTY_TRANSFERS = 2
  SubmitFails <- NotTheFirst
  CommandFails = TRUE
  HotplugPump = FALSE
  MaxXfer = 8
  MaxSent = 0
  MaxAcqs = 2
CHECK_DEADLOCK FALSE
INVARIANT SubmittedIsInFlight
INVARIANT EndsOnce
INVARIANT FramesAreWhole
PROPERTY AbortEnds
PROPERTY SilentDeviceEnds
