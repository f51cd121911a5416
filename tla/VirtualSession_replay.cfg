SPECIFICATION FairSpec
CONSTANTS
  Files <- SomeFiles
  CHUNKSIZE = 4
  Float = 2
  Byte = 2
  IoFails = TRUE
  MaxNumber = 3
  MaxRuns = 3
  MaxDso = 2
CHECK_DEADLOCK FALSE
INVARIANT Faithful
INVARIANT NoOverrun
PROPERTY ReplayEnds
