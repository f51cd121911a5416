SPECIFICATION FairSpec
CONSTANTS
  Meters <- SomeMeters
  PacketSize = 2
  BufSize = 5
  ScanSize = 5
  Limit = 2
  Latency = 1
  MaxPackets = 4
  MaxFaults = 2
  MaxRuns = 2
CHECK_DEADLOCK FALSE
INVARIANT NothingMissed
INVARIANT RoomToRead
INVARIANT OneRequest
PROPERTY InOrder
PROPERTY AcquisitionEnds
