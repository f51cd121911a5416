SPECIFICATION FairSpec
CONSTANTS
  d1 = d1
  d2 = d2
  k1 = k1
  k2 = k2
  k3 = k3
  NULL = NULL
  Devs = {d1, d2}
  Keys = {k1, k2}
  Owner <- OneEach
  SyncStop = {d1}
  Stoppers = {"t1"}
  LoopMode = "app_loop"
  StartMayFail = TRUE
  AddWhen = {FALSE}
  RemoveWhen = {}
  MaxRuns = 2
  MaxStops = 2
CHECK_DEADLOCK FALSE
INVARIANT StoppedDevicesTold
PROPERTY StopDelivered
PROPERTY ImplementsLifecycle
