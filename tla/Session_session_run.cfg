SPECIFICATION Spec
CONSTANTS
  d1 = d1
  d2 = d2
  k1 = k1
  k2 = k2
  k3 = k3
  NULL = NULL
  Devs = {d1, d2}
  Keys = {k1, k2, k3}
  Owner <- TwoOwners
  SyncStop = {d1}
  Stoppers = {"t1"}
  LoopMode = "session_run"
  StartMayFail = TRUE
  AddWhen = {TRUE, FALSE}
  RemoveWhen = {TRUE, FALSE}
  MaxRuns = 2
  MaxStops = 2
CHECK_DEADLOCK FALSE
INVARIANT StopCheckArmed
