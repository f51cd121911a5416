SPECIFICATION FairSpec
CONSTANTS
  d1 = d1
  d2 = d2
  a = a
  b = b
  none = none
  Devs = {d1, d2}
  Cbs = {a, b}
  NoCb = none
  SessionPump = FALSE
  MaxEvents = 3
CHECK_DEADLOCK FALSE
INVARIANT NoBadAccess
INVARIANT QuietWhenClosed
INVARIANT ViewIsCurrent
PROPERTY CloseReturns
PROPERTY Reported
