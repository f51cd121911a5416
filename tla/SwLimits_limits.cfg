SPECIFICATION LimitsSpec
CONSTANTS
  Modulus = 8
  Msec = 2
  Limits = {0, 1, 3}
  Points = {1, 4}
  MaxRead = 2
  MaxGot = 9
  MaxTime = 7
CHECK_DEADLOCK FALSE
PROPERTY Overshoot
PROPERTY StopIsJustified
