CONSTANTS
  MaxXid = 4
  MaxConn = 2
  MaxRestart = 0
  Lossy = FALSE
SPECIFICATION Spec
INVARIANT AtMostOnce
CHECK_DEADLOCK FALSE
