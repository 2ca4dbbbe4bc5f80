CONSTANTS
  Sender = {s1, s2}
  PduSize = 2
  MaxArrived = 1
  MaxLeak = 1
  Latest = Latest
  None = None
SPECIFICATION Spec
INVARIANT WriteCbAlive
CHECK_DEADLOCK FALSE
