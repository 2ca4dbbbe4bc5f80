CONSTANTS
  Sender = {s1, s2}
  PduSize = 2
  MaxArrived = 1
  MaxLeak = 1
  Latest = Latest
  None = None
SPECIFICATION FairSpec
INVARIANTS RefsExact NoUseAfterDelete RemovedForGood
PROPERTIES SendsProgress RefusedOffered
CHECK_DEADLOCK FALSE
