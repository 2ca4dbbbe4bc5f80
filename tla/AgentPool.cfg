CONSTANTS
  Worker = {w1, w2}
  Thread = {w1, w2}
  Adder = {a1, a2}
  Destructor = d
  max_ = 2
  MaxJob = 4
  MaxInfo = 4
  None = None
SPECIFICATION FairAgentSpec
INVARIANTS JobsKept SafebindStable NoFreedHandle
PROPERTY PoolProgress
CHECK_DEADLOCK FALSE
