CONSTANTS
  Client = {c1, c2, c3}
  ThreadsPerClient = 1
  WorkersPerClient = 1
  Thread <- MCThread
  Worker <- MCWorker
  clientOf <- MCClientOf
  Agent = {a1, a2}
  PoolMax = 1
  JobMax = 2
  MayFail = {"acquire", "release", "retry", "revoke"}
  MaxFail = 0
  NoThread = NoThread
  NoClient = NoClient
  MaxCalls = 3
SPECIFICATION LiveSpec
INVARIANTS CachedMeansOwned NoEmptyPop NoDoubleRevoke
PROPERTY ClientServed
CHECK_DEADLOCK FALSE
