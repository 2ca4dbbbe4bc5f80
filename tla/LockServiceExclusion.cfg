CONSTANTS
  Client = {c1, c2}
  ThreadsPerClient = 1
  Solo = {}
  WorkersPerClient = 1
  Thread <- MCThread
  Worker <- MCWorker
  clientOf <- MCClientOf
  Agent = {a1, a2}
  PoolMax = 1
  JobMax = 2
  MayFail = {"acquire", "release", "retry", "revoke"}
  MaxFail = 0
  NoThread = NoThread
  NoClient = NoClient
SYMMETRY Symmetry
SPECIFICATION Spec
INVARIANT MutualExclusion
CHECK_DEADLOCK FALSE
