CONSTANTS
  Client = {c1, c2}
  ThreadsPerClient = 2
  Solo = {c2}
  WorkersPerClient = 1
  Thread <- MCThread
  Worker <- MCWorker
  clientOf <- MCClientOf
  Agent = {a1, a2}
  PoolMax = 1
  JobMax = 2
  MayFail = {"acquire", "release", "retry", "revoke"}
  MaxFail = 2
  NoThread = NoThread
  NoClient = NoClient
SYMMETRY Symmetry
CONSTRAINT Claimed
SPECIFICATION Spec
INVARIANTS ExclusiveUnlessBarged FailureContained JobsBounded
PROPERTY ServesClients
CHECK_DEADLOCK FALSE
