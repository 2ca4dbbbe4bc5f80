CONSTANTS
  Client = {c1}
  Thread = {t1, t2, t3}
  Worker = {w1, w2}
  Handler = {h1, h2}
  clientOf <- MCClientOf
  PoolMax = 1
  NoThread = NoThread
SYMMETRY Symmetry
SPECIFICATION Spec
INVARIANTS ClientInv LocalExclusion VerifyReleasing OneCallAtATime
PROPERTY OnlyHolderUnlocks
CHECK_DEADLOCK TRUE
