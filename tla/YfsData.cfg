CONSTANTS
  Client = {c1, c2}
  File = {f1}
  Dir = {root}
  Root = root
  Name = {a}
  DirName = {}
  Request <- MCRequest
  Ops = {"setattr", "read", "write", "create", "lookup", "unlink"}
  Sizes = {0, 1}
  Offsets = {1}
  Collide = FALSE
  MaxLines = 2
  MaxFail = 1
  None = None
SPECIFICATION FairSpec
INVARIANTS TypeOK LocksReturned
PROPERTIES OperationsAtomic OwnerChanges HandlersFinish
CHECK_DEADLOCK TRUE
