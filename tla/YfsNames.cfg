CONSTANTS
  Client = {c1, c2}
  File = {f1, f2}
  Dir = {root, d1}
  Root = root
  Name = {a, b}
  DirName = {b}
  Request <- MCRequest
  Ops = {"create", "unlink", "mkdir", "readdir", "open"}
  Sizes = {0}
  Offsets = {0}
  Collide = FALSE
  MaxLines = 2
  MaxFail = 1
  None = None
SYMMETRY Symmetry
SPECIFICATION Spec
CONSTRAINT OneActive
INVARIANT NamesUnique
PROPERTIES OperationsAtomic ListsLiveFiles
CHECK_DEADLOCK TRUE
