CONSTANTS
  Base = 4
  DEFAULT_RPC_SZ = 30
  MsPerSec = 2
  NsPerMs = 1
  Calls <- MCCalls
  to_min = 2
  MaxConn = 2
  LastStart = 3
  MaxTime = 7
SPECIFICATION FairSpec
INVARIANTS TypeOK ArgsExact ReplyExact DeadlinesKept OncePerChannel NotStranded
PROPERTY CallEnds
CHECK_DEADLOCK FALSE
