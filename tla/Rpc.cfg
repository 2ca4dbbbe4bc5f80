\* Three calls over two connections, one restart of the server, datagrams lost
\* and delayed on purpose (RPC_LOSSY): every disjunct of every action fires.
CONSTANTS
  MaxXid = 3
  MaxConn = 2
  MaxRestart = 1
  Lossy = TRUE
SPECIFICATION Spec
INVARIANTS XidRepExact AtMostOnceInOrder OkMeansExecuted
CHECK_DEADLOCK FALSE
