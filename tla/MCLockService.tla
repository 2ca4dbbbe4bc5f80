--------------------------- MODULE MCLockService ---------------------------
(* Small instances of the lock service.  Every client has                  *)
(* WorkersPerClient pool workers and ThreadsPerClient threads, except that *)
(* the clients in Solo have one thread.                                    *)
EXTENDS LockService, TLC
CONSTANTS ThreadsPerClient, WorkersPerClient, Solo

ThreadsOf(c) == IF c \in Solo THEN 1 ELSE ThreadsPerClient
MCThread == UNION {{<<"t", c, i>> : i \in 1..ThreadsOf(c)} : c \in Client}
MCWorker == {<<"w", c, i>> : c \in Client, i \in 1..WorkersPerClient}
MCClientOf == [p \in MCThread \cup MCWorker |-> p[2]]

(* Clients are interchangeable when they have as many threads.             *)
Symmetry == Permutations(Client \ Solo) \cup Permutations(Agent)

(* Nothing is claimed of what follows a failed acquire or revoke call, or  *)
(* a stale request.  TLC follows such a call only while its caller has not *)
(* yet been told, which is long enough for the request to be served late;  *)
(* and after a second failure it follows one thread of each client.        *)
Untold(m) ==
  \/ m.rpc = "acquire" /\ pc[m.by] = "failed"
  \/ m.rpc = "revoke" /\ run[m.by].pc = "RPCERR"
OneEach == \A t \in Thread : t[3] > 1 => pc[t] = "idle"
Claimed ==
  \/ Contained /\ (Cardinality(failed) > 1 => OneEach)
  \/ Cardinality(failed) = 1 /\ \E m \in abandoned : Untold(m)
=============================================================================
