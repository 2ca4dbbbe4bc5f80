------------------------- MODULE MCLockServiceLive -------------------------
(* Small instances of LockServiceLive.                                     *)
EXTENDS LockServiceLive
CONSTANTS ThreadsPerClient, WorkersPerClient

MCThread == {<<"t", c, i>> : c \in Client, i \in 1..ThreadsPerClient}
MCWorker == {<<"w", c, i>> : c \in Client, i \in 1..WorkersPerClient}
MCClientOf == [p \in MCThread \cup MCWorker |-> p[2]]
=============================================================================
