------------------------- MODULE MCLockClientCache -------------------------
(* One client process under any server that keeps the client's contract.   *)
EXTENDS LockClientCache, TLC

MCClientOf == [p \in Thread \cup Worker \cup Handler |->
                 CHOOSE c \in Client : TRUE]

Symmetry == Permutations(Thread) \cup Permutations(Worker)
              \cup Permutations(Handler)
=============================================================================
