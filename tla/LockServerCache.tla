--------------------------- MODULE LockServerCache ---------------------------
(***************************************************************************)
(* The caching lock server (lock_server_cache.cc), for one lock id.        *)
(*                                                                         *)
(* acquire and release run on RPC dispatch threads; retryer and revoker    *)
(* are threads that turn queue entries into jobs of rpc_thr_pool; the jobs *)
(* retryer_rpc and revoker_rpc call the clients.  An action is a stretch   *)
(* of code under lock_server_cache_mutex, except that the jobs read        *)
(* owner_cl without it.                                                    *)
(***************************************************************************)
EXTENDS Naturals, Sequences

CONSTANTS
  Client,    \* ids of the lock clients
  Agent,     \* threads of rpc_thr_pool
  JobMax,    \* capacity of rpc_thr_pool's job queue
  NoClient   \* the empty owner_cl

VARIABLES
  owner_cl,        \* the client the lock is granted to
  waiting_cls,     \* the clients that were told RETRY, oldest first
  retryer_queue,   \* how many times the lock is in retryer_queue
  revoker_queue,   \* how many times the lock is in revoker_queue
  retryerAsleep,   \* retryer() is in pthread_cond_wait
  revokerAsleep,   \* revoker() is in pthread_cond_wait
  sjobs,           \* jobs queued in rpc_thr_pool, oldest first
  run              \* what each pool thread is doing

lockVars == <<owner_cl, waiting_cls>>
retryVars == <<retryer_queue, retryerAsleep>>
revokeVars == <<revoker_queue, revokerAsleep>>
vars == <<lockVars, retryVars, revokeVars, sjobs, run>>

(* A pool thread: "start" is a dequeued job that has not read owner_cl     *)
(* yet; "calling" has sent its call to client cl; "blocked" is a revoke    *)
(* waiting inside the client; "OK" and "RPCERR" have the result.           *)
Kind == {"retry", "revoke"}
AgentPC == {"idle", "start", "calling", "blocked", "OK", "RPCERR"}
Idle == [pc |-> "idle", kind |-> "retry", cl |-> NoClient]

TypeOK ==
  /\ owner_cl \in Client \cup {NoClient}
  /\ waiting_cls \in Seq(Client)
  /\ retryer_queue \in Nat
  /\ revoker_queue \in Nat
  /\ retryerAsleep \in BOOLEAN
  /\ revokerAsleep \in BOOLEAN
  /\ sjobs \in Seq(Kind) /\ Len(sjobs) <= JobMax
  /\ run \in [Agent -> [pc : AgentPC, kind : Kind, cl : Client \cup {NoClient}]]

Init ==
  /\ owner_cl = NoClient
  /\ waiting_cls = <<>>
  /\ retryer_queue = 0
  /\ revoker_queue = 0
  /\ retryerAsleep = TRUE
  /\ revokerAsleep = TRUE
  /\ sjobs = <<>>
  /\ run = [a \in Agent |-> Idle]

-----------------------------------------------------------------------------
LockFree_unwaited == waiting_cls = <<>>  \* mutant: the wrong emptiness test
LockFree == owner_cl = NoClient

FirstWaiter_any == TRUE  \* mutant: queue_len is not looked at
FirstWaiter == waiting_cls = <<>>

AskRevoke_silent ==  \* mutant: without the signal
  revoker_queue' = revoker_queue + 1 /\ UNCHANGED revokerAsleep
AskRevoke == revoker_queue' = revoker_queue + 1 /\ revokerAsleep' = FALSE

(* acquire(id = c) granting the lock, and answering RETRY.                 *)
acquire_ok(c) ==
  /\ LockFree
  /\ owner_cl' = c
  /\ UNCHANGED <<waiting_cls, retryVars, revokeVars, sjobs, run>>

acquire_retry(c) ==
  /\ ~LockFree
  /\ IF FirstWaiter THEN AskRevoke ELSE UNCHANGED revokeVars
  /\ waiting_cls' = Append(waiting_cls, c)
  /\ UNCHANGED <<owner_cl, retryVars, sjobs, run>>

(* release(id = c), and its refusal, which changes nothing and answers     *)
(* IOERR.                                                                  *)
release(c) ==
  /\ owner_cl = c
  /\ owner_cl' = NoClient
  /\ retryer_queue' = retryer_queue + 1
  /\ retryerAsleep' = FALSE
  /\ UNCHANGED <<waiting_cls, revokeVars, sjobs, run>>

ReleaseRefused(c) == owner_cl # c

(* addObjJob, n times: a full job queue refuses the job, which is then     *)
(* forgotten.                                                              *)
AddJobs(kind, n) ==
  LET room == JobMax - Len(sjobs)
      k == IF n <= room THEN n ELSE room
  IN sjobs' = sjobs \o [i \in 1..k |-> kind]

NextOwner == Head(waiting_cls)

(* The retryer thread, once woken, keeps the mutex until it has emptied    *)
(* its queue.  The oldest waiter becomes the owner and stays in            *)
(* waiting_cls until its retry call has succeeded.                         *)
retryer_pop ==  \* mutant: with the waiting_cls.pop() the code comments out
  /\ ~retryerAsleep
  /\ IF waiting_cls # <<>> /\ retryer_queue > 0
       THEN /\ owner_cl' = NextOwner
            /\ waiting_cls' = Tail(waiting_cls)
            /\ AddJobs("retry", retryer_queue)
       ELSE UNCHANGED <<lockVars, sjobs>>
  /\ retryer_queue' = 0
  /\ retryerAsleep' = TRUE
  /\ UNCHANGED <<revokeVars, run>>

retryer ==
  /\ ~retryerAsleep
  /\ IF waiting_cls # <<>> /\ retryer_queue > 0
       THEN owner_cl' = NextOwner /\ AddJobs("retry", retryer_queue)
       ELSE UNCHANGED <<owner_cl, sjobs>>
  /\ retryer_queue' = 0
  /\ retryerAsleep' = TRUE
  /\ UNCHANGED <<waiting_cls, revokeVars, run>>

(* The revoker thread, likewise.                                           *)
revoker ==
  /\ ~revokerAsleep
  /\ IF waiting_cls # <<>> THEN AddJobs("revoke", revoker_queue)
                           ELSE UNCHANGED sjobs
  /\ revoker_queue' = 0
  /\ revokerAsleep' = TRUE
  /\ UNCHANGED <<lockVars, retryVars, run>>

-----------------------------------------------------------------------------
(* The pool gives the oldest job to an idle thread.                        *)
TakeJob(a) ==
  /\ run[a].pc = "idle"
  /\ sjobs # <<>>
  /\ run' = [run EXCEPT ![a].pc = "start", ![a].kind = Head(sjobs)]
  /\ sjobs' = Tail(sjobs)
  /\ UNCHANGED <<lockVars, retryVars, revokeVars>>

(* handle h(target->owner_cl) and safebind: the owner at this moment is    *)
(* called; there is nobody to bind to when owner_cl is empty.              *)
BindOwner(a) ==
  /\ run[a].pc = "start"
  /\ run' = [run EXCEPT ![a].cl = owner_cl,
                        ![a].pc = IF owner_cl = NoClient THEN "RPCERR"
                                                         ELSE "calling"]
  /\ UNCHANGED <<lockVars, retryVars, revokeVars, sjobs>>

(* The client's side of the call moves the job to pc p.                    *)
CallMoves(a, p) ==
  /\ run' = [run EXCEPT ![a].pc = p]
  /\ UNCHANGED <<lockVars, retryVars, revokeVars, sjobs>>

(* The rest of retryer_rpc.  After a failure the lock goes back into       *)
(* retryer_queue, without a signal.  To pop an empty waiting_cls is        *)
(* undefined in C++: nothing is claimed of what follows, the step is       *)
(* disabled, and NoEmptyPop (LockService) says it is not reached.          *)
retryer_rpc_kept(a) ==  \* mutant: without waiting_cls.pop()
  /\ run[a].kind = "retry"
  /\ \/ /\ run[a].pc = "RPCERR"
        /\ owner_cl' = NoClient
        /\ retryer_queue' = retryer_queue + 1
        /\ UNCHANGED <<waiting_cls, revokeVars>>
     \/ /\ run[a].pc = "OK"
        /\ AskRevoke
        /\ UNCHANGED <<lockVars, retryer_queue>>
  /\ run' = [run EXCEPT ![a] = Idle]
  /\ UNCHANGED <<retryerAsleep, sjobs>>

retryer_rpc(a) ==
  /\ run[a].kind = "retry"
  /\ \/ /\ run[a].pc = "RPCERR"
        /\ owner_cl' = NoClient
        /\ retryer_queue' = retryer_queue + 1
        /\ UNCHANGED <<waiting_cls, revokeVars>>
     \/ /\ run[a].pc = "OK"
        /\ waiting_cls # <<>>
        /\ waiting_cls' = Tail(waiting_cls)
        /\ IF Tail(waiting_cls) # <<>> THEN AskRevoke ELSE UNCHANGED revokeVars
        /\ UNCHANGED <<owner_cl, retryer_queue>>
  /\ run' = [run EXCEPT ![a] = Idle]
  /\ UNCHANGED <<retryerAsleep, sjobs>>

(* The rest of revoker_rpc.  After a failure the lock goes back into       *)
(* revoker_queue, without a signal.                                        *)
revoker_rpc(a) ==
  /\ run[a].kind = "revoke"
  /\ run[a].pc \in {"OK", "RPCERR"}
  /\ revoker_queue' = IF run[a].pc = "OK" THEN revoker_queue
                                          ELSE revoker_queue + 1
  /\ run' = [run EXCEPT ![a] = Idle]
  /\ UNCHANGED <<lockVars, retryVars, revokerAsleep, sjobs>>

(* POSIX lets a condition wait return without a signal.  Only a thread     *)
(* that finds something in its queue does not wait again at once.          *)
SpuriousWakeup ==
  /\ \/ /\ retryerAsleep /\ retryer_queue > 0
        /\ retryerAsleep' = FALSE
        /\ UNCHANGED revokerAsleep
     \/ /\ revokerAsleep /\ revoker_queue > 0
        /\ revokerAsleep' = FALSE
        /\ UNCHANGED retryerAsleep
  /\ UNCHANGED <<lockVars, retryer_queue, revoker_queue, sjobs, run>>
=============================================================================
