----------------------------- MODULE LockService -----------------------------
(***************************************************************************)
(* The lock service: caching clients and the lock server, calling each     *)
(* other over RPC.  A call that has been sent is the caller's "calling"    *)
(* state; serving it is one step of the callee, after which the reply is   *)
(* on its way; the caller's next step takes the reply.  Calls and replies  *)
(* of different callers overtake each other freely, and none is lost: the  *)
(* RPC layer retransmits and filters duplicates.  A call may time out; if  *)
(* its request was still on its way, it may be served at any later time.   *)
(***************************************************************************)
EXTENDS Naturals, Sequences, FiniteSets

CONSTANTS Client, Thread, Worker, Agent, clientOf, PoolMax, JobMax,
          NoThread, NoClient,
          MayFail, \* the RPCs that may fail, once each
          MaxFail  \* how many of them do

(* A revoke_handler runs in the client on behalf of a server pool thread.  *)
Handler == Client \X Agent

ASSUME ServiceAssumption ==
  /\ clientOf \in [Thread \cup Worker -> Client]
  /\ (Thread \cup Worker) \cap Handler = {}
  /\ NoThread \notin Thread
  /\ PoolMax \in Nat
  /\ JobMax \in Nat
  /\ NoClient \notin Client
  /\ MayFail \subseteq {"acquire", "release", "retry", "revoke"}
  /\ MaxFail \in Nat

VARIABLES state, owner, ifrevoke, iftimout, ifrlsreq, wait_threads,
          releaser_queue, asleep, jobs, pc, wpc, hpc,
          owner_cl, waiting_cls, retryer_queue, revoker_queue,
          retryerAsleep, revokerAsleep, sjobs, run,
          failed,     \* which calls have failed so far
          abandoned,  \* those of them whose request is still on its way
          barged,     \* history: acquire was granted over the waiters' heads
          stale       \* history: an abandoned request took effect although
                      \* its client was no longer waiting for that

(* The client each of its threads belongs to, the revoke_handlers included. *)
homeOf == [p \in Thread \cup Worker \cup Handler |->
             IF p \in Handler THEN p[1] ELSE clientOf[p]]

C == INSTANCE LockClientCache WITH clientOf <- homeOf
S == INSTANCE LockServerCache

clientVars == <<state, owner, ifrevoke, iftimout, ifrlsreq, wait_threads,
                releaser_queue, asleep, jobs, pc, wpc, hpc>>
serverVars == <<owner_cl, waiting_cls, retryer_queue, revoker_queue,
                retryerAsleep, revokerAsleep, sjobs, run>>
failVars == <<failed, abandoned, stale>>
vars == <<clientVars, serverVars, barged, failVars>>

Init ==
  /\ C!Init /\ S!Init
  /\ barged = FALSE /\ failed = {} /\ abandoned = {} /\ stale = FALSE

-----------------------------------------------------------------------------
(* Steps of a client or of the server alone, one definition per process.   *)
ServerIdle == UNCHANGED <<serverVars, barged, failVars>>
ClientsIdle == UNCHANGED <<clientVars, barged, failVars>>

Call(t) == C!acquire(t) /\ ServerIdle
ThreadStep(t) ==
  /\ C!acquire_wakeup(t) \/ C!acquire_return(t) \/ C!release(t)
  /\ ServerIdle
Releaser(c) == C!releaser(c) /\ ServerIdle
WorkerStep(w) ==
  /\ C!releaser_rpc(w) \/ C!releaser_timeout(w) \/ C!release_return(w)
  /\ ServerIdle
Retryer == S!retryer /\ ClientsIdle
Revoker == S!revoker /\ ClientsIdle
AgentStep(a) ==
  /\ S!TakeJob(a) \/ S!BindOwner(a) \/ S!retryer_rpc(a) \/ S!revoker_rpc(a)
  /\ ClientsIdle

(* The server serves an acquire or a release call.                         *)
ServeAcquire(t) ==
  LET c == clientOf[t] IN
  /\ \/ /\ S!acquire_ok(c)
        /\ C!AcquireReply(t, "granted")
        /\ barged' = (barged \/ waiting_cls # <<>>)
     \/ /\ S!acquire_retry(c)
        /\ C!AcquireReply(t, "retry")
        /\ UNCHANGED barged
  /\ UNCHANGED failVars

ServeRelease(w) ==
  LET c == clientOf[w] IN
  /\ \/ S!release(c) /\ C!ReleaseReply(w, "ok")
     \/ S!ReleaseRefused(c) /\ C!ReleaseReply(w, "err") /\ UNCHANGED serverVars
  /\ UNCHANGED <<barged, failVars>>

(* A client serves a retry or a revoke call of pool thread a.  The revoke  *)
(* may have to wait inside the client; its call may have failed meanwhile. *)
(* A client is only called once it is an owner, hence has a cache entry.   *)
ServeRetry(a) ==
  LET c == run[a].cl IN
  /\ run[a].pc = "calling" /\ run[a].kind = "retry"
  /\ \/ C!retry_handler(c) /\ S!CallMoves(a, "OK")
     \/ C!RetryRefused(c) /\ S!CallMoves(a, "RPCERR") /\ UNCHANGED clientVars
  /\ UNCHANGED <<barged, failVars>>

RevokeMoves(c, a) ==
  S!CallMoves(a, IF hpc'[<<c, a>>] = "idle" THEN "OK" ELSE "blocked")

ServeRevoke(a) ==
  LET c == run[a].cl IN
  /\ run[a].pc = "calling" /\ run[a].kind = "revoke"
  /\ C!revoke_handler(<<c, a>>)
  /\ RevokeMoves(c, a)
  /\ UNCHANGED <<barged, failVars>>

ResumeRevoke(c, a) ==
  /\ C!revoke_wakeup(<<c, a>>)
  /\ IF run[a].pc = "blocked" /\ run[a].cl = c
       THEN RevokeMoves(c, a)
       ELSE UNCHANGED serverVars
  /\ UNCHANGED <<barged, failVars>>

(* The RPC layer gives up on a call after rpcc::to_max, whether or not the *)
(* callee has served it.  call1 then forgets the call on the caller's side *)
(* only: a request that has not been served yet stays on its way.          *)
GiveUp(rpc, c, p, unserved) ==
  abandoned' = abandoned \cup IF unserved THEN {[rpc |-> rpc, cl |-> c, by |-> p]}
                                          ELSE {}

CallFails(rpc) ==
  /\ rpc \notin failed /\ Cardinality(failed) < MaxFail
  /\ failed' = failed \cup {rpc}
  /\ \/ /\ rpc = "acquire"
        /\ \E t \in Thread : /\ pc[t] \in {"calling", "granted", "retry"}
                             /\ pc' = [pc EXCEPT ![t] = "failed"]
                             /\ GiveUp(rpc, clientOf[t], t, pc[t] = "calling")
        /\ UNCHANGED <<wpc, run>>
     \/ /\ rpc = "release"
        /\ \E w \in Worker : /\ wpc[w] \in {"calling", "ok"}
                             /\ wpc' = [wpc EXCEPT ![w] = "err"]
                             /\ GiveUp(rpc, clientOf[w], w, wpc[w] = "calling")
        /\ UNCHANGED <<pc, run>>
     \/ /\ \E a \in Agent : /\ run[a].pc \in {"calling", "blocked", "OK"}
                            /\ run[a].kind = rpc
                            /\ run' = [run EXCEPT ![a].pc = "RPCERR"]
                            /\ GiveUp(rpc, run[a].cl, a, run[a].pc = "calling")
        /\ UNCHANGED <<pc, wpc>>
  /\ UNCHANGED <<state, owner, ifrevoke, iftimout, ifrlsreq, wait_threads,
                 releaser_queue, asleep, jobs, hpc, owner_cl, waiting_cls,
                 retryer_queue, revoker_queue, retryerAsleep, revokerAsleep,
                 sjobs, barged, stale>>

(* An abandoned request is served after all, and nobody takes its reply.   *)
(* It does what it was sent for only if its client is still giving the     *)
(* lock back, or is still waiting for the retry; otherwise it is stale.    *)
Returning(c) ==
  \/ releaser_queue[c] + jobs[c] > 0
  \/ \E w \in Worker : clientOf[w] = c /\ wpc[w] # "idle"

LateAcquire(c) ==
  /\ \/ S!acquire_ok(c) /\ barged' = (barged \/ waiting_cls # <<>>)
     \/ S!acquire_retry(c) /\ UNCHANGED barged
  /\ UNCHANGED <<clientVars, stale>>

LateRelease(c) ==
  /\ \/ S!release(c) /\ stale' = (stale \/ ~Returning(c))
     \/ S!ReleaseRefused(c) /\ UNCHANGED <<serverVars, stale>>
  /\ UNCHANGED <<clientVars, barged>>

LateRetry(c) ==
  /\ \/ C!retry_handler(c) /\ stale' = (stale \/ ~C!RetryDue(c))
     \/ C!RetryRefused(c) /\ UNCHANGED <<clientVars, stale>>
  /\ UNCHANGED <<serverVars, barged>>

LateRevoke(c, a) ==
  /\ C!revoke_handler(<<c, a>>)
  /\ UNCHANGED <<serverVars, barged, stale>>

ServeLate(m) ==
  /\ \/ m.rpc = "acquire" /\ LateAcquire(m.cl)
     \/ m.rpc = "release" /\ LateRelease(m.cl)
     \/ m.rpc = "retry" /\ LateRetry(m.cl)
     \/ m.rpc = "revoke" /\ LateRevoke(m.cl, m.by)
  /\ abandoned' = abandoned \ {m}
  /\ UNCHANGED failed

(* Everything but the workers' own steps and the application's calls.      *)
Step ==
  \/ \E t \in Thread : ThreadStep(t) \/ ServeAcquire(t)
  \/ \E c \in Client : Releaser(c)
  \/ \E w \in Worker : ServeRelease(w)
  \/ Retryer
  \/ Revoker
  \/ \E a \in Agent : AgentStep(a) \/ ServeRetry(a) \/ ServeRevoke(a)
  \/ \E c \in Client, a \in Agent : ResumeRevoke(c, a)
  \/ \E rpc \in MayFail : CallFails(rpc)
  \/ \E m \in abandoned : ServeLate(m)

SpuriousWakeup ==
  \/ C!SpuriousWakeup /\ ServerIdle
  \/ S!SpuriousWakeup /\ ClientsIdle

Next ==
  \/ Step
  \/ SpuriousWakeup
  \/ \E w \in Worker : WorkerStep(w)
  \/ \E t \in Thread : Call(t)

Spec == Init /\ [][Next]_vars

-----------------------------------------------------------------------------
(* The two clients of a lock never both hold it: what lock_tester's        *)
(* check_grant looks for.  It does not hold of this code: release empties  *)
(* owner_cl, and until the retryer thread has run an acquire that arrives  *)
(* is granted although waiting_cls is not empty; the retryer then grants   *)
(* the lock again, to the waiter.                                          *)
Holding(c) == \E t \in Thread : clientOf[t] = c /\ pc[t] = "held"
MutualExclusion ==
  \A c, d \in Client : Holding(c) /\ Holding(d) => c = d

(* That window is the only thing wrong with the protocol as long as no RPC *)
(* fails: if acquire never overtakes the waiters, no two clients hold the  *)
(* lock.                                                                   *)
Undisturbed == ~barged /\ failed = {}
ExclusiveUnlessBarged == Undisturbed => MutualExclusion

(* Under the same condition a client that has the lock in its cache, held  *)
(* or not, is the client the server has on record, so that its release     *)
(* will be accepted.                                                       *)
CachedMeansOwned ==
  Undisturbed =>
    \A c \in Client : state[c] \in {"FREE", "LOCKED"} => owner_cl = c

(* retryer_rpc never pops an empty waiting_cls: no two retry calls are     *)
(* answered OK on behalf of one entry.                                     *)
NoEmptyPop ==
  \A a \in Agent :
    run[a].kind = "retry" /\ run[a].pc = "OK" => waiting_cls # <<>>

(* There is never more than one revoke on its way to, or waiting in, the   *)
(* clients: the reason given in retryer for leaving the waiter in          *)
(* waiting_cls until its retry has succeeded.                              *)
Revoking(a) ==
  run[a].kind = "revoke" /\ run[a].pc \in {"start", "calling", "blocked"}
NoDoubleRevoke ==
  \A a, b \in Agent : Revoking(a) /\ Revoking(b) => a = b

(* The server is one the clients can rely on: seen from the clients, every *)
(* step of the service is a step of LockClientCache's specification, whose *)
(* theorems (no two threads of a client hold the lock, the VERIFYs hold)   *)
(* therefore hold in the service until an RPC fails.                       *)
ServesClients == C!Init /\ [][failed' = {} => C!Next]_(C!vars)

(* A release or a retry call that fails, whether the callee has served it, *)
(* serves it later or never does, and that is therefore repeated, upsets   *)
(* nobody's bookkeeping: each client still has at most one release and one *)
(* undecided acquire under way and its lock is LOCKED exactly while the    *)
(* thread on record holds it, no waiter is popped twice and no lock is     *)
(* revoked twice.  That ends when a request which was given up is served   *)
(* after its client has gone on: a release when the client has the lock    *)
(* anew, a retry when it is calling acquire anew; nothing in the code      *)
(* tells those from the new ones.  (A failed acquire or revoke call does   *)
(* break all this, and any failure may break MutualExclusion.)             *)
Contained == failed \subseteq {"release", "retry"} /\ ~stale
FailureContained ==
  Contained => C!ClientInv /\ S!TypeOK /\ NoEmptyPop /\ NoDoubleRevoke

(* Neither do such failures fill the server's pool: a lock never has more  *)
(* than one retry or revoke that is wanted, queued or not yet answered,    *)
(* although acquire, retryer_rpc after a success and both jobs after a     *)
(* failure each ask for more.  One place of the job queue is therefore     *)
(* enough for a lock; the pool refuses its jobs (and retryer and revoker,  *)
(* which ignore addObjJob's answer, forget them) only when it is shared by *)
(* more locks than its capacity.                                           *)
Errands ==
  {<<"retryer_queue", i>> : i \in 1..retryer_queue}
  \cup {<<"revoker_queue", i>> : i \in 1..revoker_queue}
  \cup {<<"job", i>> : i \in DOMAIN sjobs}
  \cup {<<"thread", a>> : a \in {b \in Agent :
                                 run[b].pc \in {"start", "calling", "blocked"}}}
JobsBounded == Contained => \A x, y \in Errands : x = y
=============================================================================
