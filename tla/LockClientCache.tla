--------------------------- MODULE LockClientCache ---------------------------
(***************************************************************************)
(* The caching lock client (lock_client_cache.cc), for one lock id.        *)
(*                                                                         *)
(* All of a client's state is protected by lock_client_cache_mutex, which  *)
(* is dropped only around RPCs and inside condition waits.  One action is  *)
(* therefore one stretch of code between taking the mutex and giving it    *)
(* up.  The lock server is the environment here: it answers acquire and    *)
(* release calls and sends retry and revoke calls.  LockService composes   *)
(* this module with the server.                                            *)
(***************************************************************************)
EXTENDS Integers

CONSTANTS
  Client,    \* lock_client_cache objects, one per process
  Thread,    \* application threads calling acquire and release
  Worker,    \* threads of rpc_thr_pool, running releaser_rpc
  Handler,   \* RPC dispatch threads, running revoke_handler
  clientOf,  \* the client a thread, worker or handler belongs to
  PoolMax,   \* capacity of rpc_thr_pool's job queue
  NoThread   \* the owner of a lock nobody has taken

ASSUME ClientAssumption ==
  /\ clientOf \in [Thread \cup Worker \cup Handler -> Client]
  /\ PoolMax \in Nat
  /\ NoThread \notin Thread

VARIABLES
  state,           \* cache_lock.state; "ABSENT" before the entry exists
  owner,           \* cache_lock.owner
  ifrevoke,        \* a revoke_handler is (or was) waiting for the lock
  iftimout,        \* a releaser_rpc has waited long enough
  ifrlsreq,        \* a releaser_rpc is waiting for the lock
  wait_threads,    \* number of threads inside acquire
  releaser_queue,  \* how many times the lock is in releaser_queue
  asleep,          \* releaser() is in pthread_cond_wait(releaser_cond)
  jobs,            \* releaser_rpc jobs queued in rpc_thr_pool
  pc,              \* where each application thread is
  wpc,             \* where each pool thread is
  hpc              \* where each revoke_handler is

lockVars == <<state, owner, ifrevoke, iftimout, ifrlsreq, wait_threads>>
queueVars == <<releaser_queue, asleep, jobs>>
vars == <<lockVars, queueVars, pc, wpc, hpc>>

LockState == {"ABSENT", "NONE", "FREE", "LOCKED", "ACQUIRING", "RELEASING"}

(* "calling": the acquire request is on its way or being served;           *)
(* "granted", "retry" and "failed": the reply (OK or RETRY) is on its way  *)
(* back, or the RPC layer has given up; "waiting" and "woken": in          *)
(* pthread_cond_wait on queue_cond.                                        *)
ThreadPC ==
  {"idle", "calling", "granted", "retry", "failed", "waiting", "woken", "held"}
WorkerPC == {"idle", "timed", "calling", "ok", "err"}
HandlerPC == {"idle", "waiting", "woken"}

TypeOK ==
  /\ state \in [Client -> LockState]
  /\ owner \in [Client -> Thread \cup {NoThread}]
  /\ ifrevoke \in [Client -> BOOLEAN]
  /\ iftimout \in [Client -> BOOLEAN]
  /\ ifrlsreq \in [Client -> BOOLEAN]
  /\ wait_threads \in [Client -> Int]
  /\ releaser_queue \in [Client -> Nat]
  /\ asleep \in [Client -> BOOLEAN]
  /\ jobs \in [Client -> 0..PoolMax]
  /\ pc \in [Thread -> ThreadPC]
  /\ wpc \in [Worker -> WorkerPC]
  /\ hpc \in [Handler -> HandlerPC]

Init ==
  /\ state = [c \in Client |-> "ABSENT"]
  /\ owner = [c \in Client |-> NoThread]
  /\ ifrevoke = [c \in Client |-> FALSE]
  /\ iftimout = [c \in Client |-> FALSE]
  /\ ifrlsreq = [c \in Client |-> FALSE]
  /\ wait_threads = [c \in Client |-> 0]
  /\ releaser_queue = [c \in Client |-> 0]
  /\ asleep = [c \in Client |-> TRUE]
  /\ jobs = [c \in Client |-> 0]
  /\ pc = [t \in Thread |-> "idle"]
  /\ wpc = [w \in Worker |-> "idle"]
  /\ hpc = [h \in Handler |-> "idle"]

-----------------------------------------------------------------------------
(* pthread_cond_signal: one of the waiters, if any, leaves the wait.       *)
Signalled(f, waiters) ==
  IF waiters = {} THEN {f} ELSE {[f EXCEPT ![x] = "woken"] : x \in waiters}

QueueWaiters(c) == {t \in Thread : clientOf[t] = c /\ pc[t] = "waiting"}
RevokeWaiters(c) == {h \in Handler : clientOf[h] = c /\ hpc[h] = "waiting"}

(***************************************************************************)
(* acquire.  TakeOrWait is the switch on the state, entered with the mutex *)
(* held and n threads counted in wait_threads, this one included: at the   *)
(* start, after a wait on queue_cond, and at RETRY_WAIT after a RETRY      *)
(* reply.  A lock that is LOCKED by the calling thread itself is returned  *)
(* at once with nothing changed, and is left out.                          *)
(***************************************************************************)
GiveTo(t, n) ==
  LET c == clientOf[t] IN
  /\ state' = [state EXCEPT ![c] = "LOCKED"]
  /\ owner' = [owner EXCEPT ![c] = t]
  /\ wait_threads' = [wait_threads EXCEPT ![c] = n - 1]
  /\ pc' = [pc EXCEPT ![t] = "held"]

TakeOrWait(t, n) ==
  LET c == clientOf[t] IN
  /\ \/ /\ state[c] = "FREE"
        /\ GiveTo(t, n)
     \/ /\ state[c] \in {"ABSENT", "NONE"}
        /\ state' = [state EXCEPT ![c] = "ACQUIRING"]
        /\ wait_threads' = [wait_threads EXCEPT ![c] = n]
        /\ pc' = [pc EXCEPT ![t] = "calling"]
        /\ UNCHANGED owner
     \/ /\ state[c] \in {"LOCKED", "ACQUIRING", "RELEASING"}
        /\ wait_threads' = [wait_threads EXCEPT ![c] = n]
        /\ pc' = [pc EXCEPT ![t] = "waiting"]
        /\ UNCHANGED <<state, owner>>
  /\ UNCHANGED <<ifrevoke, iftimout, ifrlsreq, queueVars, wpc, hpc>>

acquire(t) ==
  /\ pc[t] = "idle"
  /\ TakeOrWait(t, wait_threads[clientOf[t]] + 1)

acquire_wakeup_if(t) ==  \* mutant: "if" for "while" around the wait
  /\ pc[t] = "woken"
  /\ GiveTo(t, wait_threads[clientOf[t]])
  /\ UNCHANGED <<ifrevoke, iftimout, ifrlsreq, queueVars, wpc, hpc>>

acquire_wakeup(t) ==
  /\ pc[t] = "woken"
  /\ TakeOrWait(t, wait_threads[clientOf[t]])

(* Whatever state the lock is in by now, anything but RETRY, a failure of  *)
(* the call included, makes it LOCKED.                                     *)
acquire_return(t) ==
  \/ /\ pc[t] = "retry"
     /\ TakeOrWait(t, wait_threads[clientOf[t]])
  \/ /\ pc[t] \in {"granted", "failed"}
     /\ GiveTo(t, wait_threads[clientOf[t]])
     /\ UNCHANGED <<ifrevoke, iftimout, ifrlsreq, queueVars, wpc, hpc>>

(* The signal on tmout_cond has no counterpart: a releaser_rpc in its      *)
(* timed wait may come out of it at any moment anyway.                     *)
release(t) ==
  LET c == clientOf[t]
      left == [pc EXCEPT ![t] = "idle"]
      timedFirst == iftimout[c] \/ (ifrlsreq[c] /\ wait_threads[c] = 0)
  IN
  /\ pc[t] = "held"
  /\ \/ /\ state[c] = "LOCKED" /\ owner[c] = t
        /\ state' = [state EXCEPT ![c] = "FREE"]
        /\ \/ /\ timedFirst
              /\ pc' = left
              /\ UNCHANGED hpc
           \/ /\ ~timedFirst /\ ifrevoke[c]
              /\ pc' = left
              /\ hpc' \in Signalled(hpc, RevokeWaiters(c))
           \/ /\ ~timedFirst /\ ~ifrevoke[c]
              /\ pc' \in Signalled(left, QueueWaiters(c))
              /\ UNCHANGED hpc
     \/ /\ ~(state[c] = "LOCKED" /\ owner[c] = t)  \* returns NOENT
        /\ pc' = left
        /\ UNCHANGED <<state, hpc>>
  /\ UNCHANGED <<owner, ifrevoke, iftimout, ifrlsreq, wait_threads,
                 queueVars, wpc>>

-----------------------------------------------------------------------------
(* revoke_handler: waits for the lock to be FREE, then hands it to the     *)
(* releaser.  Without a cache entry it answers RPCERR and changes nothing. *)
Revocable_twice(c) == state[c] \in {"FREE", "RELEASING"}  \* mutant

Revocable(c) == state[c] = "FREE"

RevokeOrWait(h) ==
  LET c == clientOf[h] IN
  /\ \/ /\ Revocable(c)
        /\ state' = [state EXCEPT ![c] = "RELEASING"]
        /\ ifrevoke' = [ifrevoke EXCEPT ![c] = FALSE]
        /\ releaser_queue' = [releaser_queue EXCEPT ![c] = @ + 1]
        /\ asleep' = [asleep EXCEPT ![c] = FALSE]
        /\ hpc' = [hpc EXCEPT ![h] = "idle"]
     \/ /\ ~Revocable(c)
        /\ ifrevoke' = [ifrevoke EXCEPT ![c] = @ \/ hpc[h] = "idle"]
        /\ hpc' = [hpc EXCEPT ![h] = "waiting"]
        /\ UNCHANGED <<state, releaser_queue, asleep>>
  /\ UNCHANGED <<owner, iftimout, ifrlsreq, wait_threads, jobs, pc, wpc>>

revoke_handler(h) ==
  /\ hpc[h] = "idle"
  /\ state[clientOf[h]] # "ABSENT"
  /\ RevokeOrWait(h)

revoke_wakeup(h) ==
  /\ hpc[h] = "woken"
  /\ RevokeOrWait(h)

(* retry_handler answers RPCERR, changing nothing, unless the client is    *)
(* still waiting for the lock.                                             *)
RetryRefused_never(c) == FALSE  \* mutant: the state is not looked at

RetryRefused(c) == state[c] # "ACQUIRING"

retry_handler(c) ==
  /\ ~RetryRefused(c)
  /\ state' = [state EXCEPT ![c] = "FREE"]
  /\ pc' \in Signalled(pc, QueueWaiters(c))
  /\ UNCHANGED <<owner, ifrevoke, iftimout, ifrlsreq, wait_threads,
                 queueVars, wpc, hpc>>

-----------------------------------------------------------------------------
(* The releaser thread, once woken, keeps the mutex until it has given the *)
(* whole queue to the pool and waits again.  A full pool refuses a job,    *)
(* and the lock is forgotten.                                              *)
releaser(c) ==
  LET n == jobs[c] + releaser_queue[c] IN
  /\ ~asleep[c]
  /\ jobs' = [jobs EXCEPT ![c] = IF n <= PoolMax THEN n ELSE PoolMax]
  /\ releaser_queue' = [releaser_queue EXCEPT ![c] = 0]
  /\ asleep' = [asleep EXCEPT ![c] = TRUE]
  /\ UNCHANGED <<lockVars, pc, wpc, hpc>>

(* releaser_rpc, from the start of the job.  With threads inside acquire   *)
(* the lock is put back to FREE for a while, and no waiter is told.  A     *)
(* failed VERIFY ends the process: VerifyReleasing says none fails.        *)
SendRelease(w) ==
  LET c == clientOf[w] IN
  /\ state' = [state EXCEPT ![c] = "RELEASING"]
  /\ iftimout' = [iftimout EXCEPT ![c] = FALSE]
  /\ ifrlsreq' = [ifrlsreq EXCEPT ![c] = FALSE]
  /\ wpc' = [wpc EXCEPT ![w] = "calling"]

releaser_rpc(w) ==
  LET c == clientOf[w] IN
  /\ wpc[w] = "idle"
  /\ jobs[c] > 0
  /\ state[c] = "RELEASING"  \* VERIFY
  /\ jobs' = [jobs EXCEPT ![c] = @ - 1]
  /\ \/ /\ wait_threads[c] > 0
        /\ state' = [state EXCEPT ![c] = "FREE"]
        /\ ifrlsreq' = [ifrlsreq EXCEPT ![c] = TRUE]
        /\ wpc' = [wpc EXCEPT ![w] = "timed"]
        /\ UNCHANGED iftimout
     \/ /\ ~(wait_threads[c] > 0)
        /\ SendRelease(w)
  /\ UNCHANGED <<owner, ifrevoke, wait_threads, releaser_queue, asleep,
                 pc, hpc>>

(* pthread_cond_timedwait returns, signalled or timed out.                 *)
releaser_timeout_once(w) ==  \* mutant: the state is not looked at again
  /\ wpc[w] = "timed"
  /\ SendRelease(w)
  /\ UNCHANGED <<owner, ifrevoke, wait_threads, queueVars, pc, hpc>>

releaser_timeout(w) ==
  LET c == clientOf[w] IN
  /\ wpc[w] = "timed"
  /\ \/ /\ state[c] = "FREE"
        /\ SendRelease(w)
     \/ /\ state[c] # "FREE"
        /\ iftimout' = [iftimout EXCEPT ![c] = TRUE]
        /\ UNCHANGED <<state, ifrlsreq, wpc>>
  /\ UNCHANGED <<owner, ifrevoke, wait_threads, queueVars, pc, hpc>>

(* After the release RPC.  A lock whose release failed goes back into      *)
(* releaser_queue, but releaser_cond is not signalled.                     *)
release_return(w) ==
  LET c == clientOf[w] IN
  /\ state[c] = "RELEASING"  \* VERIFY
  /\ \/ /\ wpc[w] = "ok"
        /\ owner' = [owner EXCEPT ![c] = NoThread]
        /\ state' = [state EXCEPT ![c] = "NONE"]
        /\ pc' \in IF wait_threads[c] > 0 THEN Signalled(pc, QueueWaiters(c))
                                          ELSE {pc}
        /\ UNCHANGED releaser_queue
     \/ /\ wpc[w] = "err"
        /\ releaser_queue' = [releaser_queue EXCEPT ![c] = @ + 1]
        /\ UNCHANGED <<state, owner, pc>>
  /\ wpc' = [wpc EXCEPT ![w] = "idle"]
  /\ UNCHANGED <<ifrevoke, iftimout, ifrlsreq, wait_threads, asleep, jobs,
                 hpc>>

(* POSIX lets a condition wait return without a signal.  Only a thread     *)
(* that finds what it waits for does not wait again at once.               *)
SpuriousWakeup ==
  /\ \/ /\ \E t \in Thread : /\ pc[t] = "waiting"
                             /\ state[clientOf[t]] \in {"FREE", "NONE"}
                             /\ pc' = [pc EXCEPT ![t] = "woken"]
        /\ UNCHANGED <<hpc, asleep>>
     \/ /\ \E h \in Handler : /\ hpc[h] = "waiting"
                              /\ state[clientOf[h]] = "FREE"
                              /\ hpc' = [hpc EXCEPT ![h] = "woken"]
        /\ UNCHANGED <<pc, asleep>>
     \/ /\ \E c \in Client : /\ asleep[c] /\ releaser_queue[c] > 0
                             /\ asleep' = [asleep EXCEPT ![c] = FALSE]
        /\ UNCHANGED <<pc, hpc>>
  /\ UNCHANGED <<lockVars, releaser_queue, jobs, wpc>>

-----------------------------------------------------------------------------
(* The server's side of the calls the client makes.                        *)
AcquireReply(t, r) ==
  /\ pc[t] = "calling"
  /\ pc' = [pc EXCEPT ![t] = r]
  /\ UNCHANGED <<lockVars, queueVars, wpc, hpc>>

ReleaseReply(w, r) ==
  /\ wpc[w] = "calling"
  /\ wpc' = [wpc EXCEPT ![w] = r]
  /\ UNCHANGED <<lockVars, queueVars, pc, hpc>>

(***************************************************************************)
(* What the client relies on: the server sends retry only to a client      *)
(* whose acquire call it has answered with RETRY.  Nothing is assumed of   *)
(* revoke and release, and any call may fail.                              *)
(***************************************************************************)
Undecided == {"calling", "granted", "failed"}
RetryDue(c) == \A t \in Thread : clientOf[t] = c => pc[t] \notin Undecided

ClientStep ==
  \/ \E t \in Thread : \/ acquire(t)
                       \/ acquire_wakeup(t)
                       \/ acquire_return(t)
                       \/ release(t)
  \/ \E h \in Handler : revoke_wakeup(h)
  \/ \E c \in Client : releaser(c)
  \/ \E w \in Worker : \/ releaser_rpc(w)
                       \/ releaser_timeout(w)
                       \/ release_return(w)
  \/ SpuriousWakeup

ServerStep ==
  \/ \E t \in Thread, r \in {"granted", "retry", "failed"} : AcquireReply(t, r)
  \/ \E w \in Worker, r \in {"ok", "err"} : ReleaseReply(w, r)
  \/ \E h \in Handler : revoke_handler(h)
  \/ \E c \in Client : RetryDue(c) /\ retry_handler(c)

Next == ClientStep \/ ServerStep

Spec == Init /\ [][Next]_vars
-----------------------------------------------------------------------------
(* Two threads of one process never both hold the lock: acquire returns OK *)
(* to a thread only after the thread it last returned OK to has called     *)
(* release, whatever revokes, retries and timeouts happen in between.      *)
LocalExclusion ==
  \A t, u \in Thread :
    clientOf[t] = clientOf[u] /\ pc[t] = "held" /\ pc[u] = "held" => t = u

(* The two VERIFY(rlslock->state == RELEASING) of releaser_rpc never fail: *)
(* nobody moves the lock out of RELEASING between the revoke that queues   *)
(* it and the end of the job, and none of the several jobs that may exist  *)
(* for the lock runs on behalf of another one's revoke.                    *)
VerifyReleasing ==
  /\ \A c \in Client : jobs[c] > 0 => state[c] = "RELEASING"
  /\ \A w \in Worker :
       wpc[w] \in {"ok", "err"} => state[clientOf[w]] = "RELEASING"

(* A client never has an acquire call and a release call outstanding at    *)
(* the same time, nor two of a kind, so the server cannot see them in the  *)
(* wrong order (acquire and releaser_rpc both drop the mutex to call).     *)
OneCallAtATime ==
  /\ \A t, u \in Thread :
       clientOf[t] = clientOf[u] /\ pc[t] = "calling" /\ pc[u] = "calling"
         => t = u
  /\ \A v, w \in Worker :
       clientOf[v] = clientOf[w] /\ wpc[v] = "calling" /\ wpc[w] = "calling"
         => v = w
  /\ \A t \in Thread, w \in Worker :
       ~(clientOf[t] = clientOf[w] /\ pc[t] = "calling" /\ wpc[w] = "calling")

(* A held lock is never taken away: it leaves LOCKED only by the release   *)
(* of the very thread that holds it.                                       *)
OnlyHolderUnlocks ==
  [][\A c \in Client :
       state[c] = "LOCKED" /\ state'[c] # "LOCKED"
         => /\ state'[c] = "FREE"
            /\ owner[c] \in Thread
            /\ pc[owner[c]] = "held"
            /\ pc'[owner[c]] = "idle"]_vars

(* The invariant that makes the above inductive.  "Sending" is a worker    *)
(* from the moment it has decided to call release until the job ends.      *)
Sending == {"calling", "ok", "err"}

(* A revoked lock is in exactly one place on its way back to the server:   *)
(* in releaser_queue, in the pool's queue, or with one worker.             *)
OneRelease ==
  /\ \A c \in Client :
       releaser_queue[c] + jobs[c] > 0
         => /\ releaser_queue[c] + jobs[c] = 1
            /\ state[c] = "RELEASING"
            /\ \A w \in Worker : clientOf[w] = c => wpc[w] \notin Sending
  /\ \A w \in Worker : wpc[w] \in Sending => state[clientOf[w]] = "RELEASING"
  /\ \A v, w \in Worker :
       clientOf[v] = clientOf[w] /\ wpc[v] \in Sending /\ wpc[w] \in Sending
         => v = w

(* The lock is ACQUIRING as long as an acquire call may yet be granted.    *)
OneAcquire ==
  \A t \in Thread :
    pc[t] \in Undecided
      => /\ state[clientOf[t]] = "ACQUIRING"
         /\ \A u \in Thread :
              clientOf[u] = clientOf[t] /\ pc[u] \in Undecided
                => u = t

HolderOwns ==
  /\ \A t \in Thread :
       pc[t] = "held"
         => state[clientOf[t]] = "LOCKED" /\ owner[clientOf[t]] = t
  /\ \A c \in Client :
       state[c] = "LOCKED" => /\ owner[c] \in Thread
                              /\ clientOf[owner[c]] = c
                              /\ pc[owner[c]] = "held"

ClientInv == TypeOK /\ OneRelease /\ OneAcquire /\ HolderOwns
=============================================================================
