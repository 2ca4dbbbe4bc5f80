------------------------ MODULE LockClientCacheProofs ------------------------
(***************************************************************************)
(* Proofs about the caching lock client, for any number of clients,        *)
(* threads, pool workers and revoke handlers.  ClientInv is inductive: one *)
(* lemma per operation shows that it is preserved, and the properties      *)
(* follow from it.                                                         *)
(***************************************************************************)
EXTENDS LockClientCache, TLAPS

USE ClientAssumption
DEF LockState, ThreadPC, WorkerPC, HandlerPC, Undecided, Sending

(* The two queues hold natural numbers of entries.                         *)
LEMMA QueueCounts ==
  ASSUME ClientInv, NEW p \in Thread \cup Worker \cup Handler
  PROVE  releaser_queue[clientOf[p]] \in Nat /\ jobs[clientOf[p]] \in Nat
  BY DEF ClientInv, TypeOK

(* A new client has nothing cached, queued or outstanding.                 *)
LEMMA InitInv == Init => ClientInv
  BY DEF Init, ClientInv, TypeOK, OneRelease, OneAcquire, HolderOwns

(* acquire, on entry, after a wait and at RETRY_WAIT.                      *)
LEMMA TakeOrWaitInv ==
  ASSUME ClientInv, NEW t \in Thread, NEW n \in Int,
         pc[t] \in {"idle", "woken", "retry"}, TakeOrWait(t, n)
  PROVE  ClientInv'
<1>1. TypeOK'
  <2>1. CASE state[clientOf[t]] = "FREE"
    BY <2>1 DEF ClientInv, TypeOK, TakeOrWait, GiveTo, queueVars
  <2>2. CASE state[clientOf[t]] \in {"ABSENT", "NONE"}
    BY <2>2 DEF ClientInv, TypeOK, TakeOrWait, queueVars
  <2>3. CASE state[clientOf[t]] \in {"LOCKED", "ACQUIRING", "RELEASING"}
    BY <2>3 DEF ClientInv, TypeOK, TakeOrWait, queueVars
  <2> QED
    BY <2>1, <2>2, <2>3, Zenon DEF ClientInv, TypeOK
<1>2. OneRelease'
  BY DEF ClientInv, TypeOK, OneRelease, TakeOrWait, GiveTo, lockVars,
         queueVars
<1>3. OneAcquire'
  BY DEF ClientInv, TypeOK, OneAcquire, TakeOrWait, GiveTo, lockVars,
         queueVars
<1>4. HolderOwns'
  BY DEF ClientInv, TypeOK, HolderOwns, TakeOrWait, GiveTo, lockVars,
         queueVars
<1> QED
  BY <1>1, <1>2, <1>3, <1>4, Zenon DEF ClientInv

(* acquire, when its call is granted or fails.                             *)
LEMMA GrantInv ==
  ASSUME ClientInv, NEW t \in Thread, pc[t] \in {"granted", "failed"},
         GiveTo(t, wait_threads[clientOf[t]]),
         UNCHANGED <<ifrevoke, iftimout, ifrlsreq, queueVars, wpc, hpc>>
  PROVE  ClientInv'
<1>1. TypeOK'
  BY DEF ClientInv, TypeOK, GiveTo, lockVars, queueVars
<1>2. OneRelease'
  BY DEF ClientInv, TypeOK, OneAcquire, OneRelease, GiveTo, lockVars,
         queueVars
<1>3. OneAcquire'
  BY DEF ClientInv, TypeOK, OneAcquire, GiveTo, lockVars, queueVars
<1>4. HolderOwns'
  BY DEF ClientInv, TypeOK, OneAcquire, HolderOwns, GiveTo, lockVars,
         queueVars
<1> QED
  BY <1>1, <1>2, <1>3, <1>4, Zenon DEF ClientInv

(* release, which also tells one waiter that the lock is free.             *)
LEMMA ReleaseInv ==
  ASSUME ClientInv, NEW t \in Thread, release(t)
  PROVE  ClientInv'
<1>1. TypeOK'
  BY DEF ClientInv, TypeOK, release, Signalled, QueueWaiters, RevokeWaiters,
         lockVars, queueVars
<1>2. OneRelease'
  BY DEF ClientInv, TypeOK, OneRelease, release, Signalled, QueueWaiters,
         RevokeWaiters, lockVars, queueVars
<1>3. OneAcquire'
  BY DEF ClientInv, TypeOK, OneAcquire, release, Signalled, QueueWaiters,
         RevokeWaiters, lockVars, queueVars
<1>4. HolderOwns'
  BY DEF ClientInv, TypeOK, HolderOwns, release, Signalled, QueueWaiters,
         RevokeWaiters, lockVars, queueVars
<1> QED
  BY <1>1, <1>2, <1>3, <1>4, Zenon DEF ClientInv

(* revoke_handler, on entry and after a wait.                              *)
LEMMA RevokeInv ==
  ASSUME ClientInv, NEW h \in Handler, RevokeOrWait(h)
  PROVE  ClientInv'
<1>1. TypeOK'
  <2>1. state' \in [Client -> LockState] /\ hpc' \in [Handler -> HandlerPC]
    BY DEF ClientInv, TypeOK, RevokeOrWait, Revocable
  <2>2. ifrevoke' \in [Client -> BOOLEAN]
    BY Zenon DEF ClientInv, TypeOK, RevokeOrWait, Revocable
  <2>3. releaser_queue' \in [Client -> Nat]
    <3>1. releaser_queue[clientOf[h]] + 1 \in Nat
      BY DEF ClientInv, TypeOK
    <3> QED
      BY <3>1 DEF ClientInv, TypeOK, RevokeOrWait, Revocable
  <2>4. asleep' \in [Client -> BOOLEAN]
    BY Zenon DEF ClientInv, TypeOK, RevokeOrWait, Revocable
  <2> QED
    BY <2>1, <2>2, <2>3, <2>4, Zenon DEF ClientInv, TypeOK, RevokeOrWait, Revocable
<1>2. OneRelease'
  <2>1. CASE state[clientOf[h]] = "FREE"
    <3>1. releaser_queue[clientOf[h]] \in Nat /\ jobs[clientOf[h]] \in Nat
      BY QueueCounts, Zenon
    <3>2. ~(releaser_queue[clientOf[h]] + jobs[clientOf[h]] > 0)
      BY <2>1, Zenon DEF ClientInv, OneRelease
    <3>3. \A w \in Worker : clientOf[w] = clientOf[h] => wpc[w] \notin Sending
      BY <2>1, Zenon DEF ClientInv, OneRelease
    <3>4. /\ releaser_queue' = [releaser_queue EXCEPT ![clientOf[h]] = 1]
          /\ state' = [state EXCEPT ![clientOf[h]] = "RELEASING"]
          /\ jobs' = jobs /\ wpc' = wpc /\ jobs[clientOf[h]] = 0
      BY <2>1, <3>1, <3>2 DEF RevokeOrWait, Revocable
    <3> QED
      BY <3>3, <3>4 DEF ClientInv, TypeOK, OneRelease
  <2>2. CASE state[clientOf[h]] # "FREE"
    BY <2>2, Zenon DEF ClientInv, TypeOK, OneRelease, RevokeOrWait, Revocable
  <2> QED
    BY <2>1, <2>2, Zenon
<1>3. OneAcquire'
  BY DEF ClientInv, TypeOK, OneAcquire, RevokeOrWait, Revocable, lockVars,
         queueVars
<1>4. HolderOwns'
  BY DEF ClientInv, TypeOK, HolderOwns, RevokeOrWait, Revocable, lockVars,
         queueVars
<1> QED
  BY <1>1, <1>2, <1>3, <1>4, Zenon DEF ClientInv

(* retry_handler, called for a client that was told to wait.               *)
LEMMA RetryInv ==
  ASSUME ClientInv, NEW c \in Client, RetryDue(c), retry_handler(c)
  PROVE  ClientInv'
<1>1. TypeOK'
  BY DEF ClientInv, TypeOK, RetryDue, RetryRefused, retry_handler, Signalled,
         QueueWaiters, lockVars, queueVars
<1>2. OneRelease'
  BY DEF ClientInv, TypeOK, OneRelease, RetryDue, RetryRefused,
         retry_handler, Signalled, QueueWaiters, lockVars, queueVars
<1>3. OneAcquire'
  BY DEF ClientInv, TypeOK, OneAcquire, RetryDue, RetryRefused,
         retry_handler, Signalled, QueueWaiters, lockVars, queueVars
<1>4. HolderOwns'
  BY DEF ClientInv, TypeOK, HolderOwns, RetryDue, RetryRefused,
         retry_handler, Signalled, QueueWaiters, lockVars, queueVars
<1> QED
  BY <1>1, <1>2, <1>3, <1>4, Zenon DEF ClientInv

(* releaser moves the queue into the pool.                                 *)
LEMMA ReleaserInv ==
  ASSUME ClientInv, NEW c \in Client, releaser(c)
  PROVE  ClientInv'
<1>1. TypeOK'
  BY DEF ClientInv, TypeOK, releaser, lockVars, queueVars
<1>2. OneRelease'
  BY DEF ClientInv, TypeOK, OneRelease, releaser, lockVars, queueVars
<1>3. OneAcquire'
  BY Zenon DEF ClientInv, TypeOK, OneAcquire, releaser, lockVars, queueVars
<1>4. HolderOwns'
  BY Zenon DEF ClientInv, TypeOK, HolderOwns, releaser, lockVars, queueVars
<1> QED
  BY <1>1, <1>2, <1>3, <1>4, Zenon DEF ClientInv

(* The start of a releaser_rpc job.                                        *)
LEMMA JobInv ==
  ASSUME ClientInv, NEW w \in Worker, releaser_rpc(w)
  PROVE  ClientInv'
<1>1. TypeOK'
  <2>1. /\ state' \in [Client -> LockState]
        /\ owner' \in [Client -> Thread \cup {NoThread}]
    BY DEF ClientInv, TypeOK, queueVars, releaser_rpc, SendRelease
  <2>2. /\ ifrevoke' \in [Client -> BOOLEAN]
        /\ iftimout' \in [Client -> BOOLEAN]
        /\ ifrlsreq' \in [Client -> BOOLEAN]
    BY ZenonT(60) DEF ClientInv, TypeOK, queueVars, releaser_rpc, SendRelease
  <2>3. wait_threads' \in [Client -> Int]
    BY Zenon DEF ClientInv, TypeOK, queueVars, releaser_rpc, SendRelease
  <2>4. releaser_queue' \in [Client -> Nat]
    BY Zenon DEF ClientInv, TypeOK, queueVars, releaser_rpc, SendRelease
  <2>5. asleep' \in [Client -> BOOLEAN]
    BY Zenon DEF ClientInv, TypeOK, queueVars, releaser_rpc, SendRelease
  <2>6. jobs' \in [Client -> 0..PoolMax]
    BY DEF ClientInv, TypeOK, queueVars, releaser_rpc, SendRelease
  <2>7. pc' \in [Thread -> ThreadPC]
    BY Zenon DEF ClientInv, TypeOK, queueVars, releaser_rpc, SendRelease
  <2>8. wpc' \in [Worker -> WorkerPC] /\ hpc' \in [Handler -> HandlerPC]
    BY DEF ClientInv, TypeOK, queueVars, releaser_rpc, SendRelease
  <2> QED
    BY <2>1, <2>2, <2>3, <2>4, <2>5, <2>6, <2>7, <2>8, Zenon DEF TypeOK
<1>2. OneRelease'
  <2> DEFINE c == clientOf[w]
  <2>1. /\ releaser_queue[c] = 0 /\ jobs[c] = 1
        /\ \A v \in Worker : clientOf[v] = c => wpc[v] \notin Sending
    <3>1. releaser_queue[c] \in Nat /\ jobs[c] \in Nat /\ c \in Client
      BY QueueCounts, Zenon
    <3>2. releaser_queue[c] + jobs[c] > 0
      BY <3>1 DEF releaser_rpc
    <3>3. /\ releaser_queue[c] + jobs[c] = 1
          /\ \A v \in Worker : clientOf[v] = c => wpc[v] \notin Sending
      BY <3>1, <3>2, Zenon DEF ClientInv, OneRelease
    <3>4. jobs[c] > 0
      BY Zenon DEF releaser_rpc
    <3> QED
      BY <3>1, <3>3, <3>4
  <2>2. jobs' = [jobs EXCEPT ![c] = 0] /\ releaser_queue' = releaser_queue
    BY <2>1 DEF releaser_rpc
  <2>3. CASE wait_threads[c] > 0
    <3>1. /\ state' = [state EXCEPT ![c] = "FREE"]
          /\ wpc' = [wpc EXCEPT ![w] = "timed"]
      BY <2>3, Zenon DEF releaser_rpc
    <3> QED
      BY <2>1, <2>2, <3>1 DEF ClientInv, TypeOK, OneRelease
  <2>4. CASE ~(wait_threads[c] > 0)
    BY <2>1, <2>2, <2>4
    DEF ClientInv, TypeOK, OneRelease, releaser_rpc, SendRelease
  <2> QED
    BY <2>3, <2>4, Zenon
<1>3. OneAcquire'
  BY DEF ClientInv, TypeOK, OneAcquire, releaser_rpc, SendRelease, lockVars,
         queueVars
<1>4. HolderOwns'
  BY DEF ClientInv, TypeOK, HolderOwns, releaser_rpc, SendRelease, lockVars,
         queueVars
<1> QED
  BY <1>1, <1>2, <1>3, <1>4, Zenon DEF ClientInv

(* The end of the timed wait of a releaser_rpc job.                        *)
LEMMA TimeoutInv ==
  ASSUME ClientInv, NEW w \in Worker, releaser_timeout(w)
  PROVE  ClientInv'
<1>1. TypeOK'
  <2>1. /\ state' \in [Client -> LockState]
        /\ owner' \in [Client -> Thread \cup {NoThread}]
    BY DEF ClientInv, TypeOK, queueVars, releaser_timeout, SendRelease
  <2>2. /\ ifrevoke' \in [Client -> BOOLEAN]
        /\ iftimout' \in [Client -> BOOLEAN]
        /\ ifrlsreq' \in [Client -> BOOLEAN]
    BY ZenonT(60) DEF ClientInv, TypeOK, queueVars, releaser_timeout, SendRelease
  <2>3. wait_threads' \in [Client -> Int]
    BY Zenon DEF ClientInv, TypeOK, queueVars, releaser_timeout, SendRelease
  <2>4. releaser_queue' \in [Client -> Nat]
    BY Zenon DEF ClientInv, TypeOK, queueVars, releaser_timeout, SendRelease
  <2>5. asleep' \in [Client -> BOOLEAN]
    BY Zenon DEF ClientInv, TypeOK, queueVars, releaser_timeout, SendRelease
  <2>6. jobs' \in [Client -> 0..PoolMax]
    BY Zenon DEF ClientInv, TypeOK, queueVars, releaser_timeout, SendRelease
  <2>7. pc' \in [Thread -> ThreadPC]
    BY Zenon DEF ClientInv, TypeOK, queueVars, releaser_timeout, SendRelease
  <2>8. wpc' \in [Worker -> WorkerPC] /\ hpc' \in [Handler -> HandlerPC]
    BY Zenon DEF ClientInv, TypeOK, queueVars, releaser_timeout, SendRelease
  <2> QED
    BY <2>1, <2>2, <2>3, <2>4, <2>5, <2>6, <2>7, <2>8 DEF TypeOK
<1>2. OneRelease'
  BY DEF ClientInv, TypeOK, OneRelease, releaser_timeout, SendRelease,
         lockVars, queueVars
<1>3. OneAcquire'
  BY DEF ClientInv, TypeOK, OneAcquire, releaser_timeout, SendRelease,
         lockVars, queueVars
<1>4. HolderOwns'
  BY DEF ClientInv, TypeOK, HolderOwns, releaser_timeout, SendRelease,
         lockVars, queueVars
<1> QED
  BY <1>1, <1>2, <1>3, <1>4 DEF ClientInv

(* The end of the release call of a releaser_rpc job.                      *)
LEMMA ReturnInv ==
  ASSUME ClientInv, NEW w \in Worker, release_return(w)
  PROVE  ClientInv'
<1>1. TypeOK'
  <2>1. /\ state' \in [Client -> LockState]
        /\ owner' \in [Client -> Thread \cup {NoThread}]
    BY SMTT(60) DEF ClientInv, TypeOK, queueVars, release_return, Signalled,
           QueueWaiters
  <2>2. /\ ifrevoke' \in [Client -> BOOLEAN]
        /\ iftimout' \in [Client -> BOOLEAN]
        /\ ifrlsreq' \in [Client -> BOOLEAN]
    BY Zenon DEF ClientInv, TypeOK, queueVars, release_return, Signalled,
           QueueWaiters
  <2>3. wait_threads' \in [Client -> Int]
    BY Zenon DEF ClientInv, TypeOK, queueVars, release_return, Signalled,
           QueueWaiters
  <2>4. releaser_queue' \in [Client -> Nat]
    BY DEF ClientInv, TypeOK, queueVars, release_return, Signalled,
           QueueWaiters
  <2>5. asleep' \in [Client -> BOOLEAN]
    BY Zenon DEF ClientInv, TypeOK, queueVars, release_return, Signalled,
           QueueWaiters
  <2>6. jobs' \in [Client -> 0..PoolMax]
    BY Zenon DEF ClientInv, TypeOK, queueVars, release_return, Signalled,
           QueueWaiters
  <2>7. pc' \in [Thread -> ThreadPC]
    BY DEF ClientInv, TypeOK, queueVars, release_return, Signalled,
           QueueWaiters
  <2>8. wpc' \in [Worker -> WorkerPC] /\ hpc' \in [Handler -> HandlerPC]
    BY Zenon DEF ClientInv, TypeOK, queueVars, release_return, Signalled,
           QueueWaiters
  <2> QED
    BY <2>1, <2>2, <2>3, <2>4, <2>5, <2>6, <2>7, <2>8 DEF TypeOK
<1>2. OneRelease'
  <2> DEFINE c == clientOf[w]
  <2>1. releaser_queue[c] = 0 /\ jobs[c] = 0
    <3>1. ~(releaser_queue[c] + jobs[c] > 0)
      BY Zenon DEF ClientInv, OneRelease, release_return
    <3> QED
      BY <3>1, QueueCounts
  <2>4. /\ state[c] = "RELEASING"
        /\ \A v \in Worker : clientOf[v] = c /\ v # w => wpc[v] \notin Sending
    BY Zenon DEF ClientInv, OneRelease, release_return
  <2>2. CASE wpc[w] = "ok"
    BY <2>1, <2>4, <2>2 DEF ClientInv, TypeOK, OneRelease, release_return
  <2>3. CASE wpc[w] = "err"
    <3>1. /\ releaser_queue' = [releaser_queue EXCEPT ![c] = 1]
          /\ wpc' = [wpc EXCEPT ![w] = "idle"]
          /\ state' = state /\ jobs' = jobs
      BY <2>1, <2>3 DEF release_return
    <3> QED
      BY <2>1, <2>4, <3>1 DEF ClientInv, TypeOK, OneRelease
  <2> QED
    BY <2>2, <2>3, Zenon DEF release_return
<1>3. OneAcquire'
  BY DEF ClientInv, TypeOK, OneAcquire, release_return, Signalled,
         QueueWaiters, lockVars, queueVars
<1>4. HolderOwns'
  BY DEF ClientInv, TypeOK, HolderOwns, release_return, Signalled,
         QueueWaiters, lockVars, queueVars
<1> QED
  BY <1>1, <1>2, <1>3, <1>4 DEF ClientInv

(* A condition wait that returns for no reason.                            *)
LEMMA SpuriousInv ==
  ASSUME ClientInv, SpuriousWakeup
  PROVE  ClientInv'
<1>1. TypeOK'
  <2>1. /\ state' \in [Client -> LockState]
        /\ owner' \in [Client -> Thread \cup {NoThread}]
    BY Zenon DEF ClientInv, TypeOK, queueVars, SpuriousWakeup, lockVars
  <2>2. /\ ifrevoke' \in [Client -> BOOLEAN]
        /\ iftimout' \in [Client -> BOOLEAN]
        /\ ifrlsreq' \in [Client -> BOOLEAN]
    BY Zenon DEF ClientInv, TypeOK, queueVars, SpuriousWakeup, lockVars
  <2>3. wait_threads' \in [Client -> Int]
    BY Zenon DEF ClientInv, TypeOK, queueVars, SpuriousWakeup, lockVars
  <2>4. releaser_queue' \in [Client -> Nat]
    BY Zenon DEF ClientInv, TypeOK, queueVars, SpuriousWakeup, lockVars
  <2>5. asleep' \in [Client -> BOOLEAN]
    BY Zenon DEF ClientInv, TypeOK, queueVars, SpuriousWakeup, lockVars
  <2>6. jobs' \in [Client -> 0..PoolMax]
    BY Zenon DEF ClientInv, TypeOK, queueVars, SpuriousWakeup, lockVars
  <2>7. pc' \in [Thread -> ThreadPC]
    BY DEF ClientInv, TypeOK, queueVars, SpuriousWakeup, lockVars
  <2>8. wpc' \in [Worker -> WorkerPC] /\ hpc' \in [Handler -> HandlerPC]
    BY Zenon DEF ClientInv, TypeOK, queueVars, SpuriousWakeup, lockVars
  <2> QED
    BY <2>1, <2>2, <2>3, <2>4, <2>5, <2>6, <2>7, <2>8, Zenon DEF TypeOK
<1>2. OneRelease'
  BY Zenon DEF ClientInv, TypeOK, OneRelease, SpuriousWakeup, lockVars, queueVars
<1>3. OneAcquire'
  BY DEF ClientInv, TypeOK, OneAcquire, SpuriousWakeup, lockVars, queueVars
<1>4. HolderOwns'
  BY DEF ClientInv, TypeOK, HolderOwns, SpuriousWakeup, lockVars, queueVars
<1> QED
  BY <1>1, <1>2, <1>3, <1>4, Zenon DEF ClientInv

(* The outcome of an acquire call.                                         *)
LEMMA AcquireReplyInv ==
  ASSUME ClientInv, NEW t \in Thread, NEW r \in {"granted", "retry", "failed"},
         AcquireReply(t, r)
  PROVE  ClientInv'
<1>1. TypeOK'
  BY Zenon DEF ClientInv, TypeOK, AcquireReply, lockVars, queueVars
<1>2. OneRelease'
  BY Zenon DEF ClientInv, TypeOK, OneRelease, AcquireReply, lockVars, queueVars
<1>3. OneAcquire'
  BY DEF ClientInv, TypeOK, OneAcquire, AcquireReply, lockVars, queueVars
<1>4. HolderOwns'
  BY DEF ClientInv, TypeOK, HolderOwns, AcquireReply, lockVars, queueVars
<1> QED
  BY <1>1, <1>2, <1>3, <1>4, Zenon DEF ClientInv

(* The outcome of a release call.                                          *)
LEMMA ReleaseReplyInv ==
  ASSUME ClientInv, NEW w \in Worker, NEW r \in {"ok", "err"},
         ReleaseReply(w, r)
  PROVE  ClientInv'
<1>1. TypeOK'
  BY Zenon DEF ClientInv, TypeOK, ReleaseReply, lockVars, queueVars
<1>2. OneRelease'
  BY DEF ClientInv, TypeOK, OneRelease, ReleaseReply, lockVars, queueVars
<1>3. OneAcquire'
  BY Zenon DEF ClientInv, TypeOK, OneAcquire, ReleaseReply, lockVars, queueVars
<1>4. HolderOwns'
  BY Zenon DEF ClientInv, TypeOK, HolderOwns, ReleaseReply, lockVars, queueVars
<1> QED
  BY <1>1, <1>2, <1>3, <1>4, Zenon DEF ClientInv

(* ClientInv is inductive.                                                 *)
LEMMA NextInv == ClientInv /\ [Next]_vars => ClientInv'
<1> SUFFICES ASSUME ClientInv, [Next]_vars PROVE ClientInv'
  OBVIOUS
<1>1. ASSUME NEW t \in Thread,
             acquire(t) \/ acquire_wakeup(t) \/ acquire_return(t) \/ release(t)
      PROVE  ClientInv'
  <2>1. wait_threads[clientOf[t]] \in Int
    BY Zenon DEF ClientInv, TypeOK
  <2>2. CASE acquire(t)
    BY <2>1, <2>2, TakeOrWaitInv DEF acquire
  <2>3. CASE acquire_wakeup(t)
    BY <2>1, <2>3, TakeOrWaitInv, Zenon DEF acquire_wakeup
  <2>4. CASE acquire_return(t)
    BY <2>1, <2>4, TakeOrWaitInv, GrantInv, Zenon DEF acquire_return
  <2>5. CASE release(t)
    BY <2>5, ReleaseInv, Zenon
  <2> QED
    BY <1>1, <2>2, <2>3, <2>4, <2>5, Zenon
<1>2. ASSUME NEW h \in Handler, revoke_handler(h) \/ revoke_wakeup(h)
      PROVE  ClientInv'
  BY <1>2, RevokeInv, Zenon DEF revoke_handler, revoke_wakeup
<1>3. ASSUME NEW w \in Worker,
             releaser_rpc(w) \/ releaser_timeout(w) \/ release_return(w)
      PROVE  ClientInv'
  BY <1>3, JobInv, TimeoutInv, ReturnInv, Zenon
<1>4. CASE UNCHANGED vars
  BY <1>4 DEF ClientInv, TypeOK, OneRelease, OneAcquire, HolderOwns, vars,
              lockVars, queueVars
<1> QED
  BY <1>1, <1>2, <1>3, <1>4, RetryInv, ReleaserInv, SpuriousInv,
     AcquireReplyInv, ReleaseReplyInv, Zenon DEF Next, ClientStep, ServerStep

(* The inductive invariant holds in every reachable state.                 *)
THEOREM ClientInvariant == Spec => []ClientInv
  BY InitInv, NextInv, PTL DEF Spec

(* Every variable of the client keeps its type.                            *)
THEOREM TypeCorrect == Spec => []TypeOK
<1>1. ClientInv => TypeOK
  BY Zenon DEF ClientInv
<1> QED
  BY <1>1, ClientInvariant, PTL

(* acquire never lets two threads of one process hold the lock together.   *)
THEOREM LocalMutualExclusion == Spec => []LocalExclusion
<1>1. ClientInv => LocalExclusion
  BY DEF ClientInv, HolderOwns, LocalExclusion
<1> QED
  BY <1>1, ClientInvariant, PTL

(* Neither VERIFY(rlslock->state == RELEASING) of releaser_rpc ever fails, *)
(* as long as the server sends retry only to a client it told to wait.     *)
THEOREM VerifyHolds == Spec => []VerifyReleasing
<1>1. ClientInv => VerifyReleasing
  <2> SUFFICES ASSUME ClientInv PROVE VerifyReleasing
    OBVIOUS
  <2>1. ASSUME NEW c \in Client, jobs[c] > 0 PROVE state[c] = "RELEASING"
    <3>1. releaser_queue[c] \in Nat /\ jobs[c] \in Nat
      BY DEF ClientInv, TypeOK
    <3> QED
      BY <2>1, <3>1 DEF ClientInv, OneRelease
  <2> QED
    BY <2>1, Zenon DEF ClientInv, OneRelease, VerifyReleasing
<1> QED
  BY <1>1, ClientInvariant, PTL

(* A client never has two calls to the lock server outstanding.            *)
THEOREM CallsSerialised == Spec => []OneCallAtATime
<1>1. ClientInv => OneCallAtATime
  BY Zenon DEF ClientInv, OneRelease, OneAcquire, OneCallAtATime
<1> QED
  BY <1>1, ClientInvariant, PTL

(* A lock leaves LOCKED only by the release of the thread holding it:      *)
(* neither a revoke, nor a timeout, nor a late reply takes it away.        *)
THEOREM HolderKeepsLock == Spec => OnlyHolderUnlocks
<1> DEFINE Kept == \A c \in Client :
                     state[c] = "LOCKED" /\ state'[c] # "LOCKED"
                       => /\ state'[c] = "FREE"
                          /\ owner[c] \in Thread
                          /\ pc[owner[c]] = "held"
                          /\ pc'[owner[c]] = "idle"
<1>1. ClientInv /\ [Next]_vars => [Kept]_vars
  <2> SUFFICES ASSUME ClientInv, Next, NEW c \in Client,
                      state[c] = "LOCKED", state'[c] # "LOCKED"
               PROVE  /\ state'[c] = "FREE"
                      /\ owner[c] \in Thread
                      /\ pc[owner[c]] = "held"
                      /\ pc'[owner[c]] = "idle"
    BY SMTT(60) DEF vars
  <2>1. PICK t \in Thread : release(t) /\ clientOf[t] = c
    <3>1. ASSUME NEW t \in Thread, acquire(t) \/ acquire_wakeup(t)
          PROVE  FALSE
      BY <3>1, Zenon
      DEF ClientInv, TypeOK, acquire, acquire_wakeup, TakeOrWait, GiveTo
    <3>2. ASSUME NEW t \in Thread, acquire_return(t) PROVE FALSE
      BY <3>2, Zenon DEF ClientInv, TypeOK, acquire_return, TakeOrWait, GiveTo
    <3>3. ASSUME NEW t \in Thread, release(t) PROVE clientOf[t] = c
      BY <3>3, Zenon DEF ClientInv, TypeOK, release
    <3>4. ASSUME NEW h \in Handler, revoke_handler(h) \/ revoke_wakeup(h)
          PROVE  FALSE
      BY <3>4, Zenon
      DEF ClientInv, TypeOK, revoke_handler, revoke_wakeup, RevokeOrWait,
                  Revocable
    <3>5. ASSUME NEW w \in Worker,
                 releaser_rpc(w) \/ releaser_timeout(w) \/ release_return(w)
          PROVE  FALSE
      BY <3>5, Zenon DEF ClientInv, TypeOK, releaser_rpc, releaser_timeout,
                  release_return, SendRelease
    <3>6. ASSUME NEW d \in Client, releaser(d) \/ retry_handler(d)
          PROVE  FALSE
      BY <3>6, Zenon DEF ClientInv, TypeOK, releaser, retry_handler, RetryRefused,
                  lockVars
    <3>7. state' = state => FALSE
      OBVIOUS
    <3> QED
      BY <3>1, <3>2, <3>3, <3>4, <3>5, <3>6, <3>7, Zenon
      DEF Next, ClientStep, ServerStep, SpuriousWakeup, AcquireReply,
          ReleaseReply, lockVars
  <2>2. owner[c] = t /\ state'[c] = "FREE" /\ pc[t] = "held"
    BY <2>1, Zenon DEF ClientInv, TypeOK, release
  <2>3. pc'[t] = "idle"
    BY <2>1, <2>2 DEF ClientInv, TypeOK, release, Signalled, QueueWaiters
  <2> QED
    BY <2>2, <2>3, Zenon
<1>2. Spec => [][Kept]_vars
  BY <1>1, ClientInvariant, PTL DEF Spec
<1> QED
  BY <1>2, Zenon DEF OnlyHolderUnlocks

-----------------------------------------------------------------------------
(***************************************************************************)
(* What the lock server can tell about a client, for LockServiceProofs.    *)
(***************************************************************************)
(* The lock is on its way back to the server.                              *)
Returning(c) ==
  \/ releaser_queue[c] + jobs[c] > 0
  \/ \E w \in Worker : clientOf[w] = c /\ wpc[w] # "idle"

Granted(c) == \E t \in Thread : clientOf[t] = c /\ pc[t] = "granted"
NoCalls(c) == \A t \in Thread : clientOf[t] = c => pc[t] # "calling"
NoOk(c) == \A w \in Worker : clientOf[w] = c => wpc[w] # "ok"

(* The client neither calls the server nor gives the lock back.            *)
Waitable(c) ==
  /\ state[c] \in {"ACQUIRING", "FREE", "LOCKED"}
  /\ ~Returning(c)
  /\ RetryDue(c)

(* The client has the lock in some form.                                   *)
Has(c) ==
  \/ state[c] \in {"FREE", "LOCKED"}
  \/ Granted(c)
  \/ releaser_queue[c] + jobs[c] > 0
  \/ \E w \in Worker : clientOf[w] = c /\ wpc[w] \in {"timed", "calling", "err"}

(* A releaser_rpc that put the lock back to FREE is alone in its client.   *)
TimedAlone ==
  \A w \in Worker : wpc[w] = "timed" =>
    LET c == clientOf[w] IN
    /\ state[c] \in {"FREE", "LOCKED"}
    /\ releaser_queue[c] = 0 /\ jobs[c] = 0
    /\ \A v \in Worker : clientOf[v] = c /\ v # w => wpc[v] = "idle"

NoneFailed == \A t \in Thread : pc[t] # "failed"

ClientSound == ClientInv /\ TimedAlone /\ NoneFailed

(* What the steps that a client takes by itself may do to it, as far as    *)
(* the server can tell: they start neither a call nor a release of a lock  *)
(* that is waited for or owned, and give nobody the lock.                  *)
Quiet(c) ==
  /\ Returning(c)' => Returning(c)
  /\ Has(c)' => Has(c)
  /\ Waitable(c) => Waitable(c)'
  /\ RetryDue(c) /\ state[c] = "ACQUIRING" => state'[c] = "ACQUIRING"
  /\ ~Returning(c) /\ state[c] \in {"FREE", "LOCKED"}
       => state'[c] \in {"FREE", "LOCKED"}
  /\ NoCalls(c) /\ state[c] \notin {"ABSENT", "NONE"} => NoCalls(c)'
  /\ NoOk(c) => NoOk(c)'
  /\ NoOk(c) /\ (Granted(c) \/ state[c] \in {"FREE", "LOCKED", "RELEASING"})
       => Granted(c)' \/ state'[c] \in {"FREE", "LOCKED", "RELEASING"}

AllQuiet ==
  /\ \A c \in Client : Quiet(c)
  /\ \A h \in Handler : hpc'[h] # "idle" => hpc[h] # "idle"
  /\ TimedAlone' /\ NoneFailed'

(* The steps a client takes without the server.                            *)
OwnStep ==
  \/ \E t \in Thread : \/ acquire(t) \/ acquire_wakeup(t)
                       \/ acquire_return(t) \/ release(t)
  \/ \E c \in Client : releaser(c)
  \/ \E w \in Worker : \/ releaser_rpc(w) \/ releaser_timeout(w)
                       \/ release_return(w)
  \/ SpuriousWakeup

(* acquire, called by the application.                                     *)
LEMMA CallQuiet ==
  ASSUME ClientInv, TimedAlone, NoneFailed,
         NEW t \in Thread, acquire(t)
  PROVE  AllQuiet
<1>1. ASSUME NEW c \in Client PROVE Quiet(c)
  <2>1. Returning(c)' => Returning(c)
    BY Zenon DEF Returning, TimedAlone, acquire, TakeOrWait,
           GiveTo, OneRelease, ClientInv, TypeOK,
           lockVars, queueVars
  <2>2. Has(c)' => Has(c)
    BY DEF Has, Granted, TimedAlone, NoneFailed, acquire,
           TakeOrWait, GiveTo, OneRelease,
           OneAcquire, HolderOwns, ClientInv,
           TypeOK,
           lockVars, queueVars
  <2>3. Waitable(c) => Waitable(c)'
    BY <2>1 DEF Waitable, Returning, acquire, TakeOrWait,
           GiveTo, RetryDue, ClientInv, TypeOK,
           lockVars, queueVars
  <2>4. RetryDue(c) /\ state[c] = "ACQUIRING" => state'[c] = "ACQUIRING"
    BY DEF TimedAlone, acquire, TakeOrWait, GiveTo,
           RetryDue, OneRelease, ClientInv,
           TypeOK,
           lockVars, queueVars
  <2>5. ~Returning(c) /\ state[c] \in {"FREE", "LOCKED"}
          => state'[c] \in {"FREE", "LOCKED"}
    BY DEF Returning, acquire, TakeOrWait, GiveTo,
           ClientInv, TypeOK, lockVars, queueVars
  <2>6. NoCalls(c) /\ state[c] \notin {"ABSENT", "NONE"} => NoCalls(c)'
    BY DEF NoCalls, acquire, TakeOrWait, GiveTo,
           ClientInv, TypeOK, lockVars, queueVars
  <2>7. NoOk(c) => NoOk(c)'
    BY Zenon DEF NoOk, acquire, TakeOrWait, GiveTo, ClientInv,
           TypeOK,
           lockVars, queueVars
  <2>8. NoOk(c) /\ (Granted(c) \/ state[c] \in {"FREE", "LOCKED", "RELEASING"})
          => Granted(c)' \/ state'[c] \in {"FREE", "LOCKED", "RELEASING"}
    BY DEF NoOk, Granted, acquire, TakeOrWait, GiveTo,
           ClientInv, TypeOK, lockVars, queueVars
  <2> QED
    BY <2>1, <2>2, <2>3, <2>4, <2>5, <2>6, <2>7, <2>8, Zenon DEF Quiet
<1>2. NoneFailed'
    BY DEF NoneFailed, acquire, TakeOrWait, GiveTo,
           ClientInv, TypeOK, lockVars, queueVars
<1>3. \A h \in Handler : hpc'[h] # "idle" => hpc[h] # "idle"
    BY Zenon DEF acquire, TakeOrWait, GiveTo, ClientInv,
           TypeOK,
           lockVars, queueVars
<1>4. TimedAlone'
  <2>1. wpc' = wpc /\ jobs' = jobs /\ releaser_queue' = releaser_queue
    BY Zenon DEF acquire, TakeOrWait, GiveTo, queueVars
  <2>2. \A c \in Client : state[c] \in {"FREE", "LOCKED"}
                           => state'[c] \in {"FREE", "LOCKED"}
    BY DEF acquire, TakeOrWait, GiveTo, ClientInv, TypeOK
  <2>3. \A w \in Worker : clientOf[w] \in Client
    OBVIOUS
  <2> QED
    BY <2>1, <2>2, <2>3, Zenon DEF TimedAlone
<1> QED
  BY <1>1, <1>2, <1>3, <1>4, Zenon DEF AllQuiet

(* acquire, after a wait on queue_cond.                                    *)
LEMMA WakeupQuiet ==
  ASSUME ClientInv, TimedAlone, NoneFailed,
         NEW t \in Thread, acquire_wakeup(t)
  PROVE  AllQuiet
<1>1. ASSUME NEW c \in Client PROVE Quiet(c)
  <2>1. Returning(c)' => Returning(c)
    BY Zenon DEF Returning, TimedAlone, acquire_wakeup,
           TakeOrWait, GiveTo, OneRelease,
           ClientInv, TypeOK, lockVars, queueVars
  <2>2. Has(c)' => Has(c)
    BY DEF Has, Granted, TimedAlone, NoneFailed,
           acquire_wakeup, TakeOrWait, GiveTo, OneRelease, OneAcquire, HolderOwns,
           ClientInv, TypeOK, lockVars, queueVars
  <2>3. Waitable(c) => Waitable(c)'
    BY <2>1 DEF Waitable, Returning, acquire_wakeup,
           TakeOrWait, GiveTo, RetryDue,
           ClientInv, TypeOK, lockVars, queueVars
  <2>4. RetryDue(c) /\ state[c] = "ACQUIRING" => state'[c] = "ACQUIRING"
    BY DEF TimedAlone, acquire_wakeup, TakeOrWait, GiveTo,
           RetryDue, OneRelease, ClientInv,
           TypeOK,
           lockVars, queueVars
  <2>5. ~Returning(c) /\ state[c] \in {"FREE", "LOCKED"}
          => state'[c] \in {"FREE", "LOCKED"}
    BY DEF Returning, acquire_wakeup, TakeOrWait, GiveTo,
           ClientInv, TypeOK, lockVars, queueVars
  <2>6. NoCalls(c) /\ state[c] \notin {"ABSENT", "NONE"} => NoCalls(c)'
    BY DEF NoCalls, acquire_wakeup, TakeOrWait, GiveTo,
           ClientInv, TypeOK, lockVars, queueVars
  <2>7. NoOk(c) => NoOk(c)'
    BY Zenon DEF NoOk, acquire_wakeup, TakeOrWait, GiveTo,
           ClientInv, TypeOK, lockVars, queueVars
  <2>8. NoOk(c) /\ (Granted(c) \/ state[c] \in {"FREE", "LOCKED", "RELEASING"})
          => Granted(c)' \/ state'[c] \in {"FREE", "LOCKED", "RELEASING"}
    BY DEF NoOk, Granted, acquire_wakeup, TakeOrWait,
           GiveTo, ClientInv, TypeOK, lockVars, queueVars
  <2> QED
    BY <2>1, <2>2, <2>3, <2>4, <2>5, <2>6, <2>7, <2>8 DEF Quiet
<1>2. NoneFailed'
    BY DEF NoneFailed, acquire_wakeup, TakeOrWait, GiveTo,
           ClientInv, TypeOK, lockVars, queueVars
<1>3. \A h \in Handler : hpc'[h] # "idle" => hpc[h] # "idle"
    BY Zenon DEF acquire_wakeup, TakeOrWait, GiveTo,
           ClientInv, TypeOK, lockVars, queueVars
<1>4. TimedAlone'
  <2>1. wpc' = wpc /\ jobs' = jobs /\ releaser_queue' = releaser_queue
    BY Zenon DEF acquire_wakeup, TakeOrWait, GiveTo, queueVars
  <2>2. \A c \in Client : state[c] \in {"FREE", "LOCKED"}
                           => state'[c] \in {"FREE", "LOCKED"}
    BY DEF acquire_wakeup, TakeOrWait, GiveTo, ClientInv, TypeOK
  <2>3. \A w \in Worker : clientOf[w] \in Client
    OBVIOUS
  <2> QED
    BY <2>1, <2>2, <2>3 DEF TimedAlone
<1> QED
  BY <1>1, <1>2, <1>3, <1>4 DEF AllQuiet

(* acquire, after its call.                                                *)
LEMMA ReturnQuiet ==
  ASSUME ClientInv, TimedAlone, NoneFailed,
         NEW t \in Thread, acquire_return(t)
  PROVE  AllQuiet
<1>1. ASSUME NEW c \in Client PROVE Quiet(c)
  <2>1. Returning(c)' => Returning(c)
    BY DEF Returning, TimedAlone, acquire_return,
           TakeOrWait, GiveTo, OneRelease,
           ClientInv, TypeOK, lockVars, queueVars
  <2>2. Has(c)' => Has(c)
    BY DEF Has, Granted, TimedAlone, NoneFailed,
           acquire_return, TakeOrWait, GiveTo, OneRelease, OneAcquire, HolderOwns,
           ClientInv, TypeOK, lockVars, queueVars
  <2>3. Waitable(c) => Waitable(c)'
    BY <2>1 DEF Waitable, Returning, acquire_return,
           TakeOrWait, GiveTo, RetryDue,
           ClientInv, TypeOK, lockVars, queueVars
  <2>4. RetryDue(c) /\ state[c] = "ACQUIRING" => state'[c] = "ACQUIRING"
    BY DEF TimedAlone, acquire_return, TakeOrWait, GiveTo,
           RetryDue, OneRelease, ClientInv,
           TypeOK,
           lockVars, queueVars
  <2>5. ~Returning(c) /\ state[c] \in {"FREE", "LOCKED"}
          => state'[c] \in {"FREE", "LOCKED"}
    BY DEF Returning, acquire_return, TakeOrWait, GiveTo,
           ClientInv, TypeOK, lockVars, queueVars
  <2>6. NoCalls(c) /\ state[c] \notin {"ABSENT", "NONE"} => NoCalls(c)'
    BY DEF NoCalls, acquire_return, TakeOrWait, GiveTo,
           ClientInv, TypeOK, lockVars, queueVars
  <2>7. NoOk(c) => NoOk(c)'
    BY Zenon DEF NoOk, acquire_return, TakeOrWait, GiveTo,
           ClientInv, TypeOK, lockVars, queueVars
  <2>8. NoOk(c) /\ (Granted(c) \/ state[c] \in {"FREE", "LOCKED", "RELEASING"})
          => Granted(c)' \/ state'[c] \in {"FREE", "LOCKED", "RELEASING"}
    BY DEF NoOk, Granted, acquire_return, TakeOrWait,
           GiveTo, ClientInv, TypeOK, lockVars, queueVars
  <2> QED
    BY <2>1, <2>2, <2>3, <2>4, <2>5, <2>6, <2>7, <2>8 DEF Quiet
<1>2. NoneFailed'
    BY DEF NoneFailed, acquire_return, TakeOrWait, GiveTo,
           ClientInv, TypeOK, lockVars, queueVars
<1>3. \A h \in Handler : hpc'[h] # "idle" => hpc[h] # "idle"
    BY Zenon DEF acquire_return, TakeOrWait, GiveTo,
           ClientInv, TypeOK, lockVars, queueVars
<1>4. TimedAlone'
    BY DEF TimedAlone, acquire_return, TakeOrWait, GiveTo,
           OneRelease, ClientInv, TypeOK, lockVars, queueVars
<1> QED
  BY <1>1, <1>2, <1>3, <1>4 DEF AllQuiet

(* release.                                                                *)
LEMMA ReleaseQuiet ==
  ASSUME ClientInv, TimedAlone, NoneFailed,
         NEW t \in Thread, release(t)
  PROVE  AllQuiet
<1>1. ASSUME NEW c \in Client PROVE Quiet(c)
  <2>1. Returning(c)' => Returning(c)
    BY Zenon DEF Returning, TimedAlone, release, Signalled,
           QueueWaiters, RevokeWaiters, OneRelease,
           ClientInv, TypeOK, lockVars, queueVars
  <2>2. Has(c)' => Has(c)
    BY DEF Has, Granted, TimedAlone, NoneFailed, release,
           Signalled, QueueWaiters, RevokeWaiters, OneRelease, OneAcquire, HolderOwns,
           ClientInv, TypeOK, lockVars, queueVars
  <2>3. Waitable(c) => Waitable(c)'
    BY <2>1 DEF Waitable, Returning, release, Signalled,
           QueueWaiters, RevokeWaiters, RetryDue,
           ClientInv, TypeOK, lockVars, queueVars
  <2>4. RetryDue(c) /\ state[c] = "ACQUIRING" => state'[c] = "ACQUIRING"
    BY DEF TimedAlone, release, Signalled, QueueWaiters,
           RevokeWaiters, RetryDue, OneRelease,
           ClientInv, TypeOK, lockVars, queueVars
  <2>5. ~Returning(c) /\ state[c] \in {"FREE", "LOCKED"}
          => state'[c] \in {"FREE", "LOCKED"}
    BY DEF Returning, release, Signalled, QueueWaiters,
           RevokeWaiters, ClientInv, TypeOK, lockVars, queueVars
  <2>6. NoCalls(c) /\ state[c] \notin {"ABSENT", "NONE"} => NoCalls(c)'
    BY DEF NoCalls, release, Signalled, QueueWaiters,
           RevokeWaiters, ClientInv, TypeOK, lockVars, queueVars
  <2>7. NoOk(c) => NoOk(c)'
    BY Zenon DEF NoOk, release, Signalled, QueueWaiters,
           RevokeWaiters, ClientInv, TypeOK, lockVars, queueVars
  <2>8. NoOk(c) /\ (Granted(c) \/ state[c] \in {"FREE", "LOCKED", "RELEASING"})
          => Granted(c)' \/ state'[c] \in {"FREE", "LOCKED", "RELEASING"}
    BY DEF NoOk, Granted, release, Signalled,
           QueueWaiters, RevokeWaiters, ClientInv, TypeOK,
           lockVars, queueVars
  <2> QED
    BY <2>1, <2>2, <2>3, <2>4, <2>5, <2>6, <2>7, <2>8 DEF Quiet
<1>2. NoneFailed'
    BY DEF NoneFailed, release, Signalled, QueueWaiters,
           RevokeWaiters, ClientInv, TypeOK, lockVars, queueVars
<1>3. \A h \in Handler : hpc'[h] # "idle" => hpc[h] # "idle"
    BY DEF release, Signalled, QueueWaiters,
           RevokeWaiters, ClientInv, TypeOK, lockVars, queueVars
<1>4. TimedAlone'
    BY DEF TimedAlone, release, Signalled, QueueWaiters,
           RevokeWaiters, OneRelease, ClientInv,
           TypeOK,
           lockVars, queueVars
<1> QED
  BY <1>1, <1>2, <1>3, <1>4 DEF AllQuiet

(* releaser.                                                               *)
LEMMA ReleaserQuiet ==
  ASSUME ClientInv, TimedAlone, NoneFailed,
         NEW d \in Client, releaser(d)
  PROVE  AllQuiet
<1>a. /\ \A c \in Client : releaser_queue'[c] + jobs'[c] > 0
                              => releaser_queue[c] + jobs[c] > 0
      /\ state' = state /\ wpc' = wpc /\ pc' = pc
  <2>1. jobs \in [Client -> Nat] /\ releaser_queue \in [Client -> Nat]
    BY DEF ClientInv, TypeOK
  <2>2. PICK k \in Nat : /\ k <= jobs[d] + releaser_queue[d]
                        /\ jobs' = [jobs EXCEPT ![d] = k]
    <3> DEFINE n == jobs[d] + releaser_queue[d]
               k == IF n <= PoolMax THEN n ELSE PoolMax
    <3>1. n \in Nat /\ k \in Nat /\ k <= n
      BY <2>1
    <3>2. jobs' = [jobs EXCEPT ![d] = k]
      BY Zenon DEF releaser
    <3> QED
      BY <3>1, <3>2, Zenon
  <2>3. releaser_queue' = [releaser_queue EXCEPT ![d] = 0]
    BY Zenon DEF releaser
  <2> QED
    BY <2>1, <2>2, <2>3 DEF releaser, lockVars
<1>1. ASSUME NEW c \in Client PROVE Quiet(c)
  <2>1. Returning(c)' => Returning(c)
    BY <1>a, Zenon DEF Returning
  <2>2. Has(c)' => Has(c)
    BY <1>a, Zenon DEF Has, Granted
  <2>3. Waitable(c) => Waitable(c)'
    BY <2>1, Zenon DEF Waitable, Returning, releaser, RetryDue, ClientInv, TypeOK,
       lockVars, queueVars
  <2>4. RetryDue(c) /\ state[c] = "ACQUIRING" => state'[c] = "ACQUIRING"
    BY Zenon DEF TimedAlone, releaser, RetryDue,
           OneRelease, ClientInv, TypeOK, lockVars, queueVars
  <2>5. ~Returning(c) /\ state[c] \in {"FREE", "LOCKED"}
          => state'[c] \in {"FREE", "LOCKED"}
    BY Zenon DEF Returning, releaser, ClientInv, TypeOK,
           lockVars, queueVars
  <2>6. NoCalls(c) /\ state[c] \notin {"ABSENT", "NONE"} => NoCalls(c)'
    BY Zenon DEF NoCalls, releaser, ClientInv, TypeOK,
           lockVars, queueVars
  <2>7. NoOk(c) => NoOk(c)'
    BY Zenon DEF NoOk, releaser, ClientInv, TypeOK, lockVars, queueVars
  <2>8. NoOk(c) /\ (Granted(c) \/ state[c] \in {"FREE", "LOCKED", "RELEASING"})
          => Granted(c)' \/ state'[c] \in {"FREE", "LOCKED", "RELEASING"}
    BY Zenon DEF NoOk, Granted, releaser, ClientInv, TypeOK,
           lockVars, queueVars
  <2> QED
    BY <2>1, <2>2, <2>3, <2>4, <2>5, <2>6, <2>7, <2>8, Zenon DEF Quiet
<1>2. NoneFailed'
    BY Zenon DEF NoneFailed, releaser, ClientInv, TypeOK,
           lockVars, queueVars
<1>3. \A h \in Handler : hpc'[h] # "idle" => hpc[h] # "idle"
    BY Zenon DEF releaser, ClientInv, TypeOK, lockVars, queueVars
<1>4. TimedAlone'
    BY DEF TimedAlone, releaser, OneRelease,
           ClientInv, TypeOK, lockVars, queueVars
<1> QED
  BY <1>1, <1>2, <1>3, <1>4, Zenon DEF AllQuiet

(* The start of releaser_rpc.                                              *)
LEMMA JobQuiet ==
  ASSUME ClientInv, TimedAlone, NoneFailed,
         NEW w \in Worker, releaser_rpc(w)
  PROVE  AllQuiet
<1>1. ASSUME NEW c \in Client PROVE Quiet(c)
  <2>1. Returning(c)' => Returning(c)
    BY DEF Returning, TimedAlone, releaser_rpc, SendRelease,
           OneRelease, ClientInv, TypeOK, lockVars, queueVars
  <2>2. Has(c)' => Has(c)
    BY DEF Has, Granted, TimedAlone, NoneFailed, releaser_rpc,
           SendRelease, OneRelease, OneAcquire, HolderOwns, ClientInv, TypeOK,
           lockVars, queueVars
  <2>3. Waitable(c) => Waitable(c)'
    BY <2>1 DEF Waitable, Returning, releaser_rpc,
           SendRelease, RetryDue, ClientInv,
           TypeOK,
           lockVars, queueVars
  <2>4. RetryDue(c) /\ state[c] = "ACQUIRING" => state'[c] = "ACQUIRING"
    BY DEF TimedAlone, releaser_rpc, SendRelease,
           RetryDue, OneRelease, ClientInv,
           TypeOK,
           lockVars, queueVars
  <2>5. ~Returning(c) /\ state[c] \in {"FREE", "LOCKED"}
          => state'[c] \in {"FREE", "LOCKED"}
    BY DEF Returning, releaser_rpc, SendRelease,
           ClientInv, TypeOK, lockVars, queueVars
  <2>6. NoCalls(c) /\ state[c] \notin {"ABSENT", "NONE"} => NoCalls(c)'
    BY Zenon DEF NoCalls, releaser_rpc, SendRelease, ClientInv,
           TypeOK,
           lockVars, queueVars
  <2>7. NoOk(c) => NoOk(c)'
    BY DEF NoOk, releaser_rpc, SendRelease, ClientInv,
           TypeOK,
           lockVars, queueVars
  <2>8. NoOk(c) /\ (Granted(c) \/ state[c] \in {"FREE", "LOCKED", "RELEASING"})
          => Granted(c)' \/ state'[c] \in {"FREE", "LOCKED", "RELEASING"}
    BY DEF NoOk, Granted, releaser_rpc, SendRelease,
           ClientInv, TypeOK, lockVars, queueVars
  <2> QED
    BY <2>1, <2>2, <2>3, <2>4, <2>5, <2>6, <2>7, <2>8, Zenon DEF Quiet
<1>2. NoneFailed'
    BY Zenon DEF NoneFailed, releaser_rpc, SendRelease,
           ClientInv, TypeOK, lockVars, queueVars
<1>3. \A h \in Handler : hpc'[h] # "idle" => hpc[h] # "idle"
    BY Zenon DEF releaser_rpc, SendRelease, ClientInv, TypeOK,
           lockVars, queueVars
<1>4. TimedAlone'
  <2> DEFINE c == clientOf[w]
  <2>1. /\ jobs[c] \in Nat /\ releaser_queue[c] \in Nat /\ c \in Client
        /\ jobs \in [Client -> Nat] /\ releaser_queue \in [Client -> Nat]
        /\ state \in [Client -> LockState] /\ wpc \in [Worker -> WorkerPC]
    BY DEF ClientInv, TypeOK
  <2>a. wpc[w] = "idle" /\ jobs[c] > 0
    BY Zenon DEF releaser_rpc
  <2>b. releaser_queue[c] + jobs[c] = 1
    BY <2>1, <2>a DEF ClientInv, OneRelease
  <2>2. jobs[c] = 1 /\ releaser_queue[c] = 0 /\ wpc[w] = "idle"
    BY <2>1, <2>a, <2>b
  <2>3. \A v \in Worker : clientOf[v] = c => wpc[v] = "idle"
    BY <2>1, <2>2
    DEF ClientInv, OneRelease, TimedAlone
  <2>4. /\ jobs' = [jobs EXCEPT ![c] = 0] /\ releaser_queue' = releaser_queue
        /\ \E p \in {"timed", "calling"} :
             /\ wpc' = [wpc EXCEPT ![w] = p]
             /\ p = "timed" => state' = [state EXCEPT ![c] = "FREE"]
             /\ p = "calling" => state' = [state EXCEPT ![c] = "RELEASING"]
    <3>1. jobs' = [jobs EXCEPT ![c] = 0] /\ releaser_queue' = releaser_queue
      <4>1. clientOf[w] = c /\ jobs[c] - 1 = 0
        BY <2>2
      <4> QED
        BY <4>1, Zenon DEF releaser_rpc
    <3>2. CASE wait_threads[c] > 0
      BY <3>1, <3>2, Zenon DEF releaser_rpc
    <3>3. CASE ~(wait_threads[c] > 0)
      BY <3>1, <3>3, Zenon DEF releaser_rpc, SendRelease
    <3> QED
      BY <3>2, <3>3, Zenon
  <2> QED
    BY <2>1, <2>2, <2>3, <2>4 DEF TimedAlone
<1> QED
  BY <1>1, <1>2, <1>3, <1>4, Zenon DEF AllQuiet

(* The end of releaser_rpc's timed wait.                                   *)
LEMMA TimeoutQuiet ==
  ASSUME ClientInv, TimedAlone, NoneFailed,
         NEW w \in Worker, releaser_timeout(w)
  PROVE  AllQuiet
<1>1. ASSUME NEW c \in Client PROVE Quiet(c)
  <2>1. Returning(c)' => Returning(c)
    BY DEF Returning, TimedAlone, releaser_timeout,
           SendRelease, OneRelease, ClientInv,
           TypeOK,
           lockVars, queueVars
  <2>2. Has(c)' => Has(c)
    BY DEF Has, Granted, TimedAlone, NoneFailed,
           releaser_timeout, SendRelease, OneRelease,
           OneAcquire, HolderOwns, ClientInv,
           TypeOK,
           lockVars, queueVars
  <2>3. Waitable(c) => Waitable(c)'
    <3>1. CASE c = clientOf[w]
      BY <3>1, Zenon DEF Waitable, Returning, releaser_timeout
    <3>2. CASE c # clientOf[w]
      <4>1. state'[c] = state[c] /\ pc' = pc
        BY <3>2, Zenon DEF releaser_timeout, SendRelease, ClientInv,
                            TypeOK
      <4> QED
        BY <2>1, <4>1, Zenon DEF Waitable, RetryDue
    <3> QED
      BY <3>1, <3>2, Zenon
  <2>4. RetryDue(c) /\ state[c] = "ACQUIRING" => state'[c] = "ACQUIRING"
    BY DEF TimedAlone, releaser_timeout, SendRelease,
           RetryDue, OneRelease, ClientInv,
           TypeOK,
           lockVars, queueVars
  <2>5. ~Returning(c) /\ state[c] \in {"FREE", "LOCKED"}
          => state'[c] \in {"FREE", "LOCKED"}
    BY DEF Returning, releaser_timeout, SendRelease,
           ClientInv, TypeOK, lockVars, queueVars
  <2>6. NoCalls(c) /\ state[c] \notin {"ABSENT", "NONE"} => NoCalls(c)'
    BY Zenon DEF NoCalls, releaser_timeout, SendRelease,
           ClientInv, TypeOK, lockVars, queueVars
  <2>7. NoOk(c) => NoOk(c)'
    BY DEF NoOk, releaser_timeout, SendRelease, ClientInv,
           TypeOK,
           lockVars, queueVars
  <2>8. NoOk(c) /\ (Granted(c) \/ state[c] \in {"FREE", "LOCKED", "RELEASING"})
          => Granted(c)' \/ state'[c] \in {"FREE", "LOCKED", "RELEASING"}
    BY Zenon DEF NoOk, Granted, releaser_timeout, SendRelease,
           ClientInv, TypeOK, lockVars, queueVars
  <2> QED
    BY <2>1, <2>2, <2>3, <2>4, <2>5, <2>6, <2>7, <2>8 DEF Quiet
<1>2. NoneFailed'
    BY Zenon DEF NoneFailed, releaser_timeout, SendRelease,
           ClientInv, TypeOK, lockVars, queueVars
<1>3. \A h \in Handler : hpc'[h] # "idle" => hpc[h] # "idle"
    BY Zenon DEF releaser_timeout, SendRelease, ClientInv,
           TypeOK,
           lockVars, queueVars
<1>4. TimedAlone'
    BY DEF TimedAlone, releaser_timeout, SendRelease,
           OneRelease, ClientInv, TypeOK, lockVars, queueVars
<1> QED
  BY <1>1, <1>2, <1>3, <1>4 DEF AllQuiet

(* The end of releaser_rpc.                                                *)
LEMMA JobEndQuiet ==
  ASSUME ClientInv, TimedAlone, NoneFailed,
         NEW w \in Worker, release_return(w)
  PROVE  AllQuiet
<1>1. ASSUME NEW c \in Client PROVE Quiet(c)
  <2>1. Returning(c)' => Returning(c)
    BY DEF Returning, TimedAlone, release_return, Signalled,
           QueueWaiters, OneRelease, ClientInv,
           TypeOK,
           lockVars, queueVars
  <2>2. Has(c)' => Has(c)
    BY DEF Has, Granted, TimedAlone, NoneFailed,
           release_return, Signalled, QueueWaiters, OneRelease, OneAcquire, HolderOwns,
           ClientInv, TypeOK, lockVars, queueVars
  <2>3. Waitable(c) => Waitable(c)'
    BY <2>1 DEF Waitable, Returning, release_return,
           Signalled, QueueWaiters, RetryDue,
           ClientInv, TypeOK, lockVars, queueVars
  <2>4. RetryDue(c) /\ state[c] = "ACQUIRING" => state'[c] = "ACQUIRING"
    BY DEF TimedAlone, release_return, Signalled,
           QueueWaiters, RetryDue, OneRelease,
           ClientInv, TypeOK, lockVars, queueVars
  <2>5. ~Returning(c) /\ state[c] \in {"FREE", "LOCKED"}
          => state'[c] \in {"FREE", "LOCKED"}
    BY DEF Returning, release_return, Signalled,
           QueueWaiters, ClientInv, TypeOK, lockVars, queueVars
  <2>6. NoCalls(c) /\ state[c] \notin {"ABSENT", "NONE"} => NoCalls(c)'
    BY DEF NoCalls, release_return, Signalled,
           QueueWaiters, ClientInv, TypeOK, lockVars, queueVars
  <2>7. NoOk(c) => NoOk(c)'
    BY Zenon DEF NoOk, release_return, Signalled, QueueWaiters,
           ClientInv, TypeOK, lockVars, queueVars
  <2>8. NoOk(c) /\ (Granted(c) \/ state[c] \in {"FREE", "LOCKED", "RELEASING"})
          => Granted(c)' \/ state'[c] \in {"FREE", "LOCKED", "RELEASING"}
    BY DEF NoOk, Granted, release_return, Signalled,
           QueueWaiters, ClientInv, TypeOK, lockVars, queueVars
  <2> QED
    BY <2>1, <2>2, <2>3, <2>4, <2>5, <2>6, <2>7, <2>8 DEF Quiet
<1>2. NoneFailed'
    BY DEF NoneFailed, release_return, Signalled,
           QueueWaiters, ClientInv, TypeOK, lockVars, queueVars
<1>3. \A h \in Handler : hpc'[h] # "idle" => hpc[h] # "idle"
    BY Zenon DEF release_return, Signalled, QueueWaiters,
           ClientInv, TypeOK, lockVars, queueVars
<1>4. TimedAlone'
    BY DEF TimedAlone, release_return, Signalled,
           QueueWaiters, OneRelease, ClientInv,
           TypeOK,
           lockVars, queueVars
<1> QED
  BY <1>1, <1>2, <1>3, <1>4 DEF AllQuiet

(* A condition wait that returns for no reason.                            *)
LEMMA SpuriousQuiet ==
  ASSUME ClientInv, TimedAlone, NoneFailed,
         SpuriousWakeup
  PROVE  AllQuiet
<1>1. ASSUME NEW c \in Client PROVE Quiet(c)
  <2>1. Returning(c)' => Returning(c)
    BY Zenon DEF Returning, TimedAlone, SpuriousWakeup,
           OneRelease, ClientInv, TypeOK, lockVars, queueVars
  <2>2. Has(c)' => Has(c)
    BY DEF Has, Granted, TimedAlone, NoneFailed,
           SpuriousWakeup, OneRelease, OneAcquire, HolderOwns, ClientInv, TypeOK,
           lockVars, queueVars
  <2>3. Waitable(c) => Waitable(c)'
    BY <2>1 DEF Waitable, Returning, SpuriousWakeup,
           RetryDue, ClientInv, TypeOK, lockVars, queueVars
  <2>4. RetryDue(c) /\ state[c] = "ACQUIRING" => state'[c] = "ACQUIRING"
    BY Zenon DEF TimedAlone, SpuriousWakeup, RetryDue, OneRelease, ClientInv, TypeOK,
           lockVars, queueVars
  <2>5. ~Returning(c) /\ state[c] \in {"FREE", "LOCKED"}
          => state'[c] \in {"FREE", "LOCKED"}
    BY Zenon DEF Returning, SpuriousWakeup, ClientInv, TypeOK,
           lockVars, queueVars
  <2>6. NoCalls(c) /\ state[c] \notin {"ABSENT", "NONE"} => NoCalls(c)'
    BY DEF NoCalls, SpuriousWakeup, ClientInv, TypeOK,
           lockVars, queueVars
  <2>7. NoOk(c) => NoOk(c)'
    BY Zenon DEF NoOk, SpuriousWakeup, ClientInv, TypeOK,
           lockVars, queueVars
  <2>8. NoOk(c) /\ (Granted(c) \/ state[c] \in {"FREE", "LOCKED", "RELEASING"})
          => Granted(c)' \/ state'[c] \in {"FREE", "LOCKED", "RELEASING"}
    BY Zenon DEF NoOk, Granted, SpuriousWakeup, ClientInv,
           TypeOK,
           lockVars, queueVars
  <2> QED
    BY <2>1, <2>2, <2>3, <2>4, <2>5, <2>6, <2>7, <2>8, Zenon DEF Quiet
<1>2. NoneFailed'
    BY DEF NoneFailed, SpuriousWakeup, ClientInv, TypeOK,
           lockVars, queueVars
<1>3. \A h \in Handler : hpc'[h] # "idle" => hpc[h] # "idle"
    BY Zenon DEF SpuriousWakeup, ClientInv, TypeOK, lockVars, queueVars
<1>4. TimedAlone'
    BY DEF TimedAlone, SpuriousWakeup, OneRelease, ClientInv, TypeOK, lockVars, queueVars
<1> QED
  BY <1>1, <1>2, <1>3, <1>4, Zenon DEF AllQuiet

(* All of the steps a client takes by itself are quiet.                    *)
LEMMA OwnQuiet ==
  ASSUME ClientSound, OwnStep
  PROVE  AllQuiet
  BY CallQuiet, WakeupQuiet, ReturnQuiet, ReleaseQuiet, ReleaserQuiet,
     JobQuiet, TimeoutQuiet, JobEndQuiet, SpuriousQuiet, Zenon DEF ClientSound, OwnStep

-----------------------------------------------------------------------------
(* The calls between client and server, seen from the client.              *)
Same(c) ==
  /\ Returning(c)' <=> Returning(c)
  /\ Has(c)' <=> Has(c)
  /\ Granted(c)' <=> Granted(c)
  /\ NoCalls(c)' <=> NoCalls(c)
  /\ NoOk(c)' <=> NoOk(c)
  /\ Waitable(c)' <=> Waitable(c)

(* A step that changes no variable of the clients changes nothing of this. *)
LEMMA UnchangedSame ==
  ASSUME ClientSound, UNCHANGED vars
  PROVE  /\ \A c \in Client : Same(c)
         /\ state' = state /\ hpc' = hpc /\ ClientSound'
<1>1. /\ state' = state /\ hpc' = hpc /\ pc' = pc /\ wpc' = wpc
      /\ releaser_queue' = releaser_queue /\ jobs' = jobs
  BY Zenon DEF vars, lockVars, queueVars
<1>2. ASSUME NEW c \in Client PROVE Same(c)
  BY <1>1, Zenon DEF Same, Returning, Has, Granted, NoCalls, NoOk, Waitable, RetryDue
<1>3. TimedAlone' /\ NoneFailed'
  BY <1>1, Zenon DEF ClientSound, TimedAlone, NoneFailed
<1> QED
  BY <1>1, <1>2, <1>3, NextInv, Zenon DEF ClientSound

(* A client that is ACQUIRING is not giving the lock back.                 *)
LEMMA AcquiringKeeps ==
  ASSUME ClientSound, NEW c \in Client, state[c] = "ACQUIRING"
  PROVE  ~Returning(c)
<1>1. ~(releaser_queue[c] + jobs[c] > 0)
  BY Zenon DEF ClientSound, ClientInv, OneRelease
<1>2. ASSUME NEW w \in Worker, clientOf[w] = c PROVE wpc[w] = "idle"
  <2>1. wpc[w] \in WorkerPC
    BY Zenon DEF ClientSound, ClientInv, TypeOK
  <2>2. wpc[w] \notin Sending
    BY <1>2 DEF ClientSound, ClientInv, OneRelease
  <2>3. wpc[w] # "timed"
    BY <1>2 DEF ClientSound, TimedAlone
  <2> QED
    BY <2>1, <2>2, <2>3 DEF WorkerPC, Sending
<1> QED
  BY <1>1, <1>2, Zenon DEF Returning

(* A waiter has no call outstanding, and a client whose lock is ACQUIRING  *)
(* gives nothing back.                                                     *)
LEMMA WaitableStill ==
  ASSUME NEW c \in Client, Waitable(c)
  PROVE  NoCalls(c) /\ NoOk(c) /\ ~Returning(c)
<1>1. NoCalls(c)
  BY Zenon DEF Waitable, NoCalls, RetryDue
<1>2. NoOk(c)
  BY Zenon DEF Waitable, NoOk, Returning
<1> QED
  BY <1>1, <1>2, Zenon DEF Waitable

(* While its lock is ACQUIRING a client gives nothing back.                *)
LEMMA AcquiringStill ==
  ASSUME ClientSound, NEW c \in Client, state[c] = "ACQUIRING"
  PROVE  ~Returning(c) /\ NoOk(c)
<1>1. jobs[c] \in Nat /\ releaser_queue[c] \in Nat
  BY DEF ClientSound, ClientInv, TypeOK
<1>2. ~(releaser_queue[c] + jobs[c] > 0)
  BY <1>1, Zenon DEF ClientSound, ClientInv, OneRelease
<1>3. \A w \in Worker : clientOf[w] = c => wpc[w] = "idle"
  BY DEF ClientSound, ClientInv, OneRelease, TypeOK, TimedAlone
<1> QED
  BY <1>2, <1>3, Zenon DEF Returning, NoOk

(* A client that was granted the lock and does not know yet is ACQUIRING.  *)
LEMMA GrantedAcquires ==
  ASSUME ClientSound, NEW c \in Client, Granted(c)
  PROVE  state[c] = "ACQUIRING"
  BY Zenon DEF ClientSound, Granted, ClientInv, OneAcquire

(* The reply to an acquire call.                                           *)
LEMMA ReplyEffect ==
  ASSUME ClientSound, NEW t \in Thread, NEW r \in {"granted", "retry"},
         AcquireReply(t, r)
  PROVE  LET c == clientOf[t] IN
         /\ c \in Client /\ ~NoCalls(c)
         /\ state[c] = "ACQUIRING" /\ state' = state /\ hpc' = hpc
         /\ ~Returning(c)' /\ NoCalls(c)' /\ NoOk(c)'
         /\ r = "granted" => Granted(c)'
         /\ r = "retry" => Waitable(c)' /\ (Has(c)' => Has(c))
         /\ \A d \in Client : d # c => Same(d)
         /\ TimedAlone' /\ NoneFailed'
<1> DEFINE c == clientOf[t]
<1>1. /\ c \in Client /\ pc[t] = "calling" /\ pc \in [Thread -> ThreadPC]
      /\ pc' = [pc EXCEPT ![t] = r] /\ state' = state /\ hpc' = hpc
      /\ wpc' = wpc /\ releaser_queue' = releaser_queue /\ jobs' = jobs
  BY Zenon DEF AcquireReply, lockVars, queueVars, ClientSound, ClientInv, TypeOK
<1>2. /\ state[c] = "ACQUIRING" /\ ~NoCalls(c)
      /\ \A u \in Thread : clientOf[u] = c /\ pc[u] \in Undecided => u = t
  BY <1>1, Zenon DEF ClientSound, ClientInv, OneAcquire, NoCalls
<1>3. ~Returning(c) /\ NoOk(c)
  BY <1>1, <1>2, AcquiringStill, Zenon
<1>4. ASSUME NEW d \in Client
      PROVE  (Returning(d)' <=> Returning(d)) /\ (NoOk(d)' <=> NoOk(d))
  BY <1>1, Zenon DEF Returning, NoOk
<1>5. NoCalls(c)' /\ (r = "granted" => Granted(c)')
  BY <1>1, <1>2, Zenon DEF NoCalls, Granted
<1>6. r = "retry" => RetryDue(c)'
  BY <1>1, <1>2, Zenon DEF RetryDue
<1>7. r = "retry" => Waitable(c)'
  BY <1>1, <1>2, <1>3, <1>4, <1>6, Zenon DEF Waitable
<1>8. ASSUME NEW d \in Client, d # c PROVE Same(d)
  <2>1. /\ NoCalls(d)' <=> NoCalls(d)
        /\ Granted(d)' <=> Granted(d)
        /\ RetryDue(d)' <=> RetryDue(d)
    BY <1>1, <1>8, Zenon DEF NoCalls, Granted, RetryDue
  <2>2. (Waitable(d)' <=> Waitable(d)) /\ (Has(d)' <=> Has(d))
    BY <1>1, <1>4, <2>1, Zenon DEF Waitable, Has
  <2> QED
    BY <1>4, <2>1, <2>2, Zenon DEF Same
<1>9. r = "retry" => (Granted(c)' => Granted(c))
  BY <1>1, Zenon DEF Granted
<1>10. r = "retry" => (Has(c)' => Has(c))
  BY <1>1, <1>9, Zenon DEF Has
<1>11. TimedAlone' /\ NoneFailed'
  BY <1>1, Zenon DEF ClientSound, TimedAlone, NoneFailed
<1> QED
  BY <1>1, <1>2, <1>3, <1>4, <1>5, <1>7, <1>8, <1>10, <1>11, Zenon

(* The reply to a release call, or its failure.                            *)
LEMMA ReleaseEffect ==
  ASSUME ClientSound, NEW w \in Worker, NEW r \in {"ok", "err"},
         wpc[w] \in {"calling", "ok"}, wpc' = [wpc EXCEPT ![w] = r],
         UNCHANGED <<lockVars, queueVars, pc, hpc>>
  PROVE  LET c == clientOf[w] IN
         /\ c \in Client /\ Returning(c) /\ state' = state /\ hpc' = hpc
         /\ \A d \in Client : d # c => Same(d)
         /\ Returning(c)' /\ (NoCalls(c)' <=> NoCalls(c))
         /\ (Granted(c)' <=> Granted(c)) /\ (Waitable(c)' <=> Waitable(c))
         /\ r = "ok" => ~Has(c)'
         /\ r = "err" => (NoOk(c) => NoOk(c)')
         /\ ClientSound'
<1> DEFINE c == clientOf[w]
<1>0. /\ state' = state /\ hpc' = hpc /\ pc' = pc
      /\ releaser_queue' = releaser_queue /\ jobs' = jobs
      /\ owner' = owner /\ ifrevoke' = ifrevoke /\ iftimout' = iftimout
      /\ ifrlsreq' = ifrlsreq /\ wait_threads' = wait_threads
      /\ asleep' = asleep
  BY Zenon DEF lockVars, queueVars
<1>1. /\ c \in Client /\ wpc \in [Worker -> WorkerPC]
      /\ jobs[c] \in Nat /\ releaser_queue[c] \in Nat
  BY DEF ClientSound, ClientInv, TypeOK
<1>2. /\ state[c] = "RELEASING"
      /\ \A v \in Worker : clientOf[v] = c /\ v # w => wpc[v] \notin Sending
      /\ ~(releaser_queue[c] + jobs[c] > 0)
  BY <1>1, Zenon DEF ClientSound, ClientInv, OneRelease
<1>3. \A v \in Worker : clientOf[v] = c => wpc[v] # "timed"
  BY <1>2, Zenon DEF ClientSound, TimedAlone
<1>4. ~Granted(c)
  BY <1>1, <1>2, GrantedAcquires, Zenon
<1>5. Returning(c) /\ Returning(c)'
  BY <1>1, Zenon DEF Returning
<1>7. ASSUME NEW d \in Client PROVE /\ Granted(d)' <=> Granted(d)
                                    /\ NoCalls(d)' <=> NoCalls(d)
                                    /\ RetryDue(d)' <=> RetryDue(d)
  BY <1>0, Zenon DEF Granted, NoCalls, RetryDue
<1>8. Waitable(c)' <=> Waitable(c)
  BY <1>5, Zenon DEF Waitable
<1>9. ASSUME NEW d \in Client, d # c PROVE Same(d)
  <2>1. (NoOk(d)' <=> NoOk(d)) /\ (Has(d)' <=> Has(d))
    BY <1>0, <1>1, <1>7, <1>9, Zenon DEF NoOk, Has
  <2>2. Returning(d)' <=> Returning(d)
    BY <1>0, <1>1, <1>9, Zenon DEF Returning
  <2>3. Waitable(d)' <=> Waitable(d)
    BY <1>0, <1>7, <2>2, Zenon DEF Waitable
  <2> QED
    BY <1>7, <2>1, <2>2, <2>3, Zenon DEF Same
<1>10. r = "err" => (NoOk(c) => NoOk(c)')
  BY <1>1, Zenon DEF NoOk
<1>11. r = "ok" => ~Has(c)'
  BY <1>0, <1>1, <1>2, <1>3, <1>4, <1>7, Zenon DEF Has
<1>12. TimedAlone' /\ NoneFailed'
  BY <1>0, <1>1, <1>3 DEF ClientSound, TimedAlone, NoneFailed
<1>13. TypeOK' /\ OneAcquire' /\ HolderOwns'
  BY <1>0, <1>1 DEF ClientSound, ClientInv, TypeOK, OneAcquire, HolderOwns
<1>14. OneRelease'
  BY <1>0, <1>1 DEF ClientSound, ClientInv, OneRelease
<1> QED
  BY <1>0, <1>1, <1>5, <1>7, <1>8, <1>9, <1>10, <1>11, <1>12, <1>13, <1>14, Zenon
     DEF ClientSound, ClientInv

(* A release call that is refused changes nothing the server can see.      *)
LEMMA RefusedQuiet ==
  ASSUME ClientSound, NEW w \in Worker, ReleaseReply(w, "err")
  PROVE  AllQuiet
<1>1. /\ wpc[w] = "calling" /\ wpc' = [wpc EXCEPT ![w] = "err"]
      /\ UNCHANGED <<lockVars, queueVars, pc, hpc>>
  BY Zenon DEF ReleaseReply
<1>2. clientOf[w] \in Client /\ wpc \in [Worker -> WorkerPC]
  BY Zenon DEF ClientSound, ClientInv, TypeOK
<1>3. \A c \in Client : Has(c)' => Has(c)
  BY <1>1, <1>2, Zenon DEF Has, Granted, lockVars, queueVars
<1> QED
  BY <1>1, <1>3, ReleaseEffect, Zenon DEF AllQuiet, Quiet, Same, ClientSound

(* retry_handler, in a client that waits for the call.                     *)
LEMMA RetryEffect ==
  ASSUME ClientSound, NEW c \in Client, retry_handler(c), Waitable(c)
  PROVE  /\ state[c] = "ACQUIRING" /\ state'[c] = "FREE" /\ hpc' = hpc
         /\ \A d \in Client : d # c => state'[d] = state[d] /\ Same(d)
         /\ ~Returning(c)' /\ NoCalls(c)' /\ NoOk(c)' /\ Waitable(c)'
         /\ TimedAlone' /\ NoneFailed'
<1>1. /\ state[c] = "ACQUIRING" /\ state' = [state EXCEPT ![c] = "FREE"]
      /\ hpc' = hpc /\ wpc' = wpc /\ releaser_queue' = releaser_queue
      /\ jobs' = jobs /\ pc' \in Signalled(pc, QueueWaiters(c))
  BY Zenon DEF retry_handler, RetryRefused, queueVars
<1>2. state \in [Client -> LockState] /\ pc \in [Thread -> ThreadPC]
  BY Zenon DEF ClientSound, ClientInv, TypeOK
<1>3. \A t \in Thread :
        pc'[t] = pc[t] \/ (pc[t] = "waiting" /\ pc'[t] = "woken")
  <2>1. \/ pc' = pc
        \/ \E x \in QueueWaiters(c) : pc' = [pc EXCEPT ![x] = "woken"]
    BY <1>1, Zenon DEF Signalled
  <2>2. \A x \in QueueWaiters(c) : x \in Thread /\ pc[x] = "waiting"
    BY Zenon DEF QueueWaiters
  <2> QED
    BY <1>2, <2>1, <2>2, Zenon
<1>4. ASSUME NEW d \in Client PROVE /\ Returning(d)' <=> Returning(d)
                                    /\ NoOk(d)' <=> NoOk(d)
  BY <1>1, Zenon DEF Returning, NoOk
<1>5. ASSUME NEW d \in Client PROVE /\ Granted(d)' <=> Granted(d)
                                    /\ NoCalls(d)' <=> NoCalls(d)
                                    /\ RetryDue(d)' <=> RetryDue(d)
  BY <1>3, Zenon DEF Granted, NoCalls, RetryDue
<1>6. state'[c] = "FREE" /\ \A d \in Client : d # c => state'[d] = state[d]
  BY <1>1, <1>2, Zenon
<1>7. NoCalls(c)' /\ NoOk(c)' /\ ~Returning(c)' /\ Waitable(c)'
  BY <1>4, <1>5, <1>6, WaitableStill, Zenon DEF Waitable
<1>8. ASSUME NEW d \in Client, d # c PROVE Same(d)
  BY <1>1, <1>4, <1>5, <1>6, <1>8, Zenon DEF Same, Has, Waitable
<1>9. NoneFailed'
  BY <1>3, Zenon DEF ClientSound, NoneFailed
<1>10. TimedAlone'
  <2>1. \A w \in Worker : clientOf[w] \in Client
    OBVIOUS
  <2> QED
    BY <1>1, <1>6, <2>1, Zenon DEF ClientSound, TimedAlone
<1> QED
  BY <1>1, <1>6, <1>7, <1>8, <1>9, <1>10, Zenon

(* A revoke_handler that finds the lock FREE and has it released.          *)
LEMMA RevokeTakes ==
  ASSUME ClientSound, NEW h \in Handler, RevokeOrWait(h),
         Revocable(clientOf[h]), ~Returning(clientOf[h])
  PROVE  LET c == clientOf[h] IN
         /\ c \in Client /\ Has(c) /\ state'[c] = "RELEASING"
         /\ hpc'[h] = "idle"
         /\ \A g \in Handler : g # h => hpc'[g] = hpc[g]
         /\ \A d \in Client : d # c => state'[d] = state[d] /\ Same(d)
         /\ (NoCalls(c)' <=> NoCalls(c)) /\ (NoOk(c)' <=> NoOk(c))
         /\ TimedAlone' /\ NoneFailed'
<1> DEFINE c == clientOf[h]
<1>1. /\ c \in Client /\ state[c] = "FREE"
      /\ state' = [state EXCEPT ![c] = "RELEASING"]
      /\ releaser_queue' = [releaser_queue EXCEPT ![c] = @ + 1]
      /\ hpc' = [hpc EXCEPT ![h] = "idle"]
      /\ jobs' = jobs /\ pc' = pc /\ wpc' = wpc
  BY Zenon DEF RevokeOrWait, Revocable
<1>2. /\ state \in [Client -> LockState] /\ hpc \in [Handler -> HandlerPC]
      /\ releaser_queue \in [Client -> Nat]
  BY Zenon DEF ClientSound, ClientInv, TypeOK
<1>3. /\ state'[c] = "RELEASING" /\ hpc'[h] = "idle"
      /\ \A g \in Handler : g # h => hpc'[g] = hpc[g]
      /\ \A d \in Client : d # c => /\ state'[d] = state[d]
                                    /\ releaser_queue'[d] = releaser_queue[d]
  BY <1>1, <1>2, Zenon
<1>4. ASSUME NEW d \in Client PROVE /\ Granted(d)' <=> Granted(d)
                                    /\ NoCalls(d)' <=> NoCalls(d)
                                    /\ NoOk(d)' <=> NoOk(d)
                                    /\ RetryDue(d)' <=> RetryDue(d)
  BY <1>1, Zenon DEF Granted, NoCalls, NoOk, RetryDue
<1>5. ASSUME NEW d \in Client, d # c PROVE Same(d)
  <2>1. Returning(d)' <=> Returning(d)
    BY <1>5, <1>1, <1>3, Zenon DEF Returning
  <2>2. Waitable(d)' <=> Waitable(d)
    BY <1>5, <1>3, <1>4, <2>1, Zenon DEF Waitable
  <2>3. Has(d)' <=> Has(d)
    BY <1>5, <1>1, <1>3, <1>4, Zenon DEF Has
  <2> QED
    BY <1>4, <2>1, <2>2, <2>3, Zenon DEF Same
<1>6. TimedAlone'
  <2>1. \A w \in Worker : clientOf[w] \in Client
                          /\ (clientOf[w] = c => wpc[w] = "idle")
    BY Zenon DEF Returning
  <2> QED
    BY <2>1, <1>1, <1>3 DEF ClientSound, TimedAlone
<1>7. NoneFailed' /\ Has(c)
  BY <1>1, Zenon DEF ClientSound, NoneFailed, Has
<1> QED
  BY <1>1, <1>3, <1>4, <1>5, <1>6, <1>7, Zenon

(* A revoke_handler that finds the lock in use and waits.                  *)
LEMMA RevokeWaits ==
  ASSUME ClientSound, NEW h \in Handler, RevokeOrWait(h),
         ~Revocable(clientOf[h])
  PROVE  /\ state' = state /\ hpc'[h] = "waiting"
         /\ \A g \in Handler : g # h => hpc'[g] = hpc[g]
         /\ \A d \in Client : Same(d)
         /\ TimedAlone' /\ NoneFailed'
<1>1. /\ state' = state /\ releaser_queue' = releaser_queue
      /\ hpc' = [hpc EXCEPT ![h] = "waiting"]
      /\ jobs' = jobs /\ pc' = pc /\ wpc' = wpc
  BY Zenon DEF RevokeOrWait
<1>2. hpc'[h] = "waiting" /\ \A g \in Handler : g # h => hpc'[g] = hpc[g]
  BY <1>1, Zenon DEF ClientSound, ClientInv, TypeOK
<1>3. ASSUME NEW d \in Client PROVE Same(d)
  BY <1>1, Zenon DEF Same, Returning, Has, Granted, NoCalls, NoOk, Waitable, RetryDue
<1>4. TimedAlone' /\ NoneFailed'
  BY <1>1, Zenon DEF ClientSound, TimedAlone, NoneFailed
<1> QED
  BY <1>1, <1>2, <1>3, <1>4, Zenon
=============================================================================
