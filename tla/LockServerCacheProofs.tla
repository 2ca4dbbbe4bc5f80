------------------------ MODULE LockServerCacheProofs ------------------------
(***************************************************************************)
(* Lemmas about the caching lock server, for any number of clients and     *)
(* pool threads.  The server has at most one errand to run for a lock: a   *)
(* revoke of the owner, the owner's release that follows it, or the retry  *)
(* of the oldest waiter that follows the release.  Wherever the errand is  *)
(* (in a queue, in the pool, with a pool thread), it is in one place, and  *)
(* somebody is waiting for the lock.  The second half is about what the    *)
(* server and its clients agree on, given what the server can see of them  *)
(* (the variables below, which LockServiceProofs defines from the state of *)
(* the clients).                                                           *)
(***************************************************************************)
EXTENDS LockServerCache, TLAPS

VARIABLES   \* of the clients, as the server sees them
  state,      \* of the lock in each client
  hpc,        \* of the revoke_handlers
  returning,  \* the clients that are giving the lock back,
  has,        \* have the lock in some form,
  granted,    \* have been granted it and do not know yet,
  calling,    \* have sent an acquire that is not served yet,
  answered,   \* have had a release accepted and do not know yet,
  waitable    \* neither call the server nor give the lock back

(* What LockService assumes of the constants.                              *)
Fit == NoClient \notin Client /\ JobMax \in Nat

Waits(c) == \E i \in 1..Len(waiting_cls) : waiting_cls[i] = c

Distinct ==
  \A i, j \in 1..Len(waiting_cls) : waiting_cls[i] = waiting_cls[j] => i = j

(* A revoke that has been answered OK has become the owner's release.      *)
Active(a) ==
  run[a].pc # "idle" /\ ~(run[a].kind = "revoke" /\ run[a].pc = "OK")

RetryOk(a) == run[a].kind = "retry" /\ run[a].pc = "OK"
RetryErr(a) == run[a].kind = "retry" /\ run[a].pc = "RPCERR"

NoneQueued == retryer_queue = 0 /\ revoker_queue = 0 /\ sjobs = <<>>

(* The errand is with the owner, who is giving the lock back.              *)
Resting == NoneQueued /\ waiting_cls # <<>> /\ \A a \in Agent : ~Active(a)

OneErrand ==
  /\ retryer_queue \in {0, 1} /\ revoker_queue \in {0, 1}
  /\ sjobs \in {<<>>, <<"retry">>, <<"revoke">>}
  /\ retryer_queue = 1 => revoker_queue = 0 /\ sjobs = <<>>
  /\ revoker_queue = 1 => sjobs = <<>>
  /\ \A a \in Agent : Active(a) => NoneQueued /\ waiting_cls # <<>>
  /\ \A a, b \in Agent : Active(a) /\ Active(b) => a = b
  /\ waiting_cls = <<>> => NoneQueued

(* A revoke goes to an owner who is not waiting, a retry to the oldest     *)
(* waiter, who then is the owner.                                          *)
Revoked ==
  \/ revoker_queue = 1
  \/ sjobs = <<"revoke">>
  \/ \E a \in Agent : Active(a) /\ run[a].kind = "revoke"
Retried ==
  \/ sjobs = <<"retry">>
  \/ \E a \in Agent : Active(a) /\ run[a].kind = "retry"

RevokesOwner == Revoked => ~Waits(owner_cl)
RetriesHead == Retried => owner_cl = Head(waiting_cls)
CallsOwner ==
  \A a \in Agent :
    /\ run[a].pc \in {"calling", "blocked"}
         => run[a].cl = owner_cl /\ owner_cl \in Client
    /\ run[a].pc = "blocked" => run[a].kind = "revoke"

ErrandInv ==
  /\ TypeOK /\ OneErrand /\ Distinct
  /\ RevokesOwner /\ RetriesHead /\ CallsOwner

(* What the server may do by itself, as far as the clients can tell.       *)
Alone ==
  /\ Resting /\ owner_cl' = owner_cl => Resting'
  /\ \A a \in Agent :
       run[a].pc = "blocked" => run'[a].pc = "blocked" /\ run'[a].cl = run[a].cl
  /\ \/ /\ waiting_cls' = waiting_cls
        /\ \A a \in Agent : RetryOk(a)' <=> RetryOk(a)
     \/ /\ \A c : Waits(c)' <=> Waits(c) /\ c # Head(waiting_cls)
        /\ \A a \in Agent : ~RetryOk(a)'
        /\ \E a \in Agent : RetryOk(a)
        /\ owner_cl' = owner_cl
  /\ \/ owner_cl' \in {owner_cl, NoClient}
     \/ owner_cl' = Head(waiting_cls) /\ Waits(owner_cl') /\ ~Resting
  /\ owner_cl' # owner_cl
       => retryer_queue = 1 \/ \E a \in Agent : RetryErr(a)
  /\ retryer_queue' = 1 => \/ retryer_queue = 1 /\ owner_cl' = owner_cl
                           \/ owner_cl' = NoClient
  /\ \A a \in Agent : RetryErr(a)' => RetryErr(a)

-----------------------------------------------------------------------------
(* There is no errand at first.                                            *)
LEMMA ErrandInit == ASSUME Fit, Init PROVE ErrandInv
<1>1. /\ owner_cl = NoClient /\ waiting_cls = <<>> /\ sjobs = <<>>
      /\ retryer_queue = 0 /\ revoker_queue = 0
      /\ \A a \in Agent : run[a].pc = "idle"
  BY Zenon DEF Init, Idle
<1>2. TypeOK
  <2>1. retryerAsleep \in BOOLEAN /\ revokerAsleep \in BOOLEAN
    BY Zenon DEF Init
  <2>2. run \in [Agent -> [pc : AgentPC, kind : Kind,
                           cl : Client \cup {NoClient}]]
    BY Zenon DEF Init, Idle, AgentPC, Kind
  <2> QED
    BY <1>1, <2>1, <2>2 DEF Fit, TypeOK
<1>3. /\ \A a \in Agent : ~Active(a)
      /\ \A c : ~Waits(c)
  BY <1>1 DEF Active, Waits
<1>4. OneErrand /\ Distinct
  BY <1>1, <1>3 DEF OneErrand, NoneQueued, Distinct
<1>5. RevokesOwner /\ RetriesHead /\ CallsOwner
  BY <1>1, <1>3, Zenon DEF RevokesOwner, RetriesHead, CallsOwner, Revoked, Retried
<1> QED
  BY <1>2, <1>4, <1>5, Zenon DEF ErrandInv

(* The oldest waiter is a waiter.                                          *)
LEMMA WaitsHead ==
  ASSUME waiting_cls \in Seq(Client), waiting_cls # <<>>
  PROVE  Head(waiting_cls) \in Client /\ Waits(Head(waiting_cls))
<1>1. Len(waiting_cls) \in Nat /\ Len(waiting_cls) > 0
  OBVIOUS
<1>2. Head(waiting_cls) = waiting_cls[1] /\ 1 \in 1..Len(waiting_cls)
  BY <1>1
<1> QED
  BY <1>2 DEF Waits

(* acquire appends a client to waiting_cls.                                *)
LEMMA WaitsAppend ==
  ASSUME waiting_cls \in Seq(Client), NEW c \in Client,
         waiting_cls' = Append(waiting_cls, c)
  PROVE  /\ waiting_cls' \in Seq(Client) /\ waiting_cls' # <<>>
         /\ \A d : Waits(d)' <=> Waits(d) \/ d = c
         /\ waiting_cls # <<>> => Head(waiting_cls') = Head(waiting_cls)
         /\ Distinct /\ ~Waits(c) => Distinct'
<1>1. /\ Len(waiting_cls) \in Nat /\ waiting_cls' \in Seq(Client)
      /\ Len(waiting_cls') = Len(waiting_cls) + 1
      /\ \A i \in 1..Len(waiting_cls) : waiting_cls'[i] = waiting_cls[i]
      /\ waiting_cls'[Len(waiting_cls) + 1] = c
  OBVIOUS
<1>2. ASSUME NEW d PROVE Waits(d)' <=> Waits(d) \/ d = c
  <2>1. ASSUME Waits(d)' PROVE Waits(d) \/ d = c
    <3>1. PICK i \in 1..(Len(waiting_cls) + 1) : waiting_cls'[i] = d
      BY <1>1, <2>1, Zenon DEF Waits
    <3>2. i \in 1..Len(waiting_cls) \/ i = Len(waiting_cls) + 1
      BY <1>1, <3>1
    <3> QED
      BY <1>1, <3>1, <3>2, Zenon DEF Waits
  <2>2. ASSUME Waits(d) PROVE Waits(d)'
    <3>1. PICK i \in 1..Len(waiting_cls) : waiting_cls[i] = d
      BY <2>2, Zenon DEF Waits
    <3>2. i \in 1..Len(waiting_cls') /\ waiting_cls'[i] = d
      BY <1>1, <3>1
    <3> QED
      BY <3>2, Zenon DEF Waits
  <2>3. ASSUME d = c PROVE Waits(d)'
    <3>1. Len(waiting_cls) + 1 \in 1..Len(waiting_cls')
      BY <1>1
    <3> QED
      BY <1>1, <2>3, <3>1, Zenon DEF Waits
  <2> QED
    BY <2>1, <2>2, <2>3, Zenon
<1>3. waiting_cls # <<>> => Head(waiting_cls') = Head(waiting_cls)
  OBVIOUS
<1>4. ASSUME Distinct, ~Waits(c) PROVE Distinct'
  <2>1. \A i \in 1..Len(waiting_cls) : waiting_cls'[i] # c
    BY <1>1, <1>4, Zenon DEF Waits
  <2>2. \A i \in 1..Len(waiting_cls') :
          i \in 1..Len(waiting_cls) \/ i = Len(waiting_cls) + 1
    BY <1>1
  <2>3. \A i, j \in 1..Len(waiting_cls) :
          waiting_cls'[i] = waiting_cls'[j] => i = j
    BY <1>1, <1>4 DEF Distinct
  <2> QED
    BY <1>1, <2>1, <2>2, <2>3 DEF Distinct
<1> QED
  BY <1>1, <1>2, <1>3, <1>4

(* retryer_rpc removes the oldest.                                         *)
LEMMA WaitsTail ==
  ASSUME waiting_cls \in Seq(Client), waiting_cls # <<>>, Distinct,
         waiting_cls' = Tail(waiting_cls)
  PROVE  /\ waiting_cls' \in Seq(Client)
         /\ \A d : Waits(d)' <=> Waits(d) /\ d # Head(waiting_cls)
         /\ Distinct'
<1>1. /\ Len(waiting_cls) \in Nat /\ Len(waiting_cls) > 0
      /\ waiting_cls' \in Seq(Client) /\ Head(waiting_cls) = waiting_cls[1]
      /\ Len(waiting_cls') = Len(waiting_cls) - 1
      /\ \A i \in 1..(Len(waiting_cls) - 1) : waiting_cls'[i] = waiting_cls[i + 1]
  OBVIOUS
<1>2. ASSUME NEW d PROVE Waits(d)' <=> Waits(d) /\ d # Head(waiting_cls)
  <2>1. ASSUME Waits(d)' PROVE Waits(d) /\ d # Head(waiting_cls)
    <3>1. PICK i \in 1..(Len(waiting_cls) - 1) : waiting_cls[i + 1] = d
      BY <1>1, <2>1, Zenon DEF Waits
    <3>2. i + 1 \in 1..Len(waiting_cls) /\ 1 \in 1..Len(waiting_cls) /\ i + 1 # 1
      BY <1>1, <3>1
    <3> QED
      BY <1>1, <3>1, <3>2, Zenon DEF Waits, Distinct
  <2>2. ASSUME Waits(d), d # Head(waiting_cls) PROVE Waits(d)'
    <3>1. PICK i \in 1..Len(waiting_cls) : waiting_cls[i] = d
      BY <2>2, Zenon DEF Waits
    <3>2. i - 1 \in 1..Len(waiting_cls') /\ waiting_cls'[i - 1] = d
      BY <1>1, <2>2, <3>1
    <3> QED
      BY <3>2, Zenon DEF Waits
  <2> QED
    BY <2>1, <2>2, Zenon
<1>3. Distinct'
  <2> SUFFICES ASSUME NEW i \in 1..(Len(waiting_cls) - 1),
                      NEW j \in 1..(Len(waiting_cls) - 1),
                      waiting_cls[i + 1] = waiting_cls[j + 1]
               PROVE  i = j
    BY <1>1 DEF Distinct
  <2>1. i + 1 \in 1..Len(waiting_cls) /\ j + 1 \in 1..Len(waiting_cls)
    BY <1>1
  <2> QED
    BY <1>1, <2>1 DEF Distinct
<1> QED
  BY <1>1, <1>2, <1>3, Zenon

(* addObjJob for a queue with at most one entry.                           *)
LEMMA AddOne ==
  ASSUME Fit, TypeOK, NEW kind \in {"retry", "revoke"}, NEW n \in {0, 1},
         n = 1 => sjobs = <<>>, AddJobs(kind, n)
  PROVE  /\ sjobs' = sjobs \/ (n = 1 /\ sjobs' = <<kind>>)
         /\ sjobs' \in Seq(Kind) /\ Len(sjobs') <= JobMax
<1> DEFINE room == JobMax - Len(sjobs)
           k == IF n <= room THEN n ELSE room
           new == [i \in 1..k |-> kind]
<1>1. sjobs \in Seq(Kind) /\ Len(sjobs) \in Nat /\ room \in Nat
  BY DEF Fit, TypeOK
<1>2. sjobs' = sjobs \o new
  BY Zenon DEF AddJobs
<1>3. CASE k = 0
  <2>1. new = <<>>
    BY <1>3
  <2>2. sjobs' = sjobs
    BY <1>1, <1>2, <2>1
  <2> QED
    BY <1>1, <2>2, Zenon DEF TypeOK
<1>4. CASE k = 1
  <2>1. n = 1 /\ sjobs = <<>> /\ JobMax >= 1
    BY <1>1, <1>4 DEF Fit
  <2>2. new = <<kind>>
    BY <1>4
  <2>3. sjobs' = <<kind>>
    BY <1>2, <2>1, <2>2
  <2> QED
    BY <2>1, <2>3 DEF Fit, Kind
<1>5. k = 0 \/ k = 1
  BY <1>1
<1> QED
  BY <1>3, <1>4, <1>5, Zenon

-----------------------------------------------------------------------------
(* The retryer thread, with the lock in its queue.                         *)
LEMMA RetryerGrants ==
  ASSUME Fit, ErrandInv, retryer_queue = 1, retryer
  PROVE  ErrandInv' /\ Alone
<1>1. /\ waiting_cls' = waiting_cls /\ revoker_queue' = revoker_queue
      /\ revokerAsleep' = revokerAsleep /\ run' = run
      /\ retryer_queue' = 0 /\ retryerAsleep' = TRUE
  BY Zenon DEF retryer, revokeVars
<1>x. (\A c : Waits(c)' <=> Waits(c)) /\ (Distinct' <=> Distinct)
  BY <1>1, Zenon DEF Waits, Distinct
<1>2. /\ waiting_cls # <<>> /\ sjobs = <<>> /\ revoker_queue = 0
      /\ \A a \in Agent : ~Active(a)
  BY DEF ErrandInv, OneErrand, NoneQueued
<1>h. Head(waiting_cls) \in Client /\ Waits(Head(waiting_cls))
  BY <1>2, WaitsHead, Zenon DEF ErrandInv, TypeOK
<1>3. owner_cl' = Head(waiting_cls) /\ AddJobs("retry", 1)
  BY <1>2 DEF retryer, NextOwner
<1>4. /\ sjobs' \in {<<>>, <<"retry">>}
      /\ sjobs' \in Seq(Kind) /\ Len(sjobs') <= JobMax
  BY <1>2, <1>3, AddOne, Zenon DEF ErrandInv
<1>5. \A a : Active(a)' <=> Active(a)
  BY <1>1, Zenon DEF Active
<1> USE <1>1, <1>x, <1>2, <1>h, <1>3, <1>4, <1>5
<1>t. TypeOK'
  BY Zenon DEF ErrandInv, TypeOK, Kind, AgentPC
<1>e. OneErrand'
  BY DEF ErrandInv, OneErrand, NoneQueued
<1>a. RevokesOwner'
  BY DEF ErrandInv, OneErrand, NoneQueued, RevokesOwner, Revoked, Active
<1>b. RetriesHead'
  BY Zenon DEF ErrandInv, OneErrand, NoneQueued, RetriesHead, Retried
<1>c. CallsOwner'
  BY Zenon DEF ErrandInv, OneErrand, CallsOwner, Active
<1>n. Alone
  BY DEF ErrandInv, OneErrand, NoneQueued, Alone, Resting, RetryOk, RetryErr
<1> QED
  BY <1>t, <1>e, <1>a, <1>b, <1>c, <1>n, Zenon DEF ErrandInv

(* Steps that only put the server's threads to sleep or wake them, or do   *)
(* nothing at all.                                                         *)
LEMMA ServerFrame ==
  ASSUME ErrandInv, UNCHANGED <<owner_cl, waiting_cls, retryer_queue,
                                revoker_queue, sjobs, run>>,
         retryerAsleep' \in BOOLEAN, revokerAsleep' \in BOOLEAN
  PROVE  ErrandInv' /\ Alone
<1>1. /\ owner_cl' = owner_cl /\ waiting_cls' = waiting_cls
      /\ retryer_queue' = retryer_queue /\ revoker_queue' = revoker_queue
      /\ sjobs' = sjobs /\ run' = run
  OBVIOUS
<1>x. (\A c : Waits(c)' <=> Waits(c)) /\ (Distinct' <=> Distinct)
  BY <1>1, Zenon DEF Waits, Distinct
<1>2. \A a : Active(a)' <=> Active(a)
  BY <1>1, Zenon DEF Active
<1> USE <1>1, <1>x, <1>2
<1>t. TypeOK'
  BY Zenon DEF ErrandInv, TypeOK, Kind, AgentPC
<1>e. OneErrand'
  BY Zenon DEF ErrandInv, OneErrand, NoneQueued
<1>a. RevokesOwner'
  BY Zenon DEF ErrandInv, OneErrand, NoneQueued, RevokesOwner, Revoked
<1>b. RetriesHead'
  BY Zenon DEF ErrandInv, OneErrand, NoneQueued, RetriesHead, Retried
<1>c. CallsOwner'
  BY Zenon DEF ErrandInv, OneErrand, CallsOwner
<1>n. Alone
  BY Zenon DEF ErrandInv, OneErrand, NoneQueued, Alone, Resting, RetryOk, RetryErr
<1> QED
  BY <1>t, <1>e, <1>a, <1>b, <1>c, <1>n, Zenon DEF ErrandInv

(* The revoker thread.                                                     *)
LEMMA RevokerKept ==
  ASSUME Fit, ErrandInv, revoker
  PROVE  ErrandInv' /\ Alone
<1>1. /\ owner_cl' = owner_cl /\ waiting_cls' = waiting_cls
      /\ retryer_queue' = retryer_queue /\ run' = run
      /\ retryerAsleep' = retryerAsleep
      /\ revoker_queue' = 0 /\ revokerAsleep' = TRUE
  BY Zenon DEF revoker, lockVars, retryVars
<1>x. (\A c : Waits(c)' <=> Waits(c)) /\ (Distinct' <=> Distinct)
  BY <1>1, Zenon DEF Waits, Distinct
<1>2. \A a : Active(a)' <=> Active(a)
  BY <1>1, Zenon DEF Active
<1>3. /\ sjobs' = sjobs \/ (revoker_queue = 1 /\ sjobs' = <<"revoke">>)
      /\ sjobs' \in Seq(Kind) /\ Len(sjobs') <= JobMax
  <2>1. CASE waiting_cls # <<>>
    BY <2>1, AddOne, Zenon DEF ErrandInv, OneErrand, revoker
  <2>2. CASE waiting_cls = <<>>
    BY <2>2, Zenon DEF ErrandInv, revoker, TypeOK
  <2> QED
    BY <2>1, <2>2, Zenon
<1>4. revoker_queue = 1 => /\ retryer_queue = 0 /\ sjobs = <<>>
                           /\ \A a \in Agent : ~Active(a)
  BY DEF ErrandInv, OneErrand, NoneQueued
<1> USE <1>1, <1>x, <1>2, <1>3, <1>4
<1>t. TypeOK'
  BY Zenon DEF ErrandInv, TypeOK, Kind, AgentPC
<1>e. OneErrand'
  BY DEF ErrandInv, OneErrand, NoneQueued
<1>a. RevokesOwner'
  BY Zenon DEF ErrandInv, OneErrand, NoneQueued, RevokesOwner, Revoked
<1>b. RetriesHead'
  BY DEF ErrandInv, OneErrand, NoneQueued, RetriesHead, Retried
<1>c. CallsOwner'
  BY Zenon DEF ErrandInv, OneErrand, CallsOwner
<1>n. Alone
  BY DEF ErrandInv, OneErrand, NoneQueued, Alone, Resting, RetryOk, RetryErr
<1> QED
  BY <1>t, <1>e, <1>a, <1>b, <1>c, <1>n, Zenon DEF ErrandInv

(* A pool thread takes a job.                                              *)
LEMMA TakeJobKept ==
  ASSUME Fit, ErrandInv, NEW a \in Agent, TakeJob(a)
  PROVE  ErrandInv' /\ Alone
<1>1. /\ owner_cl' = owner_cl /\ waiting_cls' = waiting_cls
      /\ retryer_queue' = retryer_queue /\ revoker_queue' = revoker_queue
      /\ retryerAsleep' = retryerAsleep /\ revokerAsleep' = revokerAsleep
      /\ run[a].pc = "idle"
  BY Zenon DEF TakeJob, lockVars, retryVars, revokeVars
<1>x. (\A c : Waits(c)' <=> Waits(c)) /\ (Distinct' <=> Distinct)
  BY <1>1, Zenon DEF Waits, Distinct
<1>2. PICK k \in Kind : sjobs = <<k>>
  BY Zenon DEF TakeJob, ErrandInv, OneErrand, Kind
<1>3. Head(sjobs) = k /\ Tail(sjobs) = <<>>
  BY <1>2
<1>3a. sjobs' = <<>> /\ run' = [run EXCEPT ![a].pc = "start", ![a].kind = k]
  BY <1>3, Zenon DEF TakeJob
<1>4. sjobs' = <<>> /\ run'[a].pc = "start" /\ run'[a].kind = k
  BY <1>3a, Zenon DEF ErrandInv, TypeOK
<1>5. \A b \in Agent : b # a => run'[b] = run[b]
  BY <1>3a, Zenon DEF ErrandInv, TypeOK
<1>6. /\ retryer_queue = 0 /\ revoker_queue = 0 /\ waiting_cls # <<>>
      /\ \A b \in Agent : ~Active(b)
  BY <1>2, Zenon DEF ErrandInv, OneErrand, NoneQueued
<1>7. \A b \in Agent : Active(b)' <=> b = a
  BY <1>4, <1>5, <1>6, Zenon DEF Active
<1> USE <1>1, <1>x, <1>2, <1>4, <1>5, <1>6, <1>7
<1>t. TypeOK'
  <2>a. [run[a] EXCEPT !.pc = "start", !.kind = k]
          \in [pc : AgentPC, kind : Kind, cl : Client \cup {NoClient}]
    BY Zenon DEF ErrandInv, TypeOK, AgentPC
  <2>1. run' \in [Agent -> [pc : AgentPC, kind : Kind,
                           cl : Client \cup {NoClient}]]
    BY <1>3a, <2>a DEF ErrandInv, TypeOK, AgentPC, Kind, Idle
  <2>2. sjobs' \in Seq(Kind) /\ Len(sjobs') <= JobMax
    BY DEF Fit
  <2> QED
    BY <2>1, <2>2, Zenon DEF ErrandInv, TypeOK
<1>e. OneErrand'
  BY Zenon DEF ErrandInv, OneErrand, NoneQueued
<1>a. RevokesOwner'
  BY Zenon DEF ErrandInv, OneErrand, NoneQueued, RevokesOwner, Revoked, Kind
<1>b. RetriesHead'
  BY Zenon DEF ErrandInv, OneErrand, NoneQueued, RetriesHead, Retried
<1>c. CallsOwner'
  BY Zenon DEF ErrandInv, OneErrand, CallsOwner
<1>n. Alone
  BY Zenon DEF ErrandInv, OneErrand, NoneQueued, Alone, Resting, RetryOk, RetryErr
<1> QED
  BY <1>t, <1>e, <1>a, <1>b, <1>c, <1>n, Zenon DEF ErrandInv

(* A job reads owner_cl and calls the owner.                               *)
LEMMA BindOwnerKept ==
  ASSUME Fit, ErrandInv, NEW a \in Agent, BindOwner(a)
  PROVE  ErrandInv' /\ Alone
<1>1. /\ owner_cl' = owner_cl /\ waiting_cls' = waiting_cls
      /\ retryer_queue' = retryer_queue /\ revoker_queue' = revoker_queue
      /\ retryerAsleep' = retryerAsleep /\ revokerAsleep' = revokerAsleep
      /\ sjobs' = sjobs /\ run[a].pc = "start"
  BY Zenon DEF BindOwner, lockVars, retryVars, revokeVars
<1>x. (\A c : Waits(c)' <=> Waits(c)) /\ (Distinct' <=> Distinct)
  BY <1>1, Zenon DEF Waits, Distinct
<1>2. /\ run'[a].pc = (IF owner_cl = NoClient THEN "RPCERR" ELSE "calling")
      /\ run'[a].kind = run[a].kind /\ run'[a].cl = owner_cl
      /\ \A b \in Agent : b # a => run'[b] = run[b]
  BY Zenon DEF BindOwner, ErrandInv, TypeOK
<1>3. \A b \in Agent : Active(b)' <=> Active(b)
  BY <1>1, <1>2, Zenon DEF Active
<1>4. run[a].kind = "retry" => owner_cl \in Client
  BY <1>1, WaitsHead, Zenon DEF ErrandInv, TypeOK, OneErrand, RetriesHead, Retried, Active
<1>5. owner_cl = NoClient \/ owner_cl \in Client
  BY Zenon DEF ErrandInv, TypeOK
<1> USE <1>1, <1>x, <1>2, <1>3, <1>4, <1>5
<1>t. TypeOK'
  BY DEF ErrandInv, TypeOK, Kind, AgentPC, BindOwner
<1>e. OneErrand'
  BY Zenon DEF ErrandInv, OneErrand, NoneQueued
<1>a. RevokesOwner'
  BY DEF ErrandInv, OneErrand, NoneQueued, RevokesOwner, Revoked
<1>b. RetriesHead'
  BY Zenon DEF ErrandInv, OneErrand, NoneQueued, RetriesHead, Retried
<1>c. CallsOwner'
  BY DEF ErrandInv, OneErrand, CallsOwner
<1>n. Alone
  BY Zenon DEF Fit, ErrandInv, OneErrand, NoneQueued, Alone, Resting, RetryOk, RetryErr
<1> QED
  BY <1>t, <1>e, <1>a, <1>b, <1>c, <1>n, Zenon DEF ErrandInv

(* retryer_rpc after a failed call.                                        *)
LEMMA RetryFailedKept ==
  ASSUME Fit, ErrandInv, NEW a \in Agent, run[a].pc = "RPCERR", retryer_rpc(a)
  PROVE  ErrandInv' /\ Alone
<1>1. /\ owner_cl' = NoClient /\ waiting_cls' = waiting_cls
      /\ retryer_queue' = retryer_queue + 1 /\ revoker_queue' = revoker_queue
      /\ retryerAsleep' = retryerAsleep /\ revokerAsleep' = revokerAsleep
      /\ sjobs' = sjobs /\ run[a].kind = "retry"
      /\ run' = [run EXCEPT ![a] = Idle]
  BY Zenon DEF retryer_rpc, revokeVars
<1>x. (\A c : Waits(c)' <=> Waits(c)) /\ (Distinct' <=> Distinct)
  BY <1>1, Zenon DEF Waits, Distinct
<1>2. /\ run'[a].pc = "idle" /\ run'[a].kind = "retry"
      /\ \A b \in Agent : b # a => run'[b] = run[b]
  BY <1>1, Zenon DEF ErrandInv, TypeOK, Idle
<1>3. Active(a)
  BY <1>1, Zenon DEF Active
<1>4. /\ NoneQueued /\ waiting_cls # <<>> /\ retryer_queue' = 1
      /\ \A b \in Agent : Active(b) => b = a
  BY <1>1, <1>3 DEF ErrandInv, OneErrand, NoneQueued
<1>5. \A b \in Agent : ~Active(b)'
  BY <1>2, <1>4, Zenon DEF Active
<1>6. \A b \in Agent : run'[b].pc \notin {"calling", "blocked"}
  BY <1>5, <1>2, Zenon DEF Active
<1> USE <1>1, <1>x, <1>2, <1>3, <1>4, <1>5, <1>6
<1>t. TypeOK'
  BY DEF ErrandInv, TypeOK, Kind, AgentPC, Idle
<1>e. OneErrand'
  BY Zenon DEF ErrandInv, OneErrand, NoneQueued
<1>a. RevokesOwner'
  BY DEF ErrandInv, OneErrand, NoneQueued, RevokesOwner, Revoked
<1>b. RetriesHead'
  BY Zenon DEF ErrandInv, OneErrand, NoneQueued, RetriesHead, Retried
<1>c. CallsOwner'
  BY Zenon DEF ErrandInv, OneErrand, CallsOwner
<1>n. Alone
  BY Zenon DEF ErrandInv, OneErrand, NoneQueued, Alone, Resting, RetryOk, RetryErr
<1> QED
  BY <1>t, <1>e, <1>a, <1>b, <1>c, <1>n, Zenon DEF ErrandInv

(* retryer_rpc after a call that succeeded.                                *)
LEMMA RetryDoneKept ==
  ASSUME Fit, ErrandInv, NEW a \in Agent, run[a].pc = "OK", retryer_rpc(a)
  PROVE  ErrandInv' /\ Alone
<1>1. /\ owner_cl' = owner_cl /\ waiting_cls' = Tail(waiting_cls)
      /\ retryer_queue' = retryer_queue /\ retryerAsleep' = retryerAsleep
      /\ sjobs' = sjobs /\ run[a].kind = "retry" /\ waiting_cls # <<>>
      /\ run' = [run EXCEPT ![a] = Idle]
      /\ IF waiting_cls' # <<>>
           THEN revoker_queue' = revoker_queue + 1 /\ revokerAsleep' = FALSE
           ELSE revoker_queue' = revoker_queue /\ revokerAsleep' = revokerAsleep
  BY Zenon DEF retryer_rpc, revokeVars, AskRevoke
<1>x. /\ \A d : Waits(d)' <=> Waits(d) /\ d # Head(waiting_cls)
      /\ Distinct' /\ waiting_cls' \in Seq(Client)
  BY <1>1, WaitsTail, Zenon DEF ErrandInv, TypeOK
<1>h. Head(waiting_cls) \in Client /\ Waits(Head(waiting_cls))
  BY <1>1, WaitsHead, Zenon DEF ErrandInv, TypeOK
<1>2. /\ run'[a].pc = "idle" /\ run'[a].kind = "retry"
      /\ \A b \in Agent : b # a => run'[b] = run[b]
  BY <1>1, Zenon DEF ErrandInv, TypeOK, Idle
<1>3. Active(a)
  BY <1>1, Zenon DEF Active
<1>4. NoneQueued /\ \A b \in Agent : Active(b) => b = a
  BY <1>3, Zenon DEF ErrandInv, OneErrand
<1>5. \A b \in Agent : ~Active(b)'
  BY <1>2, <1>4, Zenon DEF Active
<1>6. \A b \in Agent : /\ run'[b].pc \notin {"calling", "blocked"}
                       /\ ~(run'[b].kind = "retry" /\ run'[b].pc = "OK")
  BY <1>5, <1>2, Zenon DEF Active
<1>7. owner_cl = Head(waiting_cls)
  BY <1>1, <1>3, Zenon DEF ErrandInv, RetriesHead, Retried
<1> USE <1>1, <1>x, <1>h, <1>2, <1>3, <1>4, <1>5, <1>6, <1>7
<1>t. TypeOK'
  <2>1. run' \in [Agent -> [pc : AgentPC, kind : Kind,
                           cl : Client \cup {NoClient}]]
    BY Zenon DEF ErrandInv, TypeOK, AgentPC, Kind, Idle
  <2>2. revoker_queue' \in Nat
    BY DEF NoneQueued
  <2>3. revokerAsleep' \in BOOLEAN
    BY Zenon DEF ErrandInv, TypeOK
  <2> QED
    BY <2>1, <2>2, <2>3, Zenon DEF ErrandInv, TypeOK
<1>e. OneErrand'
  BY DEF ErrandInv, OneErrand, NoneQueued
<1>a. RevokesOwner'
  BY Zenon DEF ErrandInv, OneErrand, NoneQueued, RevokesOwner, Revoked
<1>b. RetriesHead'
  BY Zenon DEF ErrandInv, OneErrand, NoneQueued, RetriesHead, Retried
<1>c. CallsOwner'
  BY Zenon DEF ErrandInv, OneErrand, CallsOwner
<1>n. Alone
  BY Zenon DEF ErrandInv, OneErrand, NoneQueued, Alone, Resting, RetryOk, RetryErr
<1> QED
  BY <1>t, <1>e, <1>a, <1>b, <1>c, <1>n, Zenon DEF ErrandInv

(* The end of revoker_rpc.                                                 *)
LEMMA RevokeDoneKept ==
  ASSUME Fit, ErrandInv, NEW a \in Agent, revoker_rpc(a)
  PROVE  ErrandInv' /\ Alone
<1>1. /\ owner_cl' = owner_cl /\ waiting_cls' = waiting_cls
      /\ retryer_queue' = retryer_queue
      /\ retryerAsleep' = retryerAsleep /\ revokerAsleep' = revokerAsleep
      /\ sjobs' = sjobs /\ run[a].kind = "revoke"
      /\ run[a].pc \in {"OK", "RPCERR"}
      /\ revoker_queue' = IF run[a].pc = "OK" THEN revoker_queue
                                              ELSE revoker_queue + 1
      /\ run' = [run EXCEPT ![a] = Idle]
  BY Zenon DEF revoker_rpc, lockVars, retryVars
<1>x. (\A c : Waits(c)' <=> Waits(c)) /\ (Distinct' <=> Distinct)
  BY <1>1, Zenon DEF Waits, Distinct
<1>2. /\ run'[a].pc = "idle" /\ run'[a].kind = "retry"
      /\ \A b \in Agent : b # a => run'[b] = run[b]
  BY <1>1, Zenon DEF ErrandInv, TypeOK, Idle
<1>3. ~Active(a)' /\ \A b \in Agent : b # a => (Active(b)' <=> Active(b))
  BY <1>2, Zenon DEF Active
<1>4. \/ run[a].pc = "OK" /\ ~Active(a) /\ revoker_queue' = revoker_queue
      \/ /\ run[a].pc = "RPCERR" /\ Active(a) /\ NoneQueued
         /\ waiting_cls # <<>> /\ revoker_queue' = 1
         /\ \A b \in Agent : Active(b) => b = a
  <2>1. CASE run[a].pc = "OK"
    BY <1>1, <2>1, Zenon DEF Active
  <2>2. CASE run[a].pc = "RPCERR"
    <3>1. Active(a)
      BY <1>1, <2>2, Zenon DEF Active
    <3> QED
      BY <1>1, <2>2, <3>1 DEF ErrandInv, OneErrand, NoneQueued
  <2> QED
    BY <1>1, <2>1, <2>2, Zenon
<1> USE <1>1, <1>x, <1>2, <1>3, <1>4
<1>t. TypeOK'
  BY DEF ErrandInv, TypeOK, Kind, AgentPC, Idle, NoneQueued
<1>e. OneErrand'
  BY Zenon DEF ErrandInv, OneErrand, NoneQueued
<1>a. RevokesOwner'
  BY Zenon DEF ErrandInv, OneErrand, NoneQueued, RevokesOwner, Revoked
<1>b. RetriesHead'
  BY Zenon DEF ErrandInv, OneErrand, NoneQueued, RetriesHead, Retried
<1>c. CallsOwner'
  BY DEF ErrandInv, OneErrand, CallsOwner
<1>n. Alone
  BY Zenon DEF ErrandInv, OneErrand, NoneQueued, Alone, Resting, RetryOk, RetryErr
<1> QED
  BY <1>t, <1>e, <1>a, <1>b, <1>c, <1>n, Zenon DEF ErrandInv

(* Every step of the server's own threads.                                 *)
LEMMA ServerAlone ==
  ASSUME Fit, ErrandInv,
         \/ retryer \/ revoker \/ SpuriousWakeup \/ UNCHANGED vars
         \/ \E a \in Agent : \/ TakeJob(a) \/ BindOwner(a)
                            \/ retryer_rpc(a) \/ revoker_rpc(a)
  PROVE  ErrandInv' /\ Alone
<1>1. CASE retryer
  <2>1. CASE retryer_queue = 1
    BY <1>1, <2>1, RetryerGrants, Zenon
  <2>2. CASE retryer_queue = 0
    <3>1. /\ UNCHANGED <<owner_cl, waiting_cls, retryer_queue, revoker_queue,
                         sjobs, run, revokerAsleep>>
          /\ retryerAsleep' = TRUE
      BY <1>1, <2>2 DEF retryer, revokeVars
    <3>2. revokerAsleep' \in BOOLEAN /\ retryerAsleep' \in BOOLEAN
      BY <3>1, Zenon DEF ErrandInv, TypeOK
    <3> QED
      BY <3>1, <3>2, ServerFrame, Zenon
  <2> QED
    BY <2>1, <2>2, Zenon DEF ErrandInv, OneErrand
<1>2. CASE revoker
  BY <1>2, RevokerKept, Zenon
<1>3. CASE SpuriousWakeup
  <2>1. UNCHANGED <<owner_cl, waiting_cls, retryer_queue, revoker_queue,
                    sjobs, run>>
    BY <1>3, Zenon DEF SpuriousWakeup, lockVars
  <2>2. revokerAsleep' \in BOOLEAN /\ retryerAsleep' \in BOOLEAN
    BY <1>3, Zenon DEF SpuriousWakeup, ErrandInv, TypeOK
  <2> QED
    BY <2>1, <2>2, ServerFrame, Zenon
<1>4. CASE UNCHANGED vars
  <2>1. UNCHANGED <<owner_cl, waiting_cls, retryer_queue, revoker_queue,
                    sjobs, run, revokerAsleep, retryerAsleep>>
    BY <1>4, Zenon DEF vars, lockVars, retryVars, revokeVars
  <2>2. revokerAsleep' \in BOOLEAN /\ retryerAsleep' \in BOOLEAN
    BY <2>1, Zenon DEF ErrandInv, TypeOK
  <2> QED
    BY <2>1, <2>2, ServerFrame, Zenon
<1>5. ASSUME NEW a \in Agent, retryer_rpc(a) PROVE ErrandInv' /\ Alone
  <2>1. run[a].pc \in {"RPCERR", "OK"}
    BY <1>5, Zenon DEF retryer_rpc
  <2> QED
    BY <1>5, <2>1, RetryFailedKept, RetryDoneKept, Zenon
<1> QED
  BY <1>1, <1>2, <1>3, <1>4, <1>5, TakeJobKept, BindOwnerKept, RevokeDoneKept, Zenon

-----------------------------------------------------------------------------
(* An acquire call that is granted.                                        *)
LEMMA AcquireGranted ==
  ASSUME Fit, ErrandInv, NEW c \in Client, ~Waits(c), acquire_ok(c)
  PROVE  /\ ErrandInv'
         /\ owner_cl = NoClient /\ owner_cl' = c
         /\ waiting_cls' = waiting_cls /\ run' = run
         /\ retryer_queue' = retryer_queue
         /\ waiting_cls = <<>> => retryer_queue = 0
<1>1. /\ owner_cl = NoClient /\ owner_cl' = c /\ waiting_cls' = waiting_cls
      /\ revoker_queue' = revoker_queue
      /\ retryer_queue' = retryer_queue
      /\ retryerAsleep' = retryerAsleep /\ revokerAsleep' = revokerAsleep
      /\ sjobs' = sjobs /\ run' = run
  BY Zenon DEF acquire_ok, LockFree, retryVars, revokeVars
<1>x. (\A d : Waits(d)' <=> Waits(d)) /\ (Distinct' <=> Distinct)
  BY <1>1, Zenon DEF Waits, Distinct
<1>2. \A a : Active(a)' <=> Active(a)
  BY <1>1, Zenon DEF Active
<1>3. ~Retried
  BY <1>1, WaitsHead
  DEF Fit, ErrandInv, TypeOK, RetriesHead, OneErrand, Retried, NoneQueued
<1>4. \A a \in Agent : run[a].pc \notin {"calling", "blocked"}
  BY <1>1, Zenon DEF Fit, ErrandInv, CallsOwner
<1> USE <1>1, <1>x, <1>2, <1>3, <1>4
<1>t. TypeOK'
  BY Zenon DEF ErrandInv, TypeOK, Kind, AgentPC
<1>e. OneErrand'
  BY Zenon DEF ErrandInv, OneErrand, NoneQueued
<1>a. RevokesOwner'
  BY Zenon DEF ErrandInv, OneErrand, NoneQueued, RevokesOwner, Revoked
<1>b. RetriesHead'
  BY Zenon DEF ErrandInv, OneErrand, NoneQueued, RetriesHead, Retried
<1>c. CallsOwner'
  BY Zenon DEF ErrandInv, OneErrand, CallsOwner
<1> QED
  BY <1>1, <1>t, <1>e, <1>a, <1>b, <1>c, Zenon DEF ErrandInv, OneErrand, NoneQueued

(* An acquire call that is answered RETRY.                                 *)
LEMMA AcquireDenied ==
  ASSUME Fit, ErrandInv, NEW c \in Client, ~Waits(c), owner_cl # c,
         acquire_retry(c)
  PROVE  /\ ErrandInv' /\ (Resting => Resting')
         /\ owner_cl' = owner_cl /\ run' = run
         /\ retryer_queue' = retryer_queue
         /\ \A d : Waits(d)' <=> Waits(d) \/ d = c
         /\ waiting_cls # <<>> => Head(waiting_cls') = Head(waiting_cls)
         /\ \A a \in Agent : RetryOk(a) => waiting_cls # <<>>
<1>1. /\ owner_cl # NoClient /\ owner_cl' = owner_cl
      /\ waiting_cls' = Append(waiting_cls, c)
      /\ retryer_queue' = retryer_queue /\ retryerAsleep' = retryerAsleep
      /\ sjobs' = sjobs /\ run' = run
      /\ IF waiting_cls = <<>>
           THEN revoker_queue' = revoker_queue + 1 /\ revokerAsleep' = FALSE
           ELSE revoker_queue' = revoker_queue /\ revokerAsleep' = revokerAsleep
  BY Zenon DEF acquire_retry, LockFree, FirstWaiter, AskRevoke, retryVars,
         revokeVars
<1>x. /\ waiting_cls' \in Seq(Client) /\ waiting_cls' # <<>>
      /\ \A d : Waits(d)' <=> Waits(d) \/ d = c
      /\ waiting_cls # <<>> => Head(waiting_cls') = Head(waiting_cls)
      /\ Distinct'
  BY <1>1, WaitsAppend, Zenon DEF ErrandInv, TypeOK, Distinct
<1>2. \A a : Active(a)' <=> Active(a)
  BY <1>1, Zenon DEF Active
<1>3. waiting_cls = <<>> => NoneQueued /\ (\A a \in Agent : ~Active(a)) /\ revoker_queue' = 1
  BY <1>1 DEF ErrandInv, OneErrand, NoneQueued
<1>4. \A a \in Agent : RetryOk(a) => waiting_cls # <<>>
  BY Zenon DEF ErrandInv, OneErrand, Active, RetryOk
<1> USE <1>1, <1>x, <1>2, <1>3, <1>4
<1>t. TypeOK'
  <2>1. revoker_queue' \in Nat
    BY DEF ErrandInv, TypeOK
  <2>2. revokerAsleep' \in BOOLEAN
    BY Zenon DEF ErrandInv, TypeOK
  <2> QED
    BY <2>1, <2>2, Zenon DEF ErrandInv, TypeOK
<1>e. OneErrand'
  BY Zenon DEF ErrandInv, OneErrand, NoneQueued
<1>a. RevokesOwner'
  <2>1. ~Waits(owner_cl)' <=> ~Waits(owner_cl)
    OBVIOUS
  <2>2. CASE waiting_cls = <<>>
    BY <2>1, <2>2 DEF RevokesOwner, Waits
  <2>3. CASE waiting_cls # <<>>
    <3>1. revoker_queue' = revoker_queue
      BY <2>3, Zenon
    <3>2. Revoked' <=> Revoked
      BY <3>1, Zenon DEF Revoked
    <3> QED
      BY <2>1, <3>2, Zenon DEF ErrandInv, RevokesOwner
  <2> QED
    BY <2>2, <2>3, Zenon
<1>b. RetriesHead'
  BY DEF ErrandInv, OneErrand, NoneQueued, RetriesHead, Retried
<1>c. CallsOwner'
  BY Zenon DEF ErrandInv, OneErrand, CallsOwner
<1>r. Resting => Resting'
  BY Zenon DEF Resting, NoneQueued
<1> QED
  BY <1>r, <1>t, <1>e, <1>a, <1>b, <1>c, Zenon DEF ErrandInv

(* A release call that is accepted.                                        *)
LEMMA ReleaseAccepted ==
  ASSUME Fit, ErrandInv, NEW c \in Client, Resting, release(c)
  PROVE  /\ ErrandInv'
         /\ owner_cl = c /\ owner_cl' = NoClient
         /\ waiting_cls' = waiting_cls /\ run' = run
         /\ \A a \in Agent : ~Active(a)
<1>1. /\ owner_cl = c /\ owner_cl' = NoClient /\ waiting_cls' = waiting_cls
      /\ retryer_queue' = retryer_queue + 1 /\ retryerAsleep' = FALSE
      /\ revoker_queue' = revoker_queue /\ revokerAsleep' = revokerAsleep
      /\ sjobs' = sjobs /\ run' = run
  BY Zenon DEF release, revokeVars
<1>x. (\A d : Waits(d)' <=> Waits(d)) /\ (Distinct' <=> Distinct)
  BY <1>1, Zenon DEF Waits, Distinct
<1>2. /\ NoneQueued /\ waiting_cls # <<>> /\ retryer_queue' = 1
      /\ \A a \in Agent : ~Active(a)
  BY <1>1 DEF Resting, NoneQueued
<1>3. \A a : Active(a)' <=> Active(a)
  BY <1>1, Zenon DEF Active
<1>4. \A a \in Agent : run[a].pc \notin {"calling", "blocked"}
  BY <1>2, Zenon DEF Active
<1> USE <1>1, <1>x, <1>2, <1>3, <1>4
<1>t. TypeOK'
  <2>1. /\ owner_cl' \in Client \cup {NoClient}
        /\ retryer_queue' \in Nat
    OBVIOUS
  <2>3. retryerAsleep' \in BOOLEAN
    BY <1>1, Zenon
  <2>2. /\ waiting_cls' \in Seq(Client) /\ revoker_queue' \in Nat
        /\ revokerAsleep' \in BOOLEAN
    BY Zenon DEF ErrandInv, TypeOK
  <2> QED
    BY <2>1, <2>2, <2>3, Zenon DEF ErrandInv, TypeOK
<1>e. OneErrand'
  BY Zenon DEF ErrandInv, OneErrand, NoneQueued
<1>a. RevokesOwner'
  BY DEF ErrandInv, OneErrand, NoneQueued, RevokesOwner, Revoked
<1>b. RetriesHead'
  BY Zenon DEF ErrandInv, OneErrand, NoneQueued, RetriesHead, Retried
<1>c. CallsOwner'
  BY Zenon DEF ErrandInv, OneErrand, CallsOwner
<1> QED
  BY <1>1, <1>2, <1>t, <1>e, <1>a, <1>b, <1>c, Zenon DEF ErrandInv

-----------------------------------------------------------------------------
(* A pool thread with a retry call under way calls the oldest waiter, who  *)
(* is the owner on record.                                                 *)
LEMMA RetryTarget ==
  ASSUME ErrandInv, NEW a \in Agent, run[a].kind = "retry",
         run[a].pc \in {"calling", "OK", "RPCERR"}
  PROVE  LET c == Head(waiting_cls) IN
         /\ c \in Client /\ owner_cl = c /\ waiting_cls # <<>>
         /\ Waits(c) /\ NoneQueued
         /\ \A b \in Agent : Active(b) => b = a
         /\ run[a].pc = "calling" => run[a].cl = c
<1> DEFINE c == Head(waiting_cls)
<1>1. Active(a)
  BY Zenon DEF Active
<1>2. /\ waiting_cls # <<>> /\ NoneQueued
      /\ \A b \in Agent : Active(b) => b = a
  BY <1>1, Zenon DEF ErrandInv, OneErrand
<1>3. c \in Client /\ Waits(c)
  BY <1>2, WaitsHead, Zenon DEF ErrandInv, TypeOK
<1>4. owner_cl = c
  BY <1>1, Zenon DEF ErrandInv, RetriesHead, Retried
<1>6. run[a].pc = "calling" => run[a].cl = c
  BY <1>4, Zenon DEF ErrandInv, CallsOwner
<1> QED
  BY <1>2, <1>3, <1>4, <1>6, Zenon

(* A retry call is answered, or fails.                                     *)
LEMMA RetryAnswered ==
  ASSUME ErrandInv, NEW a \in Agent, run[a].kind = "retry",
         run[a].pc \in {"calling", "OK"}, NEW p \in {"OK", "RPCERR"},
         CallMoves(a, p)
  PROVE  /\ ErrandInv'
         /\ owner_cl' = owner_cl /\ waiting_cls' = waiting_cls
         /\ retryer_queue' = retryer_queue
         /\ run'[a].pc = p /\ run'[a].kind = run[a].kind /\ run'[a].cl = run[a].cl
         /\ \A b \in Agent : b # a => run'[b] = run[b]
<1>r. /\ owner_cl = Head(waiting_cls) /\ owner_cl \in Client
      /\ waiting_cls # <<>> /\ Waits(owner_cl) /\ NoneQueued
      /\ \A b \in Agent : Active(b) => b = a
  BY RetryTarget, Zenon
<1>1. /\ owner_cl' = owner_cl /\ waiting_cls' = waiting_cls
      /\ retryer_queue' = retryer_queue /\ revoker_queue' = revoker_queue
      /\ retryerAsleep' = retryerAsleep /\ revokerAsleep' = revokerAsleep
      /\ sjobs' = sjobs
  BY Zenon DEF CallMoves, lockVars, retryVars, revokeVars
<1>x. (\A d : Waits(d)' <=> Waits(d)) /\ (Distinct' <=> Distinct)
  BY <1>1, Zenon DEF Waits, Distinct
<1>2. /\ run'[a].pc = p /\ run'[a].kind = run[a].kind
      /\ run'[a].cl = run[a].cl
      /\ \A b \in Agent : b # a => run'[b] = run[b]
      /\ run' \in [Agent -> [pc : AgentPC, kind : Kind,
                             cl : Client \cup {NoClient}]]
  BY Zenon DEF ErrandInv, TypeOK, CallMoves, AgentPC
<1>3. /\ \A b \in Agent : Active(b)' <=> Active(b)
      /\ \A b \in Agent : b # a => run[b].pc \notin {"calling", "blocked"}
  BY <1>r, <1>2, Zenon DEF Active
<1> USE <1>r, <1>1, <1>x, <1>2, <1>3
<1>t. TypeOK'
  BY Zenon DEF ErrandInv, TypeOK, Kind, AgentPC
<1>e. OneErrand'
  BY Zenon DEF ErrandInv, OneErrand, NoneQueued
<1>a. RevokesOwner'
  BY Zenon DEF ErrandInv, OneErrand, NoneQueued, RevokesOwner, Revoked
<1>b. RetriesHead'
  BY Zenon DEF ErrandInv, OneErrand, NoneQueued, RetriesHead, Retried
<1>c. CallsOwner'
  BY DEF ErrandInv, OneErrand, CallsOwner
<1> QED
  BY <1>t, <1>e, <1>a, <1>b, <1>c, Zenon DEF ErrandInv

(* A revoke call is taken up by the client, or blocks in it.               *)
LEMMA RevokeAnswered ==
  ASSUME ErrandInv, NEW a \in Agent, run[a].kind = "revoke",
         run[a].pc \in {"calling", "blocked"}, NEW p \in {"OK", "blocked"},
         CallMoves(a, p)
  PROVE  /\ ErrandInv' /\ (p = "OK" => Resting')
         /\ owner_cl = run[a].cl /\ owner_cl \in Client
         /\ ~Waits(owner_cl) /\ ~Resting
         /\ owner_cl' = owner_cl /\ waiting_cls' = waiting_cls
         /\ retryer_queue' = retryer_queue
         /\ \A b \in Agent : b # a => ~Active(b)
         /\ run'[a].pc = p /\ run'[a].kind = run[a].kind /\ run'[a].cl = run[a].cl
         /\ \A b \in Agent : b # a => run'[b] = run[b]
<1>r. /\ owner_cl = run[a].cl /\ owner_cl \in Client
      /\ Active(a) /\ NoneQueued /\ waiting_cls # <<>> /\ ~Waits(owner_cl)
      /\ \A b \in Agent : Active(b) => b = a
  <2>1. owner_cl = run[a].cl /\ owner_cl \in Client /\ Active(a)
    BY Zenon DEF Active, ErrandInv, CallsOwner
  <2>2. /\ NoneQueued /\ waiting_cls # <<>>
        /\ \A b \in Agent : Active(b) => b = a
    BY <2>1, Zenon DEF ErrandInv, OneErrand
  <2>3. ~Waits(owner_cl)
    BY <2>1, Zenon DEF ErrandInv, RevokesOwner, Revoked
  <2> QED
    BY <2>1, <2>2, <2>3, Zenon
<1>i. \A b \in Agent :
        b # a => ~Active(b) /\ run[b].pc \notin {"calling", "blocked"}
  BY <1>r, Zenon DEF Active
<1>1. /\ owner_cl' = owner_cl /\ waiting_cls' = waiting_cls
      /\ retryer_queue' = retryer_queue /\ revoker_queue' = revoker_queue
      /\ retryerAsleep' = retryerAsleep /\ revokerAsleep' = revokerAsleep
      /\ sjobs' = sjobs
  BY Zenon DEF CallMoves, lockVars, retryVars, revokeVars
<1>x. (\A d : Waits(d)' <=> Waits(d)) /\ (Distinct' <=> Distinct)
  BY <1>1, Zenon DEF Waits, Distinct
<1>2. /\ run'[a].pc = p /\ run'[a].kind = run[a].kind
      /\ run'[a].cl = run[a].cl
      /\ \A b \in Agent : b # a => run'[b] = run[b]
      /\ run' \in [Agent -> [pc : AgentPC, kind : Kind,
                             cl : Client \cup {NoClient}]]
  BY DEF ErrandInv, TypeOK, CallMoves, AgentPC
<1>3. /\ \A b \in Agent : b # a => ~Active(b)'
      /\ Active(a)' <=> p = "blocked"
  BY <1>i, <1>2, Zenon DEF Active
<1> USE <1>r, <1>i, <1>1, <1>x, <1>2, <1>3
<1>t. TypeOK'
  BY Zenon DEF ErrandInv, TypeOK, Kind, AgentPC
<1>e. OneErrand'
  BY Zenon DEF ErrandInv, OneErrand, NoneQueued
<1>a. RevokesOwner'
  BY Zenon DEF ErrandInv, OneErrand, NoneQueued, RevokesOwner, Revoked
<1>b. RetriesHead'
  BY Zenon DEF ErrandInv, OneErrand, NoneQueued, RetriesHead, Retried
<1>c. CallsOwner'
  BY Zenon DEF ErrandInv, OneErrand, CallsOwner
<1>m. (p = "OK" => Resting') /\ ~Resting
  BY Zenon DEF Resting, NoneQueued
<1> QED
  BY <1>m, <1>t, <1>e, <1>a, <1>b, <1>c, Zenon DEF ErrandInv

-----------------------------------------------------------------------------
(* The one errand is in one place: as an entry of retryer_queue or         *)
(* revoker_queue, as a job of the pool, or with a pool thread.             *)
LEMMA ErrandPlaces ==
  ASSUME ErrandInv
  PROVE  \A x, y \in
           {<<"retryer_queue", i>> : i \in 1..retryer_queue}
           \cup {<<"revoker_queue", i>> : i \in 1..revoker_queue}
           \cup {<<"job", i>> : i \in DOMAIN sjobs}
           \cup {<<"thread", a>> : a \in {b \in Agent :
                                 run[b].pc \in {"start", "calling", "blocked"}}}
         : x = y
<1> DEFINE R == {b \in Agent : run[b].pc \in {"start", "calling", "blocked"}}
<1>1. \A i \in DOMAIN sjobs : i = 1 /\ sjobs # <<>>
  <2>1. sjobs \in {<<>>, <<"retry">>, <<"revoke">>}
    BY Zenon DEF ErrandInv, OneErrand
  <2> QED
    BY <2>1
<1>2. \A a \in R : a \in Agent /\ Active(a)
  BY Zenon DEF Active
<1>3. (\A a, b \in R : a = b) /\ (R # {} => NoneQueued)
  BY <1>2, Zenon DEF ErrandInv, OneErrand
<1>4. /\ \A i \in 1..retryer_queue : i = 1 /\ retryer_queue = 1
      /\ \A i \in 1..revoker_queue : i = 1 /\ revoker_queue = 1
      /\ retryer_queue = 1 => revoker_queue = 0 /\ sjobs = <<>>
      /\ revoker_queue = 1 => sjobs = <<>>
  BY DEF ErrandInv, OneErrand
<1> HIDE DEF R
<1>5. \A x, y \in {<<"retryer_queue", i>> : i \in 1..retryer_queue}
                   \cup {<<"revoker_queue", i>> : i \in 1..revoker_queue}
                   \cup {<<"job", i>> : i \in DOMAIN sjobs}
                   \cup {<<"thread", a>> : a \in R} : x = y
  BY <1>1, <1>3, <1>4 DEF NoneQueued
<1> QED
  BY <1>5, Zenon DEF R

(***************************************************************************)
(* The agreement between the server and its clients.                       *)
(***************************************************************************)
(* A client whose lock is on its way back rests the server's errand.       *)
ReturnRests ==
  \A c \in Client : owner_cl = c /\ c \in returning => Resting

(* A revoke_handler that waits in a client blocks the pool thread that     *)
(* called it.                                                              *)
HandlerBlocks ==
  \A c \in Client, a \in Agent :
    hpc[<<c, a>>] # "idle" => run[a].pc = "blocked" /\ run[a].cl = c

(* From the moment a client is in waiting_cls it neither calls the server  *)
(* nor gives the lock back.                                                *)
Waiters ==
  /\ \A c \in Client : Waits(c) => c \in waitable
  /\ \A a \in Agent :
       RetryOk(a) => state[Head(waiting_cls)] \in {"FREE", "LOCKED"}

(* The client on record either waits for its retry, or has the lock, or is *)
(* about to be told so.                                                    *)
OwnerHas ==
  \A c \in Client : owner_cl = c =>
    /\ c \notin calling /\ c \notin answered
    /\ \/ Waits(c)
       \/ c \in granted
       \/ state[c] \in {"FREE", "LOCKED", "RELEASING"}

Agreed == ErrandInv /\ ReturnRests /\ HandlerBlocks /\ Waiters /\ OwnerHas

(* Where no call has failed and acquire has granted nothing over the       *)
(* waiters' heads, whoever has the lock in any form is the owner on        *)
(* record, and only the waiter being retried has what it waits for.        *)
Owned ==
  /\ \A c \in Client : c \in has => owner_cl = c
  /\ retryer_queue = 1 => owner_cl = NoClient
  /\ \A a \in Agent : ~RetryErr(a)
  /\ \A c \in Client :
       Waits(c) => \/ state[c] = "ACQUIRING"
                   \/ c = Head(waiting_cls) /\ \E a \in Agent : RetryOk(a)

(* What the server relies on of its clients, and what a client may do by   *)
(* itself: it starts neither a call nor a release of a lock that is waited *)
(* for or owned.                                                           *)
Clients ==
  \A c \in Client :
    /\ c \in waitable => /\ state[c] \in {"ACQUIRING", "FREE", "LOCKED"}
                         /\ c \notin calling /\ c \notin answered
                         /\ c \notin returning
    /\ c \in granted => state[c] = "ACQUIRING"

Still(c) ==
  /\ c \in returning' <=> c \in returning
  /\ c \in has' <=> c \in has
  /\ c \in granted' <=> c \in granted
  /\ c \in calling' <=> c \in calling
  /\ c \in answered' <=> c \in answered
  /\ c \in waitable' <=> c \in waitable
  /\ state'[c] = state[c]

Calm(c) ==
  /\ c \in returning' => c \in returning
  /\ c \in has' => c \in has
  /\ c \in waitable => /\ c \in waitable'
                       /\ state[c] = "ACQUIRING" => state'[c] = "ACQUIRING"
                       /\ state[c] \in {"FREE", "LOCKED"}
                            => state'[c] \in {"FREE", "LOCKED"}
  /\ c \in calling' => c \in calling \/ state[c] \in {"ABSENT", "NONE"}
  /\ c \in answered' => c \in answered
  /\ c \in answered \/ \/ c \in granted'
                       \/ state'[c] \in {"FREE", "LOCKED", "RELEASING"}
                       \/ /\ c \notin granted
                          /\ state[c] \notin {"FREE", "LOCKED", "RELEASING"}

-----------------------------------------------------------------------------
(* The same, from the invariant.                                           *)
LEMMA WaiterFirst ==
  ASSUME ErrandInv, waiting_cls # <<>>
  PROVE  Head(waiting_cls) \in Client /\ Waits(Head(waiting_cls))
  BY WaitsHead, Zenon DEF ErrandInv, TypeOK

(* retryer_rpc has somebody to pop when its call was answered OK.          *)
LEMMA RetryOkWaits ==
  ASSUME ErrandInv, NEW a \in Agent, RetryOk(a)
  PROVE  waiting_cls # <<>>
  BY Zenon DEF ErrandInv, OneErrand, Active, RetryOk

(* Steps of the clients alone.                                             *)
LEMMA QuietKept ==
  ASSUME Fit, Agreed, Clients, \A c \in Client : Calm(c),
         \A c \in Client, a \in Agent :
           hpc'[<<c, a>>] # "idle" => hpc[<<c, a>>] # "idle",
         UNCHANGED vars
  PROVE  Agreed' /\ (Owned => Owned')
<1>1. /\ owner_cl' = owner_cl /\ waiting_cls' = waiting_cls
      /\ retryer_queue' = retryer_queue /\ revoker_queue' = revoker_queue
      /\ sjobs' = sjobs /\ run' = run
      /\ retryerAsleep' = retryerAsleep /\ revokerAsleep' = revokerAsleep
  BY Zenon DEF vars, lockVars, retryVars, revokeVars
<1>2. ErrandInv'
  BY ServerAlone, Zenon DEF Agreed
<1>3. /\ \A c : Waits(c)' <=> Waits(c)
      /\ \A a : RetryOk(a)' <=> RetryOk(a)
      /\ \A a : RetryErr(a)' <=> RetryErr(a)
      /\ Resting' <=> Resting
  BY <1>1, Zenon DEF Waits, RetryOk, RetryErr, Resting, Active,
              NoneQueued
<1>r. ReturnRests'
  BY <1>1, <1>3, Zenon DEF Agreed, ReturnRests, Calm
<1>f. HandlerBlocks'
  BY <1>1, Zenon DEF Agreed, HandlerBlocks
<1>w. Waiters'
  <2>1. \A c \in Client : Waits(c) => c \in waitable'
    BY Zenon DEF Agreed, Waiters, Calm
  <2>2. ASSUME NEW a \in Agent, RetryOk(a)
        PROVE  state'[Head(waiting_cls)] \in {"FREE", "LOCKED"}
    <3>1. /\ Head(waiting_cls) \in Client /\ Head(waiting_cls) \in waitable
          /\ state[Head(waiting_cls)] \in {"FREE", "LOCKED"}
      BY <2>2, RetryOkWaits, WaiterFirst, Zenon DEF Agreed, Waiters
    <3> QED
      BY <3>1, Zenon DEF Calm
  <2> QED
    BY <1>1, <1>3, <2>1, <2>2, Zenon DEF Waiters
<1>o. OwnerHas'
  <2> SUFFICES ASSUME NEW c \in Client, owner_cl = c
               PROVE  /\ c \notin calling' /\ c \notin answered'
                      /\ \/ Waits(c)
                         \/ c \in granted'
                         \/ state'[c] \in {"FREE", "LOCKED", "RELEASING"}
    BY <1>1, <1>3, Zenon DEF OwnerHas
  <2>1. /\ c \notin calling /\ c \notin answered
        /\ \/ Waits(c)
           \/ c \in granted
           \/ state[c] \in {"FREE", "LOCKED", "RELEASING"}
    BY Zenon DEF Agreed, OwnerHas
  <2>2. state[c] \notin {"ABSENT", "NONE"}
    BY <2>1, Zenon DEF Agreed, Waiters, Clients
  <2> QED
    BY <2>1, <2>2, Zenon DEF Calm
<1>d. ASSUME Owned PROVE Owned'
  <2>1. \A c \in Client : Waits(c) /\ state[c] = "ACQUIRING"
                            => state'[c] = "ACQUIRING"
    BY Zenon DEF Agreed, Waiters, Calm
  <2>2. \A c \in Client : c \in has' => c \in has
    BY Zenon DEF Calm
  <2> QED
    BY <1>1, <1>3, <1>d, <2>1, <2>2, Zenon DEF Owned
<1> QED
  BY <1>2, <1>r, <1>f, <1>w, <1>o, <1>d, Zenon DEF Agreed

(* Steps of the server alone.                                              *)
LEMMA ServerKept ==
  ASSUME Fit, Agreed, Clients, \A c \in Client : Still(c), hpc' = hpc,
         state' = state, ErrandInv', Alone
  PROVE  Agreed' /\ (Owned => Owned')
<1>2. \/ /\ waiting_cls' = waiting_cls
         /\ \A a \in Agent : RetryOk(a)' <=> RetryOk(a)
      \/ /\ \A c : Waits(c)' <=> Waits(c) /\ c # Head(waiting_cls)
         /\ \A a \in Agent : ~RetryOk(a)'
         /\ \E a \in Agent : RetryOk(a)
         /\ owner_cl' = owner_cl
  BY Zenon DEF Alone
<1>3. \/ owner_cl' \in {owner_cl, NoClient}
      \/ owner_cl' = Head(waiting_cls) /\ Waits(owner_cl') /\ ~Resting
  BY Zenon DEF Alone
<1>4. \A c : Waits(c)' => Waits(c)
  BY <1>2, Zenon DEF Waits
<1>n. NoClient \notin Client
  BY Zenon DEF Fit
<1>r. ReturnRests'
  <2> SUFFICES ASSUME NEW c \in Client, owner_cl' = c, c \in returning
               PROVE  Resting'
    BY Zenon DEF ReturnRests, Still
  <2>1. owner_cl = c
    BY <1>3, <1>n, Zenon DEF Agreed, Waiters, Clients
  <2> QED
    BY <2>1, Zenon DEF Agreed, ReturnRests, Alone
<1>f. HandlerBlocks'
  BY Zenon DEF Agreed, HandlerBlocks, Alone
<1>w. Waiters'
  <2>1. \A c \in Client : Waits(c)' => c \in waitable'
    BY <1>4, Zenon DEF Agreed, Waiters, Still
  <2>2. ASSUME NEW a \in Agent, RetryOk(a)'
        PROVE  state'[Head(waiting_cls')] \in {"FREE", "LOCKED"}
    BY <1>2, <2>2, Zenon DEF Agreed, Waiters
  <2> QED
    BY <2>1, <2>2, Zenon DEF Waiters
<1>o. OwnerHas'
  <2> SUFFICES ASSUME NEW c \in Client, owner_cl' = c
               PROVE  /\ c \notin calling /\ c \notin answered
                      /\ \/ Waits(c)'
                         \/ c \in granted
                         \/ state[c] \in {"FREE", "LOCKED", "RELEASING"}
    BY Zenon DEF OwnerHas, Still
  <2>1. CASE owner_cl = c
    <3>1. Waits(c) => Waits(c)' \/ state[c] \in {"FREE", "LOCKED"}
      BY <1>2, Zenon DEF Agreed, Waiters, Waits
    <3> QED
      BY <2>1, <3>1, Zenon DEF Agreed, OwnerHas
  <2>2. CASE owner_cl # c
    <3>1. Waits(c) /\ owner_cl' # owner_cl
      BY <1>3, <1>n, <2>2, Zenon
    <3>2. Waits(c)'
      BY <1>2, <3>1, Zenon DEF Waits
    <3> QED
      BY <3>1, <3>2, Zenon DEF Agreed, Waiters, Clients
  <2> QED
    BY <2>1, <2>2, Zenon
<1>d. ASSUME Owned PROVE Owned'
  <2>1. \A c \in Client : c \in has' => owner_cl' = c
    BY <1>d, <1>n, Zenon DEF Owned, Still, Alone
  <2>2. retryer_queue' = 1 => owner_cl' = NoClient
    BY <1>d, Zenon DEF Owned, Alone
  <2>3. \A a \in Agent : ~RetryErr(a)'
    BY <1>d, Zenon DEF Owned, Alone
  <2>4. ASSUME NEW c \in Client, Waits(c)'
        PROVE  \/ state'[c] = "ACQUIRING"
               \/ c = Head(waiting_cls') /\ \E a \in Agent : RetryOk(a)'
    <3>1. \/ state[c] = "ACQUIRING"
          \/ c = Head(waiting_cls) /\ \E a \in Agent : RetryOk(a)
      BY <1>4, <1>d, <2>4, Zenon DEF Owned
    <3> QED
      BY <1>2, <2>4, <3>1, Zenon
  <2> QED
    BY <2>1, <2>2, <2>3, <2>4, Zenon DEF Owned
<1> QED
  BY <1>r, <1>f, <1>w, <1>o, <1>d, Zenon DEF Agreed


-----------------------------------------------------------------------------
(* An acquire call that is granted.                                        *)
LEMMA GrantKept ==
  ASSUME Fit, Agreed, Clients, NEW c \in Client, acquire_ok(c),
         c \in calling, state' = state, hpc' = hpc,
         c \notin returning', c \notin calling', c \notin answered',
         c \in granted', \A d \in Client : d # c => Still(d)
  PROVE  Agreed' /\ (Owned /\ waiting_cls = <<>> => Owned')
<1>2. ~Waits(c)
  BY Zenon DEF Agreed, Waiters, Clients
<1>3. /\ ErrandInv' /\ owner_cl = NoClient /\ owner_cl' = c
      /\ waiting_cls' = waiting_cls /\ run' = run
      /\ retryer_queue' = retryer_queue
      /\ waiting_cls = <<>> => retryer_queue = 0
  BY <1>2, AcquireGranted, Zenon DEF Agreed
<1>4. /\ \A d : Waits(d)' <=> Waits(d)
      /\ \A a : RetryOk(a)' <=> RetryOk(a)
      /\ \A a : RetryErr(a)' <=> RetryErr(a)
  BY <1>3, Zenon DEF Waits, RetryOk, RetryErr
<1>r. ReturnRests'
  BY <1>3, Zenon DEF ReturnRests
<1>f. HandlerBlocks'
  BY <1>3, Zenon DEF Agreed, HandlerBlocks
<1>w. Waiters'
  BY <1>2, <1>3, <1>4, Zenon DEF Agreed, Waiters, Still
<1>o. OwnerHas'
  BY <1>3, Zenon DEF OwnerHas
<1>d. ASSUME Owned, waiting_cls = <<>> PROVE Owned'
  <2>1. \A d \in Client : d \in has' => owner_cl' = d
    BY <1>3, <1>d, Zenon DEF Fit, Owned, Still
  <2>2. \A d : ~Waits(d)
    BY <1>d DEF Waits
  <2> QED
    BY <1>3, <1>4, <1>d, <2>1, <2>2 DEF Owned
<1> QED
  BY <1>3, <1>r, <1>f, <1>w, <1>o, <1>d, Zenon DEF Agreed

(* An acquire call that is answered RETRY.                                 *)
LEMMA DenyKept ==
  ASSUME Fit, Agreed, Clients, NEW c \in Client, acquire_retry(c),
         c \in calling, state' = state, hpc' = hpc,
         c \notin returning', c \in waitable', c \in has' => c \in has,
         state[c] = "ACQUIRING", \A d \in Client : d # c => Still(d)
  PROVE  Agreed' /\ (Owned => Owned')
<1>2. ~Waits(c) /\ owner_cl # c
  BY Zenon DEF Agreed, Waiters, Clients, OwnerHas
<1>3. /\ ErrandInv' /\ (Resting => Resting')
      /\ owner_cl' = owner_cl /\ run' = run /\ retryer_queue' = retryer_queue
      /\ \A d : Waits(d)' <=> Waits(d) \/ d = c
      /\ waiting_cls # <<>> => Head(waiting_cls') = Head(waiting_cls)
      /\ \A a \in Agent : RetryOk(a) => waiting_cls # <<>>
  BY <1>2, AcquireDenied, Zenon DEF Agreed
<1>4. /\ \A a : RetryOk(a)' <=> RetryOk(a)
      /\ \A a : RetryErr(a)' <=> RetryErr(a)
  BY <1>3, Zenon DEF RetryOk, RetryErr
<1>r. ReturnRests'
  BY <1>2, <1>3, Zenon DEF Agreed, ReturnRests, Still
<1>f. HandlerBlocks'
  BY <1>3 DEF Agreed, HandlerBlocks
<1>w. Waiters'
  BY <1>3, <1>4, Zenon DEF Agreed, Waiters, Still
<1>o. OwnerHas'
  BY <1>2, <1>3, Zenon DEF Agreed, OwnerHas, Still
<1>d. ASSUME Owned PROVE Owned'
  <2>1. \A d \in Client : d \in has' => d \in has
    BY Zenon DEF Still
  <2> QED
    BY <1>3, <1>4, <1>d, <2>1 DEF Owned
<1> QED
  BY <1>3, <1>r, <1>f, <1>w, <1>o, <1>d, Zenon DEF Agreed

(* A release call that is accepted, whether or not the client is told.     *)
LEMMA ReleaseServed ==
  ASSUME Fit, Agreed, Clients, NEW c \in Client, release(c),
         c \in returning, state' = state, hpc' = hpc,
         c \in waitable' <=> c \in waitable,
         \A d \in Client : d # c => Still(d)
  PROVE  Agreed' /\ (Owned /\ c \notin has' => Owned')
<1>2. Resting
  BY Zenon DEF Agreed, ReturnRests, release
<1>3. /\ ErrandInv' /\ owner_cl = c /\ owner_cl' = NoClient
      /\ waiting_cls' = waiting_cls /\ run' = run
      /\ \A a \in Agent : ~Active(a)
  BY <1>2, ReleaseAccepted, Zenon DEF Agreed
<1>4. /\ \A d : Waits(d)' <=> Waits(d)
      /\ \A a \in Agent : ~RetryOk(a) /\ ~RetryOk(a)'
      /\ \A a \in Agent : ~RetryErr(a)'
  BY <1>3, Zenon DEF Waits, RetryOk, RetryErr, Active
<1>n. NoClient \notin Client
  BY Zenon DEF Fit
<1>r. ReturnRests'
  BY <1>3, <1>n, Zenon DEF ReturnRests
<1>f. HandlerBlocks'
  BY <1>3, Zenon DEF Agreed, HandlerBlocks
<1>w. Waiters'
  BY <1>4, Zenon DEF Agreed, Waiters, Still
<1>o. OwnerHas'
  BY <1>3, <1>n, Zenon DEF OwnerHas
<1>d. ASSUME Owned, c \notin has' PROVE Owned'
  <2>1. \A d \in Client : d \notin has'
    BY <1>3, <1>d, Zenon DEF Owned, Still
  <2> QED
    BY <1>3, <1>4, <1>d, <2>1, Zenon DEF Owned
<1> QED
  BY <1>3, <1>r, <1>f, <1>w, <1>o, <1>d, Zenon DEF Agreed

(* A release call that fails, whether or not it was served.                *)
LEMMA ReleaseLost ==
  ASSUME Fit, Agreed, Clients, NEW c \in Client, UNCHANGED vars,
         c \in returning, state' = state, hpc' = hpc,
         c \in calling' <=> c \in calling, c \in granted' <=> c \in granted,
         c \in waitable' <=> c \in waitable,
         c \in answered' => c \in answered,
         \A d \in Client : d # c => Still(d)
  PROVE  Agreed'
<1>2. /\ owner_cl' = owner_cl /\ waiting_cls' = waiting_cls /\ run' = run
      /\ retryer_queue' = retryer_queue /\ revoker_queue' = revoker_queue
      /\ sjobs' = sjobs
      /\ retryerAsleep' = retryerAsleep /\ revokerAsleep' = revokerAsleep
  BY Zenon DEF vars, lockVars, retryVars, revokeVars
<1>3. ErrandInv'
  BY ServerAlone, Zenon DEF Agreed
<1>4. /\ \A d : Waits(d)' <=> Waits(d)
      /\ \A a : RetryOk(a)' <=> RetryOk(a)
      /\ Resting' <=> Resting
  BY <1>2, Zenon DEF Waits, RetryOk, Resting, Active, NoneQueued
<1>r. ReturnRests'
  BY <1>2, <1>4, Zenon DEF Agreed, ReturnRests, Still
<1>f. HandlerBlocks'
  BY <1>2, Zenon DEF Agreed, HandlerBlocks
<1>w. Waiters'
  BY <1>2, <1>4, Zenon DEF Agreed, Waiters, Still
<1>o. OwnerHas'
  BY <1>2, <1>4, Zenon DEF Agreed, OwnerHas, Still
<1> QED
  BY <1>3, <1>r, <1>f, <1>w, <1>o, Zenon DEF Agreed

-----------------------------------------------------------------------------
(* A retry call is addressed to a client that waits for it.                *)
LEMMA RetryFound ==
  ASSUME Agreed, NEW a \in Agent, run[a].kind = "retry",
         run[a].pc \in {"calling", "OK", "RPCERR"}
  PROVE  LET c == Head(waiting_cls) IN
         /\ c \in Client /\ owner_cl = c /\ c \in waitable
         /\ \A b \in Agent : Active(b) => b = a
         /\ retryer_queue = 0
         /\ run[a].pc = "calling" => run[a].cl = c
  BY RetryTarget, Zenon DEF Agreed, Waiters, NoneQueued

(* A retry call that is accepted.                                          *)
LEMMA RetryServed ==
  ASSUME Agreed, NEW a \in Agent, run[a].kind = "retry", run[a].pc = "calling",
         CallMoves(a, "OK"), NEW c \in Client, run[a].cl = c,
         state[c] = "ACQUIRING", state'[c] = "FREE", hpc' = hpc,
         c \notin returning', c \notin calling', c \notin answered',
         c \in waitable', \A d \in Client : d # c => Still(d)
  PROVE  Agreed' /\ (Owned => Owned')
<1>1. /\ c = Head(waiting_cls) /\ owner_cl = c /\ c \in waitable
      /\ retryer_queue = 0 /\ \A b \in Agent : Active(b) => b = a
  BY RetryFound, Zenon
<1>3. /\ ErrandInv'
      /\ owner_cl' = owner_cl /\ waiting_cls' = waiting_cls
      /\ retryer_queue' = retryer_queue /\ run'[a].pc = "OK"
      /\ run'[a].kind = run[a].kind /\ run'[a].cl = run[a].cl
      /\ \A b \in Agent : b # a => run'[b] = run[b]
  BY RetryAnswered, Zenon DEF Agreed
<1>4. /\ \A d : Waits(d)' <=> Waits(d)
      /\ \A b \in Agent : ~RetryOk(b)
      /\ RetryOk(a)' /\ \A b \in Agent : RetryErr(b)' => RetryErr(b)
  BY <1>1, <1>3, Zenon DEF Waits, RetryOk, RetryErr, Active
<1>r. ReturnRests'
  BY <1>1, <1>3, Zenon DEF ReturnRests
<1>f. HandlerBlocks'
  <2> SUFFICES ASSUME NEW d \in Client, NEW b \in Agent, hpc[<<d, b>>] # "idle"
               PROVE  run'[b].pc = "blocked" /\ run'[b].cl = d
    BY DEF HandlerBlocks
  <2>1. run[b].pc = "blocked" /\ run[b].cl = d
    BY DEF Agreed, HandlerBlocks
  <2> QED
    BY <1>3, <2>1, Zenon
<1>w. Waiters'
  BY <1>1, <1>3, <1>4, Zenon DEF Agreed, Waiters, Still
<1>o. OwnerHas'
  BY <1>1, <1>3, Zenon DEF OwnerHas
<1>d. ASSUME Owned PROVE Owned'
  <2>1. \A d \in Client : d \in has' => owner_cl' = d
    BY <1>1, <1>3, <1>d, Zenon DEF Owned, Still
  <2>2. \A d \in Client :
          Waits(d)' => \/ state'[d] = "ACQUIRING"
                          \/ /\ d = Head(waiting_cls')
                             /\ \E b \in Agent : RetryOk(b)'
    BY <1>1, <1>3, <1>4, <1>d, Zenon DEF Owned, Still
  <2> QED
    BY <1>1, <1>3, <1>4, <1>d, <2>1, <2>2, Zenon DEF Owned
<1> QED
  BY <1>3, <1>r, <1>f, <1>w, <1>o, <1>d, Zenon DEF Agreed

(* A retry that the server no longer waits for, but its client does.       *)
LEMMA RetryLate ==
  ASSUME Fit, Agreed, UNCHANGED vars, NEW c \in Client,
         state[c] = "ACQUIRING", state'[c] = "FREE", hpc' = hpc,
         c \notin returning', c \notin calling', c \notin answered',
         c \in waitable', \A d \in Client : d # c => Still(d)
  PROVE  Agreed'
<1>1. /\ owner_cl' = owner_cl /\ waiting_cls' = waiting_cls /\ run' = run
      /\ retryer_queue' = retryer_queue /\ revoker_queue' = revoker_queue
      /\ sjobs' = sjobs
      /\ retryerAsleep' = retryerAsleep /\ revokerAsleep' = revokerAsleep
  BY Zenon DEF vars, lockVars, retryVars, revokeVars
<1>2. ErrandInv'
  BY ServerAlone, Zenon DEF Agreed
<1>3. /\ \A d : Waits(d)' <=> Waits(d)
      /\ \A a : RetryOk(a)' <=> RetryOk(a)
      /\ Resting' <=> Resting
  BY <1>1, Zenon DEF Waits, RetryOk, Resting, Active, NoneQueued
<1>r. ReturnRests'
  BY <1>1, <1>3, Zenon DEF Agreed, ReturnRests, Still
<1>f. HandlerBlocks'
  BY <1>1, Zenon DEF Agreed, HandlerBlocks
<1>w. Waiters'
  <2>1. \A d \in Client : Waits(d)' => d \in waitable'
    BY <1>3, Zenon DEF Agreed, Waiters, Still
  <2>2. ASSUME NEW a \in Agent, RetryOk(a)'
        PROVE  state'[Head(waiting_cls')] \in {"FREE", "LOCKED"}
    <3>1. RetryOk(a) /\ Head(waiting_cls') = Head(waiting_cls)
      BY <1>1, <1>3, <2>2, Zenon
    <3>2. Head(waiting_cls) \in Client
      BY <3>1, RetryOkWaits, WaiterFirst, Zenon DEF Agreed
    <3>3. state[Head(waiting_cls)] \in {"FREE", "LOCKED"}
      BY <3>1, Zenon DEF Agreed, Waiters
    <3> QED
      BY <3>1, <3>2, <3>3 DEF Still
  <2> QED
    BY <2>1, <2>2, Zenon DEF Waiters
<1>o. OwnerHas'
  <2> SUFFICES ASSUME NEW d \in Client, owner_cl = d
               PROVE  /\ d \notin calling' /\ d \notin answered'
                      /\ \/ Waits(d)'
                         \/ d \in granted'
                         \/ state'[d] \in {"FREE", "LOCKED", "RELEASING"}
    BY <1>1, Zenon DEF OwnerHas
  <2>1. /\ d \notin calling /\ d \notin answered
        /\ \/ Waits(d)
           \/ d \in granted
           \/ state[d] \in {"FREE", "LOCKED", "RELEASING"}
    BY Zenon DEF Agreed, OwnerHas
  <2> QED
    BY <1>3, <2>1 DEF Still
<1> QED
  BY <1>2, <1>r, <1>f, <1>w, <1>o, Zenon DEF Agreed

(* A retry call that is refused or fails, whether or not it was served.    *)
LEMMA RetryLost ==
  ASSUME Agreed, Clients, NEW a \in Agent, run[a].kind = "retry",
         run[a].pc \in {"calling", "OK"}, CallMoves(a, "RPCERR"),
         \A c \in Client : Still(c), state' = state, hpc' = hpc
  PROVE  Agreed'
<1>2. /\ owner_cl \in Client /\ owner_cl \in waitable
  BY RetryFound, Zenon
<1>3. /\ ErrandInv'
      /\ owner_cl' = owner_cl /\ waiting_cls' = waiting_cls
      /\ run'[a].pc = "RPCERR"
      /\ run'[a].kind = run[a].kind /\ run'[a].cl = run[a].cl
      /\ \A b \in Agent : b # a => run'[b] = run[b]
  BY RetryAnswered, Zenon DEF Agreed
<1>4. /\ \A d : Waits(d)' <=> Waits(d)
      /\ \A b \in Agent : RetryOk(b)' => RetryOk(b)
  BY <1>3, Zenon DEF Waits, RetryOk
<1>r. ReturnRests'
  BY <1>2, <1>3, Zenon DEF ReturnRests, Still, Clients
<1>f. HandlerBlocks'
  <2> SUFFICES ASSUME NEW d \in Client, NEW b \in Agent, hpc[<<d, b>>] # "idle"
               PROVE  run'[b].pc = "blocked" /\ run'[b].cl = d
    BY Zenon DEF HandlerBlocks
  <2>1. run[b].pc = "blocked" /\ run[b].cl = d
    BY Zenon DEF Agreed, HandlerBlocks
  <2> QED
    BY <1>3, <2>1, Zenon
<1>w. Waiters'
  BY <1>3, <1>4, Zenon DEF Agreed, Waiters, Still
<1>o. OwnerHas'
  BY <1>3, <1>4, Zenon DEF Agreed, OwnerHas, Still
<1> QED
  BY <1>3, <1>r, <1>f, <1>w, <1>o, Zenon DEF Agreed

(* Without failures or barging no retry is refused.                        *)
LEMMA NeverRefused ==
  ASSUME Agreed, Owned, NEW a \in Agent, run[a].kind = "retry",
         run[a].pc = "calling"
  PROVE  state[run[a].cl] = "ACQUIRING"
<1>1. /\ run[a].cl \in Client /\ Waits(run[a].cl)
      /\ \A b \in Agent : Active(b) => b = a
  BY RetryTarget, Zenon DEF Agreed
<1>2. \A b \in Agent : ~RetryOk(b)
  BY <1>1, Zenon DEF Active, RetryOk
<1> QED
  BY <1>1, <1>2, Zenon DEF Owned

-----------------------------------------------------------------------------
(* A revoke_handler that finds the lock FREE and has it released.          *)
LEMMA RevokeTaken ==
  ASSUME Agreed, NEW a \in Agent, run[a].kind = "revoke",
         run[a].pc \in {"calling", "blocked"}, CallMoves(a, "OK"),
         NEW c \in Client, run[a].cl = c,
         c \in has, state'[c] = "RELEASING", hpc'[<<c, a>>] = "idle",
         \A d \in Client, b \in Agent :
           <<d, b>> # <<c, a>> => hpc'[<<d, b>>] = hpc[<<d, b>>],
         c \in calling' => c \in calling, c \in answered' => c \in answered,
         \A d \in Client : d # c => Still(d)
  PROVE  Agreed' /\ (Owned => Owned')
<1>1. /\ ErrandInv' /\ Resting'
      /\ owner_cl = c /\ ~Waits(c) /\ ~Resting
      /\ owner_cl' = owner_cl /\ waiting_cls' = waiting_cls
      /\ retryer_queue' = retryer_queue
      /\ \A b \in Agent : b # a => ~Active(b)
      /\ run'[a].pc = "OK" /\ run'[a].kind = run[a].kind
      /\ \A b \in Agent : b # a => run'[b] = run[b]
  BY RevokeAnswered, Zenon DEF Agreed
<1>4. /\ \A d : Waits(d)' <=> Waits(d)
      /\ \A b \in Agent : ~RetryOk(b) /\ ~RetryOk(b)'
      /\ \A b \in Agent : ~RetryErr(b)'
  BY <1>1, Zenon DEF Waits, RetryOk, RetryErr, Active
<1>f. HandlerBlocks'
  <2> SUFFICES ASSUME NEW d \in Client, NEW b \in Agent, <<d, b>> # <<c, a>>
               PROVE  hpc'[<<d, b>>] = "idle"
    BY Zenon DEF HandlerBlocks
  <2>1. ~(run[b].pc = "blocked" /\ run[b].cl = d)
    BY <1>1, Zenon DEF Active
  <2>2. hpc[<<d, b>>] = "idle"
    BY <2>1, Zenon DEF Agreed, HandlerBlocks
  <2> QED
    BY <2>2, Zenon
<1>r. ReturnRests'
  BY <1>1, Zenon DEF ReturnRests
<1>w. Waiters'
  BY <1>1, <1>4, Zenon DEF Agreed, Waiters, Still
<1>o. OwnerHas'
  BY <1>1, Zenon DEF Agreed, OwnerHas
<1>d. ASSUME Owned PROVE Owned'
  <2>1. \A d \in Client : d \in has' => owner_cl' = d
    BY <1>1, <1>d, Zenon DEF Owned, Still
  <2>2. \A d \in Client : Waits(d)' => state'[d] = "ACQUIRING"
    BY <1>1, <1>4, <1>d DEF Owned, Still
  <2> QED
    BY <1>1, <1>4, <1>d, <2>1, <2>2, Zenon DEF Owned
<1> QED
  BY <1>1, <1>r, <1>f, <1>w, <1>o, <1>d, Zenon DEF Agreed

(* A revoke_handler that finds the lock in use and waits.                  *)
LEMMA RevokeBlocked ==
  ASSUME Agreed, NEW a \in Agent, run[a].kind = "revoke",
         run[a].pc \in {"calling", "blocked"}, CallMoves(a, "blocked"),
         NEW c \in Client, run[a].cl = c, state' = state,
         \A d \in Client, b \in Agent :
           <<d, b>> # <<c, a>> => hpc'[<<d, b>>] = hpc[<<d, b>>],
         \A d \in Client : Still(d)
  PROVE  Agreed' /\ (Owned => Owned')
<1>1. /\ ErrandInv'
      /\ owner_cl = c /\ ~Resting
      /\ owner_cl' = owner_cl /\ waiting_cls' = waiting_cls
      /\ retryer_queue' = retryer_queue
      /\ run'[a].pc = "blocked" /\ run'[a].kind = run[a].kind
      /\ run'[a].cl = run[a].cl
      /\ \A b \in Agent : b # a => run'[b] = run[b]
  BY RevokeAnswered, Zenon DEF Agreed
<1>2. c \notin returning
  BY <1>1, Zenon DEF Agreed, ReturnRests
<1>4. /\ \A d : Waits(d)' <=> Waits(d)
      /\ \A b \in Agent : RetryOk(b)' <=> RetryOk(b)
      /\ \A b \in Agent : RetryErr(b)' => RetryErr(b)
  BY <1>1, Zenon DEF Waits, RetryOk, RetryErr
<1>f. HandlerBlocks'
  <2> SUFFICES ASSUME NEW d \in Client, NEW b \in Agent,
                      hpc'[<<d, b>>] # "idle"
               PROVE  run'[b].pc = "blocked" /\ run'[b].cl = d
    BY Zenon DEF HandlerBlocks
  <2>1. CASE b = a /\ d = c
    BY <1>1, <2>1, Zenon
  <2>2. CASE ~(b = a /\ d = c)
    <3>1. <<d, b>> # <<c, a>>
      BY <2>2, Zenon
    <3>2. run[b].pc = "blocked" /\ run[b].cl = d
      BY <3>1 DEF Agreed, HandlerBlocks
    <3> QED
      BY <1>1, <2>2, <3>2, Zenon
  <2> QED
    BY <2>1, <2>2, Zenon
<1>r. ReturnRests'
  BY <1>1, <1>2, Zenon DEF ReturnRests, Still
<1>w. Waiters'
  BY <1>1, <1>4, Zenon DEF Agreed, Waiters, Still
<1>o. OwnerHas'
  BY <1>1, <1>4, Zenon DEF Agreed, OwnerHas, Still
<1>d. ASSUME Owned PROVE Owned'
  <2>1. \A d \in Client : d \in has' <=> d \in has
    BY Zenon DEF Still
  <2> QED
    BY <1>1, <1>4, <1>d, <2>1, Zenon DEF Owned
<1> QED
  BY <1>1, <1>r, <1>f, <1>w, <1>o, <1>d, Zenon DEF Agreed
=============================================================================
