-------------------------- MODULE LockServiceProofs --------------------------
(***************************************************************************)
(* Proofs about the lock service, for any number of clients, threads and   *)
(* pool threads.  LockClientCacheProofs says what each step of a client    *)
(* does as far as the server can tell, LockServerCacheProofs that the      *)
(* server and its clients then still agree; here the two are put together. *)
(***************************************************************************)
EXTENDS LockService, TLAPS

(* The kinds of step of the service, by who takes part.                    *)
ClientOwn ==
  \/ \E t \in Thread : Call(t) \/ ThreadStep(t)
  \/ \E c \in Client : Releaser(c)
  \/ \E w \in Worker : WorkerStep(w)
  \/ C!SpuriousWakeup /\ ServerIdle

ServerOwn ==
  \/ Retryer
  \/ Revoker
  \/ S!SpuriousWakeup /\ ClientsIdle
  \/ \E a \in Agent : AgentStep(a)
  \/ /\ UNCHANGED <<clientVars, serverVars, barged, failed, stale>>
     /\ abandoned' \subseteq abandoned

Served ==
  \/ \E t \in Thread : ServeAcquire(t)
  \/ \E w \in Worker : ServeRelease(w)
  \/ \E a \in Agent : \/ ServeRetry(a) \/ ServeRevoke(a)
                      \/ \E c \in Client : ResumeRevoke(c, a)

(* An abandoned request that takes effect.                                 *)
Late ==
  \E m \in abandoned :
    /\ \/ m.rpc = "acquire" /\ LateAcquire(m.cl)
       \/ /\ m.rpc = "release"
          /\ S!release(m.cl) /\ stale' = (stale \/ ~Returning(m.cl))
          /\ UNCHANGED <<clientVars, barged>>
       \/ /\ m.rpc = "retry"
          /\ C!retry_handler(m.cl) /\ stale' = (stale \/ ~C!RetryDue(m.cl))
          /\ UNCHANGED <<serverVars, barged>>
       \/ m.rpc = "revoke" /\ LateRevoke(m.cl, m.by)
    /\ UNCHANGED failed
    /\ abandoned' \subseteq abandoned

(* Every step of the service is of one of these kinds, or a failing call.  *)
(* A late request that is refused changes nothing but abandoned.           *)
LEMMA StepCases ==
  ASSUME [Next]_vars
  PROVE  \/ ClientOwn \/ ServerOwn \/ Served \/ Late
         \/ \E rpc \in MayFail : CallFails(rpc)
<1>1. CASE UNCHANGED vars
  BY <1>1, Zenon DEF vars, failVars, ServerOwn
<1>2. ASSUME NEW m \in abandoned, ServeLate(m) PROVE Late \/ ServerOwn
  <2>5. abandoned' \subseteq abandoned
    BY <1>2, Zenon DEF ServeLate
  <2>1. CASE m.rpc = "acquire" /\ LateAcquire(m.cl)
    BY <1>2, <2>1, <2>5, Zenon DEF ServeLate, Late
  <2>2. CASE m.rpc = "release" /\ LateRelease(m.cl)
    BY <1>2, <2>2, <2>5, Zenon DEF ServeLate, LateRelease, Late, ServerOwn
  <2>3. CASE m.rpc = "retry" /\ LateRetry(m.cl)
    BY <1>2, <2>3, <2>5, Zenon DEF ServeLate, LateRetry, Late, ServerOwn
  <2>4. CASE m.rpc = "revoke" /\ LateRevoke(m.cl, m.by)
    BY <1>2, <2>4, <2>5, Zenon DEF ServeLate, Late
  <2> QED
    BY <1>2, <2>1, <2>2, <2>3, <2>4, Zenon DEF ServeLate
<1> QED
  BY <1>1, <1>2, Zenon DEF Next, Step, SpuriousWakeup, ClientOwn, ServerOwn, Served

(* Who takes no part in a step is left alone by it.                        *)
LEMMA OwnFrame ==
  /\ ClientOwn => UNCHANGED <<serverVars, barged, failed, stale>>
  /\ ServerOwn => UNCHANGED <<clientVars, barged, failed, stale>>
  /\ Served \/ Late => UNCHANGED failed
  /\ Served => UNCHANGED stale
  /\ ClientOwn \/ ServerOwn \/ Served \/ Late => abandoned' \subseteq abandoned
<1>1. ClientOwn => UNCHANGED <<serverVars, barged, failVars>>
  BY Zenon DEF ClientOwn, Call, ThreadStep, Releaser, WorkerStep, ServerIdle
<1>2. ServerOwn => /\ UNCHANGED <<clientVars, barged, failed, stale>>
                   /\ abandoned' \subseteq abandoned
  BY Zenon DEF ServerOwn, Retryer, Revoker, AgentStep, ClientsIdle, failVars
<1>3. Served => UNCHANGED failVars
  BY Zenon DEF Served, ServeAcquire, ServeRelease, ServeRetry, ServeRevoke,
               ResumeRevoke
<1>4. Late => UNCHANGED failed /\ abandoned' \subseteq abandoned
  BY Zenon DEF Late
<1> QED
  BY <1>1, <1>2, <1>3, <1>4, Zenon DEF failVars

(* What has failed, and that acquire has barged in or that a late request  *)
(* was stale, is never forgotten.                                          *)
LEMMA HistoryGrows ==
  ASSUME [Next]_vars
  PROVE  /\ \/ failed' = failed
            \/ \E rpc \in MayFail : failed' = failed \cup {rpc}
         /\ barged => barged'
         /\ stale => stale'
<1>1. ASSUME NEW t \in Thread, ServeAcquire(t) PROVE barged => barged'
  <2>1. barged' = (barged \/ waiting_cls # <<>>) \/ barged' = barged
    BY <1>1, Zenon DEF ServeAcquire
  <2> QED
    BY <2>1, Zenon
<1>2. CASE Served
  <2>1. failed' = failed /\ stale' = stale
    BY <1>2, OwnFrame, Zenon
  <2>2. barged' = barged \/ \E t \in Thread : ServeAcquire(t)
    BY <1>2, Zenon DEF Served, ServeRelease, ServeRetry, ServeRevoke,
                       ResumeRevoke
  <2> QED
    BY <1>1, <2>1, <2>2
<1>3. ASSUME NEW rpc \in MayFail, CallFails(rpc)
      PROVE  failed' = failed \cup {rpc} /\ barged' = barged /\ stale' = stale
  BY <1>3, Zenon DEF CallFails
<1>4. CASE ClientOwn \/ ServerOwn
  <2>1. failed' = failed /\ barged' = barged /\ stale' = stale
    BY <1>4, OwnFrame, Zenon
  <2> QED
    BY <2>1, Zenon
<1>5. CASE Late
  <2>1. failed' = failed
    BY <1>5, OwnFrame, Zenon
  <2>2. barged' = barged \/ barged' = (barged \/ waiting_cls # <<>>)
    BY <1>5, Zenon DEF Late, LateAcquire, LateRevoke
  <2>3. PICK m : \/ stale' = stale
                 \/ stale' = (stale \/ ~Returning(m.cl))
                 \/ stale' = (stale \/ ~C!RetryDue(m.cl))
    BY <1>5, Zenon DEF Late, LateAcquire, LateRevoke
  <2>4. barged => barged'
    BY <2>2, Zenon
  <2>5. stale => stale'
    BY <2>3, Zenon
  <2> QED
    BY <2>1, <2>4, <2>5, Zenon
<1> QED
  BY <1>2, <1>3, <1>4, <1>5, StepCases, Zenon

(* The client that a thread, a worker or a revoke_handler belongs to.      *)
LEMMA HomeOf ==
  /\ \A t \in Thread : homeOf[t] = clientOf[t] /\ clientOf[t] \in Client
  /\ \A w \in Worker : homeOf[w] = clientOf[w] /\ clientOf[w] \in Client
  /\ \A c \in Client, a \in Agent : <<c, a>> \in Handler /\ homeOf[<<c, a>>] = c
  /\ homeOf \in [Thread \cup Worker \cup Handler -> Client]
<1>1. \A t \in Thread \cup Worker : t \notin Handler
  BY ServiceAssumption, Zenon
<1>2. \A h \in Handler : h[1] \in Client
  BY Zenon DEF Handler
<1>3. \A t \in Thread \cup Worker :
        homeOf[t] = clientOf[t] /\ clientOf[t] \in Client
  BY <1>1, ServiceAssumption, Zenon DEF homeOf
<1>4. \A h \in Handler : homeOf[h] = h[1]
  BY Zenon DEF homeOf
<1>5. \A c \in Client, a \in Agent : <<c, a>> \in Handler /\ <<c, a>>[1] = c
  BY Zenon DEF Handler
<1>6. homeOf \in [Thread \cup Worker \cup Handler -> Client]
  BY <1>1, <1>2, ServiceAssumption, Zenon DEF homeOf
<1> QED
  BY <1>3, <1>4, <1>5, <1>6, Zenon

(* Seen from the clients, a step in which no call fails is one of theirs,  *)
(* or changes nothing, provided the server calls clients only, and retries *)
(* no client whose acquire it has not answered, late or in time.           *)
LEMMA ClientsStep ==
  ASSUME [Next]_vars, failed' = failed, ~stale',
         \A m \in abandoned : m.rpc \in {"release", "retry"} /\ m.cl \in Client,
         \A a \in Agent : run[a].pc = "calling" => run[a].cl \in Client,
         \A a \in Agent : run[a].pc = "calling" /\ run[a].kind = "retry"
                            => C!RetryDue(run[a].cl)
  PROVE  [C!Next]_(C!vars)
<1>1. CASE UNCHANGED clientVars
  BY <1>1, Zenon DEF clientVars, C!vars, C!lockVars, C!queueVars
<1>2. CASE ClientOwn
  BY <1>2, Zenon DEF ClientOwn, Call, ThreadStep, Releaser, WorkerStep,
              C!Next, C!ClientStep
<1>3. CASE ServerOwn
  BY <1>1, <1>3, OwnFrame, Zenon
<1>4. ASSUME NEW t \in Thread, ServeAcquire(t) PROVE C!Next
  BY <1>4, Zenon DEF ServeAcquire, C!Next, C!ServerStep
<1>5. ASSUME NEW w \in Worker, ServeRelease(w) PROVE C!Next
  BY <1>5, Zenon DEF ServeRelease, C!Next, C!ServerStep
<1>6. ASSUME NEW a \in Agent, ServeRetry(a) PROVE [C!Next]_(C!vars)
  <2>1. CASE C!retry_handler(run[a].cl)
    BY <1>6, <2>1, Zenon DEF ServeRetry, C!Next, C!ServerStep
  <2> QED
    BY <1>1, <1>6, <2>1, Zenon DEF ServeRetry
<1>7. ASSUME NEW a \in Agent, ServeRevoke(a) PROVE C!Next
  <2>1. <<run[a].cl, a>> \in Handler
    BY <1>7, Zenon DEF ServeRevoke, Handler
  <2> QED
    BY <1>7, <2>1, Zenon DEF ServeRevoke, C!Next, C!ServerStep
<1>8. ASSUME NEW c \in Client, NEW a \in Agent, ResumeRevoke(c, a) PROVE C!Next
  <2>1. <<c, a>> \in Handler
    BY Zenon DEF Handler
  <2> QED
    BY <1>8, <2>1, Zenon DEF ResumeRevoke, C!Next, C!ClientStep
<1>9. CASE Served
  BY <1>4, <1>5, <1>6, <1>7, <1>8, <1>9, Zenon DEF Served
<1>10. ASSUME NEW rpc \in MayFail, CallFails(rpc) PROVE FALSE
  BY <1>10, Zenon DEF CallFails
<1>11. CASE Late
  <2>1. PICK m \in abandoned :
          \/ UNCHANGED clientVars
          \/ C!retry_handler(m.cl) /\ stale' = (stale \/ ~C!RetryDue(m.cl))
    BY <1>11 DEF Late
  <2>2. CASE C!retry_handler(m.cl) /\ stale' = (stale \/ ~C!RetryDue(m.cl))
    BY <2>2, Zenon DEF C!Next, C!ServerStep
  <2> QED
    BY <1>1, <2>1, <2>2, Zenon
<1> QED
  BY <1>2, <1>3, <1>9, <1>10, <1>11, StepCases, Zenon

-----------------------------------------------------------------------------
(* The clients' part.                                                      *)
CP == INSTANCE LockClientCacheProofs WITH clientOf <- homeOf

(* The clients, as the server sees them.                                   *)
returning == {c \in Client : CP!Returning(c)}
has == {c \in Client : CP!Has(c)}
granted == {c \in Client : CP!Granted(c)}
calling == {c \in Client : ~CP!NoCalls(c)}
answered == {c \in Client : ~CP!NoOk(c)}
waitable == {c \in Client : CP!Waitable(c)}

(* The service meets what its clients assume of their constants.           *)
LEMMA ClientsFit == CP!ClientAssumption
  BY HomeOf, ServiceAssumption, Zenon DEF CP!ClientAssumption

(* The client's invariant and steps, with the names LockService gives them.*)
LEMMA SameInv == CP!ClientInv <=> C!ClientInv
  BY Zenon DEF CP!ClientInv, CP!TypeOK, CP!OneRelease, CP!OneAcquire,
         CP!HolderOwns, CP!LockState, CP!ThreadPC, CP!WorkerPC,
         CP!HandlerPC, CP!Undecided, CP!Sending,
         C!ClientInv, C!TypeOK, C!OneRelease, C!OneAcquire,
         C!HolderOwns, C!LockState, C!ThreadPC, C!WorkerPC,
         C!HandlerPC, C!Undecided, C!Sending

(* A step the client's specification allows preserves its invariant.       *)
LEMMA ClientKept ==
  ASSUME CP!ClientInv, [C!Next]_(C!vars)
  PROVE  CP!ClientInv'
<1>1. [C!Next]_(C!vars) <=> [CP!Next]_(CP!vars)
  BY Zenon DEF C!acquire, C!acquire_wakeup, C!acquire_return, C!release,
         C!TakeOrWait, C!GiveTo, C!Signalled, C!QueueWaiters,
         C!RevokeWaiters, C!revoke_wakeup, C!revoke_handler,
         C!RevokeOrWait, C!Revocable, C!releaser, C!releaser_rpc,
         C!releaser_timeout, C!SendRelease, C!release_return,
         C!SpuriousWakeup, C!AcquireReply, C!ReleaseReply,
         C!retry_handler, C!RetryRefused, C!RetryDue, C!Undecided,
         C!lockVars, C!queueVars, C!ClientStep, C!ServerStep, C!Next,
         C!vars, CP!acquire, CP!acquire_wakeup, CP!acquire_return,
         CP!release, CP!TakeOrWait, CP!GiveTo, CP!Signalled,
         CP!QueueWaiters, CP!RevokeWaiters, CP!revoke_wakeup,
         CP!revoke_handler, CP!RevokeOrWait, CP!Revocable, CP!releaser,
         CP!releaser_rpc, CP!releaser_timeout, CP!SendRelease,
         CP!release_return, CP!SpuriousWakeup, CP!AcquireReply,
         CP!ReleaseReply, CP!retry_handler, CP!RetryRefused, CP!RetryDue,
         CP!Undecided, CP!lockVars, CP!queueVars, CP!ClientStep,
         CP!ServerStep, CP!Next, CP!vars
<1> QED
  BY <1>1, ClientsFit, CP!NextInv, Zenon

(* The steps a client takes by itself.                                     *)
LEMMA OwnQuiet ==
  ASSUME CP!ClientSound, ClientOwn
  PROVE  CP!AllQuiet
<1>1. ASSUME NEW t \in Thread, Call(t) \/ ThreadStep(t)
      PROVE  \/ CP!acquire(t) \/ CP!acquire_wakeup(t)
             \/ CP!acquire_return(t) \/ CP!release(t)
  BY <1>1, Zenon DEF Call, ThreadStep,
         C!acquire, C!acquire_wakeup, C!acquire_return, C!release,
         C!TakeOrWait, C!GiveTo, C!Signalled, C!QueueWaiters,
         C!RevokeWaiters, C!lockVars, C!queueVars,
         CP!acquire, CP!acquire_wakeup, CP!acquire_return, CP!release,
         CP!TakeOrWait, CP!GiveTo, CP!Signalled, CP!QueueWaiters,
         CP!RevokeWaiters, CP!lockVars, CP!queueVars
<1>2. ASSUME NEW c \in Client, Releaser(c) PROVE CP!releaser(c)
  BY <1>2, Zenon DEF Releaser, C!releaser, C!lockVars, C!queueVars,
              CP!releaser, CP!lockVars, CP!queueVars
<1>3. ASSUME NEW w \in Worker, WorkerStep(w)
      PROVE  CP!releaser_rpc(w) \/ CP!releaser_timeout(w) \/ CP!release_return(w)
  BY <1>3, Zenon DEF WorkerStep, C!releaser_rpc, C!releaser_timeout, C!SendRelease,
         C!release_return, C!Signalled, C!QueueWaiters, C!RevokeWaiters,
         C!lockVars, C!queueVars, CP!releaser_rpc, CP!releaser_timeout,
         CP!SendRelease, CP!release_return, CP!Signalled, CP!QueueWaiters,
         CP!RevokeWaiters, CP!lockVars, CP!queueVars
<1>4. C!SpuriousWakeup => CP!SpuriousWakeup
  BY Zenon DEF C!SpuriousWakeup, C!lockVars, C!queueVars,
         CP!SpuriousWakeup, CP!lockVars, CP!queueVars
<1>5. CP!OwnStep
  BY <1>1, <1>2, <1>3, <1>4, Zenon DEF ClientOwn, CP!OwnStep
<1> QED
  BY <1>5, ClientsFit, CP!OwnQuiet, Zenon

(* What a client does when its acquire or its release call is served.      *)
LEMMA AcquireSeen ==
  ASSUME CP!ClientSound, NEW t \in Thread, NEW r \in {"granted", "retry"},
         C!AcquireReply(t, r)
  PROVE  LET c == clientOf[t] IN
         /\ c \in Client /\ state[c] = "ACQUIRING"
         /\ state' = state /\ hpc' = hpc
         /\ c \in calling /\ c \notin calling'
         /\ c \notin returning' /\ c \notin answered'
         /\ r = "granted" => c \in granted'
         /\ r = "retry" => c \in waitable' /\ (c \in has' => c \in has)
         /\ \A d \in Client : d # c => CP!Same(d)
         /\ CP!TimedAlone' /\ CP!NoneFailed'
<1>1. CP!AcquireReply(t, r)
  BY Zenon DEF C!AcquireReply, C!lockVars, C!queueVars,
         CP!AcquireReply, CP!lockVars, CP!queueVars
<1> QED
  BY <1>1, HomeOf, ClientsFit, CP!ReplyEffect
     DEF calling, returning, answered, granted, waitable, has

(* A release call, answered ok by release or failing: only the client that *)
(* gives the lock back is concerned.                                       *)
LEMMA ReleaseSeen ==
  ASSUME CP!ClientSound, NEW w \in Worker, NEW r \in {"ok", "err"},
         wpc[w] \in {"calling", "ok"}, wpc' = [wpc EXCEPT ![w] = r],
         UNCHANGED <<C!lockVars, C!queueVars, pc, hpc>>
  PROVE  LET c == clientOf[w] IN
         /\ c \in Client /\ c \in returning /\ state' = state /\ hpc' = hpc
         /\ c \in calling' <=> c \in calling
         /\ c \in granted' <=> c \in granted
         /\ c \in waitable' <=> c \in waitable
         /\ r = "ok" => c \notin has'
         /\ r = "err" => (c \in answered' => c \in answered)
         /\ \A d \in Client : d # c => CP!Same(d)
         /\ CP!ClientSound'
<1>1. UNCHANGED <<CP!lockVars, CP!queueVars, pc, hpc>>
  BY Zenon DEF C!lockVars, C!queueVars, CP!lockVars, CP!queueVars
<1> QED
  BY <1>1, HomeOf, ClientsFit, CP!ReleaseEffect, Zenon
     DEF calling, returning, answered, granted, waitable, has

(* A release that the server refuses.                                      *)
LEMMA RefusalQuiet ==
  ASSUME CP!ClientSound, NEW w \in Worker, C!ReleaseReply(w, "err")
  PROVE  CP!AllQuiet
<1>1. CP!ReleaseReply(w, "err")
  BY Zenon DEF C!ReleaseReply, C!lockVars, C!queueVars,
         CP!ReleaseReply, CP!lockVars, CP!queueVars
<1> QED
  BY <1>1, ClientsFit, CP!RefusedQuiet, Zenon

(* What a client does when it is retried or revoked.                       *)
LEMMA RetrySeen ==
  ASSUME CP!ClientSound, NEW c \in Client, C!retry_handler(c), c \in waitable
  PROVE  /\ state[c] = "ACQUIRING" /\ state'[c] = "FREE" /\ hpc' = hpc
         /\ c \notin returning' /\ c \notin calling' /\ c \notin answered'
         /\ c \in waitable'
         /\ \A d \in Client : d # c => state'[d] = state[d] /\ CP!Same(d)
         /\ CP!TimedAlone' /\ CP!NoneFailed'
<1>1. CP!retry_handler(c) /\ CP!Waitable(c)
  BY Zenon DEF waitable, C!retry_handler, C!RetryRefused, C!QueueWaiters,
         C!Signalled, C!queueVars, CP!retry_handler, CP!RetryRefused,
         CP!QueueWaiters, CP!Signalled, CP!queueVars
<1> QED
  BY <1>1, ClientsFit, CP!RetryEffect, Zenon DEF returning, calling, answered, waitable

(* revoke_handler takes a lock that is cached and idle, and otherwise      *)
(* waits without touching anything.                                        *)
LEMMA RevokeSeen ==
  ASSUME CP!ClientSound, NEW c \in Client, NEW a \in Agent,
         C!RevokeOrWait(<<c, a>>), c \notin returning
  PROVE  /\ \A d \in Client, b \in Agent :
              <<d, b>> # <<c, a>> => hpc'[<<d, b>>] = hpc[<<d, b>>]
         /\ \/ /\ hpc'[<<c, a>>] = "idle"
               /\ c \in has /\ state'[c] = "RELEASING"
               /\ c \in calling' => c \in calling
               /\ c \in answered' => c \in answered
               /\ \A d \in Client : d # c => state'[d] = state[d] /\ CP!Same(d)
            \/ /\ hpc'[<<c, a>>] = "waiting"
               /\ state' = state /\ \A d \in Client : CP!Same(d)
         /\ CP!TimedAlone' /\ CP!NoneFailed'
<1> DEFINE h == <<c, a>>
<1>1. /\ h \in Handler /\ homeOf[h] = c
      /\ \A d \in Client, b \in Agent : <<d, b>> \in Handler
  BY HomeOf, Zenon
<1>2. CP!RevokeOrWait(h) /\ ~CP!Returning(homeOf[h])
  BY <1>1, Zenon DEF returning, C!RevokeOrWait, C!Revocable, CP!RevokeOrWait,
              CP!Revocable
<1> HIDE DEF h
<1>3. CASE CP!Revocable(homeOf[h])
  <2>1. /\ CP!Has(homeOf[h]) /\ state'[homeOf[h]] = "RELEASING"
        /\ hpc'[h] = "idle"
        /\ \A g \in Handler : g # h => hpc'[g] = hpc[g]
        /\ \A d \in Client : d # homeOf[h] => state'[d] = state[d] /\ CP!Same(d)
        /\ CP!NoCalls(homeOf[h])' <=> CP!NoCalls(homeOf[h])
        /\ CP!NoOk(homeOf[h])' <=> CP!NoOk(homeOf[h])
        /\ CP!TimedAlone' /\ CP!NoneFailed'
    BY <1>1, <1>2, <1>3, ClientsFit, CP!RevokeTakes, Zenon
  <2> QED
    BY <1>1, <2>1, Zenon DEF h, has, calling, answered
<1>4. CASE ~CP!Revocable(homeOf[h])
  <2>1. /\ state' = state /\ hpc'[h] = "waiting"
        /\ \A g \in Handler : g # h => hpc'[g] = hpc[g]
        /\ \A d \in Client : CP!Same(d)
        /\ CP!TimedAlone' /\ CP!NoneFailed'
    BY <1>1, <1>2, <1>4, ClientsFit, CP!RevokeWaits, Zenon
  <2> QED
    BY <1>1, <2>1, Zenon DEF h
<1> QED
  BY <1>3, <1>4, Zenon

(* A step that leaves the clients alone changes nothing the server sees.   *)
LEMMA StandingStill ==
  ASSUME CP!ClientSound, UNCHANGED clientVars
  PROVE  /\ \A c \in Client : CP!Same(c)
         /\ state' = state /\ hpc' = hpc /\ CP!ClientSound'
<1>1. UNCHANGED CP!vars
  BY Zenon DEF clientVars, CP!vars, CP!lockVars, CP!queueVars
<1> QED
  BY <1>1, ClientsFit, CP!UnchangedSame, Zenon

(* No client has the lock when the service starts.                         *)
LEMMA ClientsInit ==
  ASSUME Init
  PROVE  CP!ClientSound /\ \A c \in Client : ~CP!Has(c)
<1>1. CP!ClientInv
  <2>1. CP!Init
    BY Zenon DEF Init, C!Init, CP!Init
  <2> QED
    BY <2>1, ClientsFit, CP!InitInv, Zenon
<1>2. /\ \A t \in Thread : pc[t] = "idle"
      /\ \A w \in Worker : wpc[w] = "idle"
      /\ \A c \in Client : /\ state[c] = "ABSENT"
                           /\ releaser_queue[c] = 0 /\ jobs[c] = 0
  BY Zenon DEF Init, C!Init
<1> QED
  BY <1>1, <1>2 DEF CP!ClientSound, CP!TimedAlone, CP!NoneFailed, CP!Has,
                    CP!Granted

-----------------------------------------------------------------------------
(* The server's part.                                                      *)
SP == INSTANCE LockServerCacheProofs

(* What holds as long as only release and retry calls have failed and no   *)
(* late one was stale, and what holds besides as long as nothing has       *)
(* failed and no acquire was granted over the waiters' heads.              *)
Sound == CP!ClientSound /\ SP!Agreed
Pending == \A m \in abandoned : m.rpc \in failed /\ m.cl \in Client
ServiceInv == Contained => Sound /\ Pending
OwnInv == Undisturbed => SP!Owned

(* Nothing is late before a call has failed.                               *)
LateInv == failed = {} => abandoned = {} /\ ~stale

(* The service meets what the server assumes of its constants, and the     *)
(* clients what it relies on.                                              *)
LEMMA SoundParts ==
  ASSUME Sound
  PROVE  SP!Fit /\ SP!Agreed /\ SP!Clients /\ CP!ClientSound
<1>1. SP!Fit
  BY ServiceAssumption DEF SP!Fit
<1>2. ASSUME NEW c \in Client, CP!Waitable(c)
      PROVE  /\ state[c] \in {"ACQUIRING", "FREE", "LOCKED"}
             /\ CP!NoCalls(c) /\ CP!NoOk(c) /\ ~CP!Returning(c)
  BY <1>2, ClientsFit, CP!WaitableStill DEF CP!Waitable, Sound
<1>3. ASSUME NEW c \in Client, CP!Granted(c) PROVE state[c] = "ACQUIRING"
  BY <1>3, ClientsFit, CP!GrantedAcquires DEF Sound
<1> QED
  BY <1>1, <1>2, <1>3
     DEF Sound, SP!Clients, returning, granted, calling, answered, waitable

(* A client that does nothing, as the server sees it.                      *)
LEMMA SeenStill ==
  ASSUME NEW c \in Client, CP!Same(c), state'[c] = state[c]
  PROVE  SP!Still(c)
  BY Zenon DEF CP!Same, SP!Still, returning, has, granted, calling, answered, waitable

(* Steps of the clients alone.                                             *)
LEMMA ClientsAlone ==
  ASSUME Sound, CP!ClientInv', CP!AllQuiet, UNCHANGED serverVars
  PROVE  Sound' /\ (SP!Owned => SP!Owned')
<1>1. UNCHANGED SP!vars
  BY Zenon DEF serverVars, SP!vars, SP!lockVars, SP!retryVars, SP!revokeVars
<1>2. ASSUME NEW c \in Client PROVE SP!Calm(c)
  BY Zenon DEF CP!AllQuiet, CP!Quiet, CP!Waitable, SP!Calm, returning, has,
               granted, calling, answered, waitable
<1>3. \A c \in Client, a \in Agent :
        hpc'[<<c, a>>] # "idle" => hpc[<<c, a>>] # "idle"
  BY HomeOf DEF CP!AllQuiet
<1>4. SP!Agreed' /\ (SP!Owned => SP!Owned')
  BY <1>1, <1>2, <1>3, SoundParts, SP!QuietKept
<1> QED
  BY <1>4 DEF Sound, CP!AllQuiet, CP!ClientSound

(* Steps of the server alone.                                              *)
LEMMA ServerAlone ==
  ASSUME Sound, ServerOwn
  PROVE  Sound' /\ (SP!Owned => SP!Owned')
<1>1. \/ SP!retryer \/ SP!revoker \/ SP!SpuriousWakeup \/ UNCHANGED SP!vars
      \/ \E a \in Agent : \/ SP!TakeJob(a) \/ SP!BindOwner(a)
                          \/ SP!retryer_rpc(a) \/ SP!revoker_rpc(a)
  BY Zenon DEF ServerOwn, Retryer, Revoker, AgentStep, serverVars, SP!vars,
         S!retryer, S!revoker, S!SpuriousWakeup, S!TakeJob, S!BindOwner,
         S!retryer_rpc, S!revoker_rpc, S!AddJobs, S!NextOwner, S!AskRevoke,
         S!Idle, S!lockVars, S!retryVars, S!revokeVars,
         SP!retryer, SP!revoker, SP!SpuriousWakeup, SP!TakeJob, SP!BindOwner,
         SP!retryer_rpc, SP!revoker_rpc, SP!AddJobs, SP!NextOwner,
         SP!AskRevoke, SP!Idle, SP!lockVars, SP!retryVars, SP!revokeVars
<1>2. SP!ErrandInv' /\ SP!Alone
  BY <1>1, SoundParts, SP!ServerAlone, Zenon DEF SP!Agreed
<1>3. /\ \A c \in Client : SP!Still(c)
      /\ state' = state /\ hpc' = hpc /\ CP!ClientSound'
  BY OwnFrame, StandingStill, SoundParts, SeenStill
<1>4. SP!Agreed' /\ (SP!Owned => SP!Owned')
  BY <1>2, <1>3, SoundParts, SP!ServerKept
<1> QED
  BY <1>3, <1>4 DEF Sound

-----------------------------------------------------------------------------
(* Serving an acquire call.                                                *)
LEMMA AcquireKept ==
  ASSUME Sound, NEW t \in Thread, ServeAcquire(t), CP!ClientInv'
  PROVE  Sound' /\ (SP!Owned /\ ~barged' => SP!Owned')
<1> DEFINE c == clientOf[t]
<1>1. PICK r \in {"granted", "retry"} :
        /\ C!AcquireReply(t, r)
        /\ r = "granted" => /\ SP!acquire_ok(c)
                            /\ barged' = (barged \/ waiting_cls # <<>>)
        /\ r = "retry" => SP!acquire_retry(c)
  BY Zenon DEF ServeAcquire,
         S!acquire_ok, S!acquire_retry, S!LockFree, S!FirstWaiter, S!AskRevoke,
         S!retryVars, S!revokeVars, SP!acquire_ok, SP!acquire_retry,
         SP!LockFree, SP!FirstWaiter, SP!AskRevoke, SP!retryVars, SP!revokeVars
<1>2. /\ c \in Client /\ state[c] = "ACQUIRING"
      /\ state' = state /\ hpc' = hpc
      /\ c \in calling /\ c \notin calling'
      /\ c \notin returning' /\ c \notin answered'
      /\ r = "granted" => c \in granted'
      /\ r = "retry" => c \in waitable' /\ (c \in has' => c \in has)
      /\ \A d \in Client : d # c => CP!Same(d)
      /\ CP!TimedAlone' /\ CP!NoneFailed'
  BY <1>1, AcquireSeen, SoundParts
<1> HIDE DEF c
<1>3. \A d \in Client : d # c => SP!Still(d)
  BY <1>2, SeenStill
<1>4. /\ SP!Agreed'
      /\ SP!Owned /\ (r = "granted" => waiting_cls = <<>>) => SP!Owned'
  BY <1>1, <1>2, <1>3, SoundParts, SP!GrantKept, SP!DenyKept
<1>5. r = "granted" /\ ~barged' => waiting_cls = <<>>
  BY <1>1, Zenon
<1> QED
  BY <1>2, <1>4, <1>5 DEF Sound, CP!ClientSound

(* A release call, served or failing.                                      *)
LEMMA ReleaseKept ==
  ASSUME Sound, NEW w \in Worker, ServeRelease(w), CP!ClientInv'
  PROVE  Sound' /\ (SP!Owned => SP!Owned')
<1> DEFINE c == clientOf[w]
<1>1. CASE C!ReleaseReply(w, "err") /\ UNCHANGED serverVars
  BY <1>1, SoundParts, RefusalQuiet, ClientsAlone
<1>2. CASE S!release(c) /\ C!ReleaseReply(w, "ok")
  <2>1. /\ SP!release(c) /\ wpc[w] \in {"calling", "ok"}
        /\ wpc' = [wpc EXCEPT ![w] = "ok"]
        /\ UNCHANGED <<C!lockVars, C!queueVars, pc, hpc>>
    BY <1>2 DEF S!release, S!revokeVars, SP!release, SP!revokeVars,
                C!ReleaseReply
  <2>2. /\ c \in Client /\ c \in returning /\ state' = state /\ hpc' = hpc
        /\ c \in waitable' <=> c \in waitable
        /\ c \notin has'
        /\ \A d \in Client : d # c => CP!Same(d)
        /\ CP!ClientSound'
    BY <2>1, ReleaseSeen, SoundParts, Zenon
  <2> HIDE DEF c
  <2>3. \A d \in Client : d # c => SP!Still(d)
    BY <2>2, SeenStill
  <2>4. SP!Agreed' /\ (SP!Owned => SP!Owned')
    BY <2>1, <2>2, <2>3, SoundParts, SP!ReleaseServed
  <2> QED
    BY <2>2, <2>4 DEF Sound
<1> QED
  BY <1>1, <1>2 DEF ServeRelease

(* releaser_rpc is told that its call failed, whether or not release was   *)
(* executed.                                                               *)
LEMMA ReleaseFails ==
  ASSUME Sound, NEW w \in Worker, wpc[w] \in {"calling", "ok"},
         wpc' = [wpc EXCEPT ![w] = "err"],
         UNCHANGED <<C!lockVars, C!queueVars, pc, hpc>>, UNCHANGED serverVars
  PROVE  Sound'
<1> DEFINE c == clientOf[w]
<1>1. /\ c \in Client /\ c \in returning /\ state' = state /\ hpc' = hpc
      /\ c \in calling' <=> c \in calling
      /\ c \in granted' <=> c \in granted
      /\ c \in waitable' <=> c \in waitable
      /\ c \in answered' => c \in answered
      /\ \A d \in Client : d # c => CP!Same(d)
      /\ CP!ClientSound'
  BY ReleaseSeen, SoundParts, Zenon
<1> HIDE DEF c
<1>2. \A d \in Client : d # c => SP!Still(d)
  BY <1>1, SeenStill
<1>3. UNCHANGED SP!vars
  BY Zenon DEF serverVars, SP!vars, SP!lockVars, SP!retryVars, SP!revokeVars
<1>4. SP!Agreed'
  BY <1>1, <1>2, <1>3, SoundParts, SP!ReleaseLost
<1> QED
  BY <1>1, <1>4 DEF Sound

(* A retry call, served, refused or failing.                               *)
LEMMA RetryFails ==
  ASSUME Sound, NEW a \in Agent, run[a].kind = "retry",
         run[a].pc \in {"calling", "OK"},
         S!CallMoves(a, "RPCERR"), UNCHANGED clientVars
  PROVE  Sound'
<1>1. SP!CallMoves(a, "RPCERR")
  BY Zenon DEF S!CallMoves, S!lockVars, S!retryVars, S!revokeVars,
         SP!CallMoves, SP!lockVars, SP!retryVars, SP!revokeVars
<1>2. /\ \A c \in Client : SP!Still(c)
      /\ state' = state /\ hpc' = hpc /\ CP!ClientSound'
  BY StandingStill, SoundParts, SeenStill
<1>3. SP!Agreed'
  BY <1>1, <1>2, SoundParts, SP!RetryLost
<1> QED
  BY <1>2, <1>3 DEF Sound

(* retry_handler is executed, or refuses a client that has stopped         *)
(* waiting.                                                                *)
LEMMA RetryKept ==
  ASSUME Sound, NEW a \in Agent, ServeRetry(a), CP!ClientInv'
  PROVE  Sound' /\ (SP!Owned => SP!Owned')
<1>1. run[a].kind = "retry" /\ run[a].pc = "calling"
  BY Zenon DEF ServeRetry
<1>2. PICK c \in Client : run[a].cl = c /\ c \in waitable
  BY <1>1, SP!RetryFound, SoundParts
<1>3. CASE C!retry_handler(run[a].cl) /\ S!CallMoves(a, "OK")
  <2>1. SP!CallMoves(a, "OK")
    BY <1>3, Zenon DEF S!CallMoves, S!lockVars, S!retryVars, S!revokeVars,
                SP!CallMoves, SP!lockVars, SP!retryVars, SP!revokeVars
  <2>2. /\ state[c] = "ACQUIRING" /\ state'[c] = "FREE" /\ hpc' = hpc
        /\ c \notin returning' /\ c \notin calling' /\ c \notin answered'
        /\ c \in waitable'
        /\ \A d \in Client : d # c => state'[d] = state[d] /\ CP!Same(d)
        /\ CP!TimedAlone' /\ CP!NoneFailed'
    BY <1>2, <1>3, RetrySeen, SoundParts, Zenon
  <2>3. \A d \in Client : d # c => SP!Still(d)
    BY <2>2, SeenStill, Zenon
  <2>4. SP!Agreed' /\ (SP!Owned => SP!Owned')
    BY <1>1, <1>2, <2>1, <2>2, <2>3, SoundParts, SP!RetryServed, Zenon
  <2> QED
    BY <2>2, <2>4 DEF Sound, CP!ClientSound
<1>4. CASE /\ C!RetryRefused(run[a].cl) /\ S!CallMoves(a, "RPCERR")
           /\ UNCHANGED clientVars
  <2>1. Sound'
    BY <1>1, <1>4, RetryFails
  <2>2. ~SP!Owned
    BY <1>1, <1>4, SoundParts, SP!NeverRefused DEF C!RetryRefused
  <2> QED
    BY <2>1, <2>2
<1> QED
  BY <1>3, <1>4 DEF ServeRetry

(* Serving a revoke call: revoke_handler has the lock released or waits,   *)
(* at once or after it was woken.                                          *)
LEMMA RevokeMade ==
  ASSUME Sound, NEW a \in Agent, CP!ClientInv', NEW c \in Client,
         run[a].kind = "revoke", run[a].pc \in {"calling", "blocked"},
         run[a].cl = c, C!RevokeOrWait(<<c, a>>), RevokeMoves(c, a)
  PROVE  Sound' /\ (SP!Owned => SP!Owned')
<1>1. /\ hpc'[<<c, a>>] = "idle" => SP!CallMoves(a, "OK")
      /\ hpc'[<<c, a>>] # "idle" => SP!CallMoves(a, "blocked")
  BY Zenon DEF RevokeMoves, S!CallMoves, S!lockVars, S!retryVars, S!revokeVars,
         SP!CallMoves, SP!lockVars, SP!retryVars, SP!revokeVars
<1>2. c \notin returning
  BY <1>1, SoundParts, SP!RevokeAnswered DEF SP!Agreed, SP!ReturnRests
<1>3. /\ \A d \in Client, b \in Agent :
           <<d, b>> # <<c, a>> => hpc'[<<d, b>>] = hpc[<<d, b>>]
      /\ \/ /\ hpc'[<<c, a>>] = "idle"
            /\ c \in has /\ state'[c] = "RELEASING"
            /\ c \in calling' => c \in calling
            /\ c \in answered' => c \in answered
            /\ \A d \in Client : d # c => state'[d] = state[d] /\ CP!Same(d)
         \/ /\ hpc'[<<c, a>>] = "waiting"
            /\ state' = state /\ \A d \in Client : CP!Same(d)
      /\ CP!TimedAlone' /\ CP!NoneFailed'
  BY <1>2, RevokeSeen, SoundParts, Zenon
<1>4. CASE hpc'[<<c, a>>] = "idle"
  <2>1. \A d \in Client : d # c => SP!Still(d)
    BY <1>3, <1>4, SeenStill, Zenon
  <2>2. SP!Agreed' /\ (SP!Owned => SP!Owned')
    BY <1>1, <1>3, <1>4, <2>1, SoundParts, SP!RevokeTaken, Zenon
  <2> QED
    BY <1>3, <2>2, Zenon DEF Sound, CP!ClientSound
<1>5. CASE hpc'[<<c, a>>] = "waiting"
  <2>1. state' = state /\ \A d \in Client : SP!Still(d)
    BY <1>3, <1>5, SeenStill
  <2>2. SP!Agreed' /\ (SP!Owned => SP!Owned')
    BY <1>1, <1>3, <1>5, <2>1, SoundParts, SP!RevokeBlocked, Zenon
  <2> QED
    BY <1>3, <2>2 DEF Sound, CP!ClientSound
<1> QED
  BY <1>3, <1>4, <1>5

(* A revoke call that is served, and a revoke_handler that wakes up, are   *)
(* that for the client the call was sent to.                               *)
LEMMA RevokeKept ==
  ASSUME Sound, NEW a \in Agent, CP!ClientInv',
         ServeRevoke(a) \/ \E c \in Client : ResumeRevoke(c, a)
  PROVE  Sound' /\ (SP!Owned => SP!Owned')
<1>1. PICK c \in Client :
        /\ run[a].kind = "revoke" /\ run[a].pc \in {"calling", "blocked"}
        /\ run[a].cl = c /\ C!RevokeOrWait(<<c, a>>) /\ RevokeMoves(c, a)
  BY Zenon DEF ServeRevoke, ResumeRevoke, C!revoke_handler, C!revoke_wakeup,
         Sound, SP!Agreed, SP!ErrandInv, SP!HandlerBlocks, SP!CallsOwner
<1> QED
  BY <1>1, RevokeMade

(* A call that fails.                                                      *)
LEMMA FailureKept ==
  ASSUME Sound, Contained', NEW rpc \in MayFail, CallFails(rpc)
  PROVE  Sound' /\ failed' # {}
<1>1. rpc \in {"release", "retry"} /\ failed' # {}
  BY Zenon DEF CallFails, Contained
<1>2. CASE rpc = "release"
  <2>1. PICK w \in Worker : /\ wpc[w] \in {"calling", "ok"}
                            /\ wpc' = [wpc EXCEPT ![w] = "err"]
                            /\ UNCHANGED <<pc, run>>
    <3>1. ASSUME NEW a \in Agent, run[a].pc \in {"calling", "blocked", "OK"},
                 run[a].kind = "release"
          PROVE  FALSE
      BY <3>1 DEF Sound, SP!Agreed, SP!ErrandInv, SP!TypeOK, SP!Kind
    <3> QED
      BY <1>2, <3>1 DEF CallFails
  <2>2. /\ UNCHANGED <<C!lockVars, C!queueVars, pc, hpc>>
        /\ UNCHANGED serverVars
    BY <2>1 DEF CallFails, serverVars, C!lockVars, C!queueVars
  <2> QED
    BY <1>1, <2>1, <2>2, ReleaseFails, Zenon
<1>3. CASE rpc = "retry"
  <2>1. PICK a \in Agent : /\ run[a].pc \in {"calling", "blocked", "OK"}
                           /\ run[a].kind = "retry"
                           /\ run' = [run EXCEPT ![a].pc = "RPCERR"]
                           /\ UNCHANGED <<pc, wpc>>
    BY <1>3 DEF CallFails
  <2>2. run[a].pc \in {"calling", "OK"}
    BY <2>1 DEF Sound, SP!Agreed, SP!ErrandInv, SP!CallsOwner
  <2>3. S!CallMoves(a, "RPCERR") /\ UNCHANGED clientVars
    BY <2>1 DEF CallFails, S!CallMoves, S!lockVars, S!retryVars, S!revokeVars,
                clientVars
  <2> QED
    BY <1>1, <2>1, <2>2, <2>3, RetryFails
<1> QED
  BY <1>1, <1>2, <1>3, Zenon

(* A late release that finds its client still giving the lock back, and a  *)
(* late retry that finds its client still waiting.                         *)
LEMMA LateKept ==
  ASSUME Sound, Pending, Contained', Late, CP!ClientInv'
  PROVE  Sound' /\ failed' # {}
<1>1. PICK m \in abandoned :
        \/ m.rpc = "release" /\ S!release(m.cl) /\ UNCHANGED clientVars
           /\ Returning(m.cl)
        \/ m.rpc = "retry" /\ C!retry_handler(m.cl) /\ UNCHANGED serverVars
           /\ C!RetryDue(m.cl)
  BY DEF Late, Pending, Contained
<1>2. PICK c \in Client : m.cl = c
  BY Zenon DEF Pending
<1>3. failed' # {}
  BY OwnFrame, Zenon DEF Pending
<1>4. CASE S!release(c) /\ UNCHANGED clientVars /\ Returning(c)
  <2>1. SP!release(c)
    BY <1>4, Zenon DEF S!release, S!revokeVars, SP!release, SP!revokeVars
  <2>2. c \in returning
    BY <1>4, HomeOf, Zenon DEF Returning, returning, CP!Returning
  <2>3. /\ \A d \in Client : SP!Still(d)
        /\ state' = state /\ hpc' = hpc /\ CP!ClientSound'
    BY <1>4, StandingStill, SoundParts, SeenStill
  <2>4. SP!Agreed'
    BY <2>1, <2>2, <2>3, SoundParts, SP!ReleaseServed DEF SP!Still
  <2> QED
    BY <1>3, <2>3, <2>4 DEF Sound
<1>5. CASE C!retry_handler(c) /\ UNCHANGED serverVars /\ C!RetryDue(c)
  <2>1. state[c] = "ACQUIRING"
    BY <1>5, Zenon DEF C!retry_handler, C!RetryRefused
  <2>2. ~CP!Returning(c)
    BY <2>1, ClientsFit, CP!AcquiringKeeps DEF Sound
  <2>3. c \in waitable
    BY <1>5, <2>1, <2>2
       DEF waitable, CP!Waitable, CP!RetryDue, CP!Undecided, C!RetryDue,
           C!Undecided
  <2>4. /\ state'[c] = "FREE" /\ hpc' = hpc
        /\ c \notin returning' /\ c \notin calling' /\ c \notin answered'
        /\ c \in waitable'
        /\ \A d \in Client : d # c => state'[d] = state[d] /\ CP!Same(d)
        /\ CP!TimedAlone' /\ CP!NoneFailed'
    BY <1>5, <2>3, RetrySeen, SoundParts, Zenon
  <2>5. \A d \in Client : d # c => SP!Still(d)
    BY <2>4, SeenStill, Zenon
  <2>6. UNCHANGED SP!vars
    BY <1>5, Zenon DEF serverVars, SP!vars, SP!lockVars, SP!retryVars,
                       SP!revokeVars
  <2>7. SP!Agreed'
    BY <2>1, <2>4, <2>5, <2>6, SoundParts, SP!RetryLate, Zenon
  <2> QED
    BY <1>3, <2>4, <2>7, Zenon DEF Sound, CP!ClientSound
<1> QED
  BY <1>1, <1>2, <1>4, <1>5

(* What is abandoned has failed, and was sent by or to a client.           *)
LEMMA AbandonedKept ==
  ASSUME Sound, Pending, [Next]_vars
  PROVE  Pending'
<1>1. failed \subseteq failed'
  BY HistoryGrows
<1>2. CASE abandoned' \subseteq abandoned
  BY <1>1, <1>2, Zenon DEF Pending
<1>3. ASSUME NEW rpc \in MayFail, CallFails(rpc) PROVE Pending'
  <2>1. PICK c, p, u : GiveUp(rpc, c, p, u) /\ (u => c \in Client)
    <3>1. \A a \in Agent : run[a].pc = "calling" => run[a].cl \in Client
      BY Zenon DEF Sound, SP!Agreed, SP!ErrandInv, SP!CallsOwner
    <3> QED
      BY <1>3, <3>1, HomeOf, Zenon DEF CallFails
  <2>2. rpc \in failed'
    BY <1>3, Zenon DEF CallFails
  <2> QED
    BY <1>1, <2>1, <2>2 DEF Pending, GiveUp
<1> QED
  BY <1>2, <1>3, OwnFrame, StepCases, Zenon

(* What the clients see of a step in which no call fails.  It takes Sound  *)
(* to see that a retry is only sent to a client whose acquire has been     *)
(* answered.                                                               *)
LEMMA ClientsServed ==
  ASSUME Sound, Pending, Contained', [Next]_vars, failed' = failed
  PROVE  [C!Next]_(C!vars)
<1>1. \A a \in Agent : run[a].pc = "calling" => run[a].cl \in Client
  BY Zenon DEF Sound, SP!Agreed, SP!ErrandInv, SP!CallsOwner
<1>2. ASSUME NEW a \in Agent, run[a].pc = "calling", run[a].kind = "retry"
      PROVE  C!RetryDue(run[a].cl)
  BY <1>2, SP!RetryFound, SoundParts
     DEF waitable, CP!Waitable, CP!RetryDue, CP!Undecided, C!RetryDue,
         C!Undecided
<1>3. /\ ~stale'
      /\ \A m \in abandoned : m.rpc \in {"release", "retry"} /\ m.cl \in Client
  BY Zenon DEF Contained, Pending
<1> QED
  BY <1>1, <1>2, <1>3, ClientsStep

-----------------------------------------------------------------------------
(* The invariant holds initially.                                          *)
LEMMA ServiceInit == Init => Sound /\ Pending /\ SP!Owned
<1> SUFFICES ASSUME Init PROVE Sound /\ Pending /\ SP!Owned
  OBVIOUS
<1>1. /\ owner_cl = NoClient /\ waiting_cls = <<>> /\ retryer_queue = 0
      /\ \A a \in Agent : run[a].pc = "idle"
      /\ \A h \in Handler : hpc[h] = "idle"
      /\ \A c \in Client : state[c] = "ABSENT"
  BY Zenon DEF Init, C!Init, S!Init, S!Idle
<1>2. SP!ErrandInv
  <2>1. SP!Init /\ SP!Fit
    BY ServiceAssumption DEF Init, S!Init, S!Idle, SP!Init, SP!Idle, SP!Fit
  <2> QED
    BY <2>1, SP!ErrandInit
<1>3. SP!Agreed /\ SP!Owned
  BY <1>1, <1>2, ClientsInit, ServiceAssumption, HomeOf
     DEF SP!Agreed, SP!Owned, SP!ReturnRests, SP!HandlerBlocks, SP!Waiters,
         SP!OwnerHas, SP!Waits, SP!RetryOk, SP!RetryErr, has
<1>4. Pending
  BY Zenon DEF Init, Pending
<1> QED
  BY <1>3, <1>4, ClientsInit DEF Sound

(* Every step preserves it, one case per kind of step.                     *)
LEMMA StepKept ==
  ASSUME Sound, Pending, [Next]_vars, Contained'
  PROVE  Sound' /\ (SP!Owned /\ ~barged' /\ failed' = {} => SP!Owned')
<1>1. failed' = failed => CP!ClientInv'
  BY ClientsServed, ClientKept DEF Sound, CP!ClientSound
<1>2. CASE ClientOwn
  BY <1>1, <1>2, OwnFrame, OwnQuiet, ClientsAlone, SoundParts
<1>3. CASE ServerOwn
  BY <1>3, ServerAlone
<1>4. CASE Served
  <2>1. failed' = failed
    BY <1>4, OwnFrame
  <2> QED
    BY <1>1, <1>4, <2>1, AcquireKept, ReleaseKept, RetryKept, RevokeKept
       DEF Served
<1>5. CASE Late
  BY <1>1, <1>5, OwnFrame, LateKept
<1>6. ASSUME NEW rpc \in MayFail, CallFails(rpc) PROVE Sound' /\ failed' # {}
  BY <1>6, FailureKept
<1> QED
  BY <1>2, <1>3, <1>4, <1>5, <1>6, StepCases, Zenon

(* So what the invariant supposes of the past cannot come true again.      *)
LEMMA HistoryKept ==
  ASSUME [Next]_vars
  PROVE  (Contained' => Contained) /\ (Undisturbed' => Undisturbed)
<1>1. failed \subseteq failed' /\ (barged => barged') /\ (stale => stale')
  BY HistoryGrows
<1> QED
  BY <1>1 DEF Contained, Undisturbed

(* Only a call that fails leaves a request behind, and only a late one is  *)
(* stale.                                                                  *)
LEMMA LateInvKept ==
  ASSUME LateInv, [Next]_vars
  PROVE  LateInv'
<1> SUFFICES ASSUME failed' = {} PROVE abandoned' = {} /\ ~stale'
  BY Zenon DEF LateInv
<1>1. failed = {}
  BY HistoryGrows
<1>2. abandoned = {} /\ ~stale
  BY <1>1, Zenon DEF LateInv
<1>3. ASSUME NEW rpc \in MayFail, CallFails(rpc) PROVE FALSE
  BY <1>3, Zenon DEF CallFails
<1>4. ~Late
  BY <1>2, Zenon DEF Late
<1>5. abandoned' \subseteq abandoned /\ stale' = stale
  BY <1>3, <1>4, OwnFrame, StepCases, Zenon
<1> QED
  BY <1>2, <1>5, Zenon

(* The invariant of the lock service.  As long as only release and retry   *)
(* calls have failed, and none of them was served after its client had     *)
(* gone on, the server has at most one errand to run for a lock; and as    *)
(* long as no call at all has failed and no acquire was granted over the   *)
(* waiters' heads, only the client on record has the lock.                 *)
THEOREM ServiceInvariant == Spec => [](ServiceInv /\ OwnInv /\ LateInv)
<1>1. Init => ServiceInv /\ OwnInv /\ LateInv
  BY ServiceInit, Zenon DEF ServiceInv, OwnInv, LateInv, Init
<1>2. ServiceInv /\ OwnInv /\ LateInv /\ [Next]_vars
        => (ServiceInv /\ OwnInv /\ LateInv)'
  <2> SUFFICES ASSUME ServiceInv, OwnInv, LateInv, [Next]_vars
               PROVE  ServiceInv' /\ OwnInv' /\ LateInv'
    OBVIOUS
  <2>1. ASSUME Contained'
        PROVE  /\ Sound' /\ Pending'
               /\ SP!Owned /\ ~barged' /\ failed' = {} => SP!Owned'
    BY <2>1, HistoryKept, StepKept, AbandonedKept DEF ServiceInv
  <2>2. LateInv'
    BY LateInvKept
  <2>3. ASSUME Undisturbed' PROVE SP!Owned'
    <3>1. Contained' /\ ~barged' /\ failed' = {}
      BY <2>2, <2>3 DEF Contained, Undisturbed, LateInv
    <3>2. SP!Owned
      BY <2>3, HistoryKept DEF OwnInv
    <3> QED
      BY <2>1, <3>1, <3>2
  <2> QED
    BY <2>1, <2>2, <2>3 DEF ServiceInv, OwnInv
<1> QED
  BY <1>1, <1>2, PTL DEF Spec

(* At most one retry is answered OK for one entry of waiting_cls, and at   *)
(* most one revoke is on its way.                                          *)
LEMMA SoundErrands == Sound => NoEmptyPop /\ NoDoubleRevoke
  BY Zenon DEF Sound, SP!Agreed, SP!ErrandInv, SP!OneErrand, SP!Active,
         NoEmptyPop, NoDoubleRevoke, Revoking

(* No release or retry call that fails, and is therefore repeated, upsets  *)
(* the bookkeeping of releaser_rpc, acquire, retryer_rpc or revoker_rpc,   *)
(* not even if its request is served late, unless its client has gone on.  *)
THEOREM FailuresContained == Spec => []FailureContained
<1>1. CP!ClientInv => C!ClientInv
  BY SameInv
<1>2. SP!TypeOK => S!TypeOK
  BY Zenon DEF SP!TypeOK, SP!AgentPC, SP!Kind, S!TypeOK, S!AgentPC, S!Kind
<1>3. ServiceInv => FailureContained
  BY <1>1, <1>2, SoundErrands
     DEF ServiceInv, Sound, FailureContained, CP!ClientSound, SP!Agreed,
         SP!ErrandInv
<1> QED
  BY <1>3, ServiceInvariant, PTL

(* Where nothing but release and retry calls can fail, only a request that *)
(* is served after its client has gone on makes retryer_rpc pop an empty   *)
(* waiting_cls or revoker have two revokes under way.                      *)
THEOREM ErrandsSerialised ==
  ASSUME MayFail \subseteq {"release", "retry"}
  PROVE  Spec => [](~stale => NoEmptyPop /\ NoDoubleRevoke)
<1> DEFINE Few == failed \subseteq {"release", "retry"}
<1>1. Init => Few
  BY Zenon DEF Init
<1>2. Few /\ [Next]_vars => Few'
  <2> SUFFICES ASSUME Few, [Next]_vars PROVE Few'
    OBVIOUS
  <2>1. failed' = failed \/ \E rpc \in MayFail : failed' = failed \cup {rpc}
    BY HistoryGrows
  <2> QED
    BY <2>1, Zenon
<1>3. Few /\ ServiceInv => (~stale => NoEmptyPop /\ NoDoubleRevoke)
  BY SoundErrands DEF ServiceInv, Contained
<1> HIDE DEF Few
<1> QED
  BY <1>1, <1>2, <1>3, ServiceInvariant, PTL DEF Spec

(* Neither acquire, nor retryer_rpc after a success, nor a job that failed *)
(* and asks for itself again, makes a lock occupy more than one place in   *)
(* retryer_queue, revoker_queue, the pool's queue and its threads.         *)
THEOREM JobsAlwaysBounded == Spec => []JobsBounded
<1>1. ServiceInv => JobsBounded
  BY SP!ErrandPlaces
     DEF ServiceInv, Sound, SP!Agreed, JobsBounded, Errands
<1> QED
  BY <1>1, ServiceInvariant, PTL

(* While no call has failed and no acquire was granted over the waiters'   *)
(* heads, a client with the lock in its cache is the owner on record, so   *)
(* that the server accepts its release.                                    *)
THEOREM CacheMatchesRecord == Spec => []CachedMeansOwned
<1>1. OwnInv => CachedMeansOwned
  BY Zenon DEF OwnInv, SP!Owned, has, CP!Has, CachedMeansOwned
<1> QED
  BY <1>1, ServiceInvariant, PTL

(* Under the same condition no two clients hold the lock: an acquire that  *)
(* overtakes the waiters, and the failure of a call, are the only ways in  *)
(* which the lock service can grant a lock twice.                          *)
THEOREM LockExclusive == Spec => []ExclusiveUnlessBarged
<1>1. ServiceInv /\ OwnInv /\ LateInv => ExclusiveUnlessBarged
  <2> SUFFICES ASSUME ServiceInv, OwnInv, LateInv, Undisturbed
               PROVE  MutualExclusion
    BY Zenon DEF ExclusiveUnlessBarged
  <2>1. Sound /\ SP!Owned
    BY Zenon DEF ServiceInv, OwnInv, LateInv, Contained, Undisturbed
  <2>2. ASSUME NEW c \in Client, Holding(c) PROVE owner_cl = c
    <3>1. state[c] = "LOCKED"
      BY <2>1, <2>2, HomeOf DEF Holding, Sound, CP!ClientSound, CP!ClientInv,
                               CP!HolderOwns
    <3> QED
      BY <2>1, <3>1 DEF SP!Owned, has, CP!Has
  <2> QED
    BY <2>2 DEF MutualExclusion
<1> QED
  BY <1>1, ServiceInvariant, PTL

(* The service, seen from its clients, implements the environment that     *)
(* LockClientCache specifies, until a call fails.                          *)
THEOREM ServiceServesClients == Spec => ServesClients
<1>1. Init => C!Init
  BY Zenon DEF Init
<1>2. ServiceInv /\ LateInv /\ LateInv' /\ [Next]_vars
        => [failed' = {} => C!Next]_(C!vars)
  <2> SUFFICES ASSUME ServiceInv, LateInv, LateInv', [Next]_vars, failed' = {}
               PROVE  [C!Next]_(C!vars)
    OBVIOUS
  <2>1. failed = {}
    BY HistoryGrows
  <2>2. Sound /\ Pending /\ Contained'
    BY <2>1, Zenon DEF ServiceInv, LateInv, Contained
  <2> QED
    BY <2>1, <2>2, ClientsServed
<1> QED
  BY <1>1, <1>2, ServiceInvariant, PTL DEF Spec, ServesClients
====
