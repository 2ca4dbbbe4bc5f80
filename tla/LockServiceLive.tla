--------------------------- MODULE LockServiceLive ---------------------------
(***************************************************************************)
(* Progress of the lock service.  Every process that can take a step       *)
(* eventually does (its thread is scheduled, the mutexes are not held      *)
(* across blocking calls, timed waits end, RPCs are answered, and a thread *)
(* that holds the lock releases it).  The mutexes are not fair: a thread   *)
(* that goes on and on acquiring can overtake a waiting revoke_handler     *)
(* each time.  The threads therefore make MaxCalls acquire calls in all,   *)
(* as a finite run of the testers does.                                    *)
(***************************************************************************)
EXTENDS LockService

CONSTANT MaxCalls

ASSUME MaxCallsAssumption == MaxCalls \in Nat

VARIABLE calls  \* acquire calls made so far

liveVars == <<vars, calls>>

LiveInit == Init /\ calls = 0

(* The timed wait of releaser_rpc lasts timeout_value = 120 seconds: a     *)
(* thread that has been woken runs before it is over.                      *)
Timely(w) ==
  wpc[w] = "timed" =>
    \A t \in Thread : clientOf[t] = clientOf[w] => pc[t] # "woken"

LiveNext ==
  \/ /\ calls < MaxCalls
     /\ calls' = calls + 1
     /\ \E t \in Thread : Call(t)
  \/ /\ \/ Step
        \/ SpuriousWakeup
        \/ \E w \in Worker : Timely(w) /\ WorkerStep(w)
     /\ UNCHANGED calls

(* A process is at one place at a time, so one weak fairness condition on  *)
(* all its steps is one on each of them.                                   *)
Fairness ==
  /\ \A t \in Thread : WF_vars(ThreadStep(t) \/ ServeAcquire(t))
  /\ \A c \in Client : WF_vars(Releaser(c))
  /\ \A w \in Worker : WF_vars((Timely(w) /\ WorkerStep(w)) \/ ServeRelease(w))
  /\ WF_vars(Retryer)
  /\ WF_vars(Revoker)
  /\ \A a \in Agent :
       /\ WF_vars(AgentStep(a) \/ ServeRetry(a) \/ ServeRevoke(a))
       /\ WF_vars(\E c \in Client : ResumeRevoke(c, a))

LiveSpec == LiveInit /\ [][LiveNext]_liveVars /\ Fairness

-----------------------------------------------------------------------------
(* Whatever a client is waiting for from the server arrives: its acquire   *)
(* call is granted, at once or by a retry, and its release is accepted,    *)
(* unless some acquire has been granted over the waiters' heads or a call  *)
(* has failed.  No revoke, retry or signal between the server's and the    *)
(* clients' threads is lost.                                               *)
Waiting(c) == state[c] \in {"ACQUIRING", "RELEASING"}
ClientServed ==
  \A c \in Client : Waiting(c) ~> (~Waiting(c) \/ barged \/ failed # {})
=============================================================================
