----------------------------- MODULE AgentPool -----------------------------
(***************************************************************************)
(* The lock server's pool at work: jobs that ThrPool's workers run are     *)
(* retryer_rpc and revoker_rpc (lock_server_cache.cc), each of which makes *)
(* a handle for the client concerned, binds it, calls the client if that   *)
(* gave it an rpcc, and lets the handle go as it returns.  The jobs here   *)
(* are for one client, so that all of them share one hinfo, and may call   *)
(* safebind again, as handle.h shows.  What the call does to the lock is   *)
(* in LockServerCache.                                                     *)
(***************************************************************************)
EXTENDS ThrPool, Handle

ASSUME WorkersCall == Thread = Worker

poolVars == <<blockadd_, q_, worker, enqueuer, offered, accepted, run, pills>>
allVars == <<poolVars, hVars>>

AgentInit == Init /\ HandleInit

(* handle h(owner_cl), safebind and, in it, bind, by a worker with a job.  *)
job_handle(w) ==
  /\ worker[w].pc = "run" /\ get_handle(w)
  /\ UNCHANGED <<blockadd_, q_, worker, enqueuer, offered, accepted, run, pills>>

job_safebind(w) ==
  /\ worker[w].pc = "run" /\ safebind(w)
  /\ UNCHANGED <<blockadd_, q_, worker, enqueuer, offered, accepted, run, pills>>

job_bound(w) ==
  /\ bind_result(w)
  /\ UNCHANGED <<blockadd_, q_, worker, enqueuer, offered, accepted, run, pills>>

(* The call, if there is an rpcc, and the end of the job, where ~handle    *)
(* runs.  A call lasts as long as it likes before this step.               *)
job_end(w) ==
  /\ th[w].first # "none"
  /\ JobDone(w) /\ done_handle(w)

JobStep(w) == job_handle(w) \/ job_safebind(w) \/ job_bound(w) \/ job_end(w)

TakeJob(w) == (deq(w) \/ deq_empty(w)) /\ UNCHANGED <<hmap, info, made, th>>

AgentNext ==
  \/ \E w \in Worker : JobStep(w) \/ TakeJob(w)
  \/ /\ \/ \E a \in Enqueuer : Adding(a)
        \/ \E a \in Adder : addObjJob(a)
        \/ Destroy \/ Join \/ SpuriousWakeup
     /\ UNCHANGED <<hmap, info, made, th>>

(* Threads run.  It is assumed that rpcc::bind and the call end, by their   *)
(* timeouts if need be: neither hangs in connect or send (see RpcCall).     *)
AgentFairness ==
  /\ \A w \in Worker : WF_allVars(JobStep(w) \/ TakeJob(w))
  /\ \A a \in Enqueuer : WF_allVars(Adding(a) /\ UNCHANGED <<hmap, info, made, th>>)
  /\ WF_allVars(Join /\ UNCHANGED <<hmap, info, made, th>>)

AgentSpec == AgentInit /\ [][AgentNext]_allVars
FairAgentSpec == AgentSpec /\ AgentFairness
=============================================================================
