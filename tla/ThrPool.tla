------------------------------- MODULE ThrPool -------------------------------
(***************************************************************************)
(* The thread pool (rpc/thr_pool.cc) over a bounded queue (rpc/fifo.h):    *)
(* workers that take jobs, threads that add them with addObjJob, and the   *)
(* destructor, which puts one poison pill per worker behind the jobs and   *)
(* joins the workers.  It is called when no thread uses the pool any more. *)
(***************************************************************************)
EXTENDS Naturals, Sequences, FiniteSets, Functions

CONSTANTS
  Worker, Adder, Destructor,
  max_,       \* the queue's capacity (100 for each worker in the code)
  MaxJob      \* bound: jobs offered to the pool

ASSUME PoolAssumption ==
  /\ Destructor \notin Adder /\ IsFiniteSet(Worker) /\ Worker # {}
  /\ max_ \in Nat \ {0} /\ MaxJob \in Nat

Pill == 0
Job == 1..MaxJob
Enqueuer == Adder \cup {Destructor}

VARIABLES
  blockadd_, \* the constructor was told that addJob waits for space
  q_,       \* jobs waiting
  worker,   \* where each worker is, and the job it runs
  enqueuer, \* where each thread that adds is, and what it adds
  offered,  \* jobs offered so far
  accepted, \* history: jobs for which addJob returned true
  run,      \* history: jobs run, in the order they were taken
  pills     \* poison pills added

vars == <<blockadd_, q_, worker, enqueuer, offered, accepted, run, pills>>

At(pc, j) == [pc |-> pc, job |-> j]

(* pc: "deq", "wait" (on non_empty_c_), "run", "exit"; "idle", "enq",      *)
(* "wait" (on has_space_c_), and of the destructor "join", "joined".       *)
WorkerState == [pc : {"deq", "wait", "run", "exit"}, job : Job \cup {Pill}]
EnqueuerState == [pc : {"idle", "enq", "wait", "join", "joined"}, job : Job \cup {Pill}]
TypeOK ==
  /\ blockadd_ \in BOOLEAN
  /\ q_ \in Seq(Job \cup {Pill}) /\ Len(q_) <= max_
  /\ worker \in [Worker -> WorkerState]
  /\ enqueuer \in [Enqueuer -> EnqueuerState]
  /\ offered \in 0..MaxJob /\ accepted \subseteq Job
  /\ run \in Seq(Job) /\ pills \in 0..Cardinality(Worker)

Init ==
  /\ blockadd_ \in BOOLEAN
  /\ q_ = <<>>
  /\ worker = [w \in Worker |-> At("deq", Pill)]
  /\ enqueuer = [a \in Enqueuer |-> At("idle", Pill)]
  /\ offered = 0 /\ accepted = {} /\ run = <<>> /\ pills = 0

(* pthread_cond_signal: one of those waiting, if there is one, goes on.    *)
Signal(f, to) ==
  LET waiting == {t \in DOMAIN f : f[t].pc = "wait"}
  IN IF waiting = {} THEN {f}
     ELSE {[f EXCEPT ![t].pc = to] : t \in waiting}

-----------------------------------------------------------------------------
(* addObjJob, and the destructor for each of its pills.                    *)
addObjJob(a) ==
  /\ enqueuer[a].pc = "idle" /\ enqueuer[Destructor].pc = "idle"
  /\ offered < MaxJob
  /\ offered' = offered + 1
  /\ enqueuer' = [enqueuer EXCEPT ![a] = At("enq", offered + 1)]
  /\ UNCHANGED <<blockadd_, q_, worker, accepted, run, pills>>

Destroy ==
  /\ \A a \in Enqueuer : enqueuer[a].pc = "idle"
  /\ enqueuer' = [enqueuer EXCEPT ![Destructor] = At("enq", Pill)]
  /\ UNCHANGED <<blockadd_, q_, worker, offered, accepted, run, pills>>

(* fifo::enq.                                                              *)
Full == Len(q_) >= max_

(* Mutant: what is added last is taken first.                              *)
enq_push_front(a) ==
  LET j == enqueuer[a].job
      last == pills + 1 = Cardinality(Worker)
  IN /\ enqueuer[a].pc = "enq" /\ ~Full
     /\ q_' = <<j>> \o q_
     /\ worker' \in Signal(worker, "deq")
     /\ enqueuer' = [enqueuer EXCEPT ![a] =
          At(IF j # Pill THEN "idle" ELSE IF last THEN "join" ELSE "enq", Pill)]
     /\ accepted' = accepted \cup ({j} \ {Pill})
     /\ pills' = IF j = Pill THEN pills + 1 ELSE pills
     /\ UNCHANGED <<blockadd_, offered, run>>

enq_push(a) ==
  LET j == enqueuer[a].job
      last == pills + 1 = Cardinality(Worker)
  IN /\ enqueuer[a].pc = "enq" /\ ~Full
     /\ q_' = Append(q_, j)
     /\ worker' \in Signal(worker, "deq")
     /\ enqueuer' = [enqueuer EXCEPT ![a] =
          At(IF j # Pill THEN "idle" ELSE IF last THEN "join" ELSE "enq", Pill)]
     /\ accepted' = accepted \cup ({j} \ {Pill})
     /\ pills' = IF j = Pill THEN pills + 1 ELSE pills
     /\ UNCHANGED <<blockadd_, offered, run>>

(* A full queue: ~ThrPool and a blocking pool wait, another gives up.      *)
enq_full(a) ==
  LET blocking == blockadd_ \/ a = Destructor
  IN /\ enqueuer[a].pc = "enq" /\ Full
     /\ enqueuer' = [enqueuer EXCEPT ![a] =
          IF blocking THEN At("wait", enqueuer[a].job) ELSE At("idle", Pill)]
     /\ UNCHANGED <<blockadd_, q_, worker, offered, accepted, run, pills>>

(* Mutant: a thread that waits for space is not told of it.                *)
deq_silent(w) ==
  LET j == Head(q_)
  IN /\ worker[w].pc = "deq" /\ q_ # <<>>
     /\ q_' = Tail(q_)
     /\ worker' = [worker EXCEPT ![w] = At(IF j = Pill THEN "exit" ELSE "run", j)]
     /\ run' = IF j = Pill THEN run ELSE Append(run, j)
     /\ UNCHANGED <<blockadd_, enqueuer, offered, accepted, pills>>

(* fifo::deq, and do_worker, which exits on a pill.                        *)
deq(w) ==
  LET j == Head(q_)
  IN /\ worker[w].pc = "deq" /\ q_ # <<>>
     /\ q_' = Tail(q_)
     /\ worker' = [worker EXCEPT ![w] = At(IF j = Pill THEN "exit" ELSE "run", j)]
     /\ run' = IF j = Pill THEN run ELSE Append(run, j)
     /\ enqueuer' \in IF Len(q_') < max_ THEN Signal(enqueuer, "enq") ELSE {enqueuer}
     /\ UNCHANGED <<blockadd_, offered, accepted, pills>>

deq_empty(w) ==
  /\ worker[w].pc = "deq" /\ q_ = <<>>
  /\ worker' = [worker EXCEPT ![w].pc = "wait"]
  /\ UNCHANGED <<blockadd_, q_, enqueuer, offered, accepted, run, pills>>

JobDone(w) ==
  /\ worker[w].pc = "run"
  /\ worker' = [worker EXCEPT ![w] = At("deq", Pill)]
  /\ UNCHANGED <<blockadd_, q_, enqueuer, offered, accepted, run, pills>>

(* pthread_join of every worker.                                           *)
Join ==
  /\ enqueuer[Destructor].pc = "join"
  /\ \A w \in Worker : worker[w].pc = "exit"
  /\ enqueuer' = [enqueuer EXCEPT ![Destructor].pc = "joined"]
  /\ UNCHANGED <<blockadd_, q_, worker, offered, accepted, run, pills>>

SpuriousWakeup ==
  \/ \E w \in Worker : /\ worker[w].pc = "wait"
                       /\ worker' = [worker EXCEPT ![w].pc = "deq"]
                       /\ UNCHANGED <<blockadd_, q_, enqueuer, offered, accepted, run, pills>>
  \/ \E a \in Enqueuer : /\ enqueuer[a].pc = "wait"
                         /\ enqueuer' = [enqueuer EXCEPT ![a].pc = "enq"]
                         /\ UNCHANGED <<blockadd_, q_, worker, offered, accepted, run, pills>>

Working(w) == deq(w) \/ deq_empty(w) \/ JobDone(w)
Adding(a) == enq_push(a) \/ enq_full(a)

Next ==
  \/ \E w \in Worker : Working(w)
  \/ \E a \in Enqueuer : Adding(a)
  \/ \E a \in Adder : addObjJob(a)
  \/ Destroy \/ Join \/ SpuriousWakeup

Spec == Init /\ [][Next]_vars

-----------------------------------------------------------------------------
(* The pool never loses, repeats or invents a job: what was accepted is    *)
(* what has been taken or is still queued; and when the destructor has     *)
(* joined the workers every accepted job has been run.                     *)
Queued == Range(q_) \ {Pill}
Taken == Range(run)
JobsKept ==
  /\ accepted = Taken \cup Queued
  /\ Taken \cap Queued = {}
  /\ \A i, j \in DOMAIN run : i # j => run[i] # run[j]
  /\ enqueuer[Destructor].pc = "joined" => Taken = accepted

(* What keeps the jobs: those being added are new, pills come last, and a  *)
(* worker has left only if nothing but pills is queued.                    *)
Pending(a) == enqueuer[a].pc \in {"enq", "wait"}
QueueOK ==
  /\ accepted = Taken \cup Queued
  /\ Taken \cap Queued = {}
  /\ accepted \subseteq 1..offered
  /\ \A i, j \in DOMAIN run : i # j => run[i] # run[j]
  /\ \A i, j \in DOMAIN q_ : i # j /\ q_[i] # Pill => q_[i] # q_[j]
  /\ \A i, j \in DOMAIN q_ : i < j /\ q_[i] = Pill => q_[j] = Pill
AdderOK(a) ==
  /\ enqueuer[a].pc = "idle" \/ Pending(a)
  /\ Pending(a) =>
       /\ enqueuer[Destructor].pc = "idle"
       /\ enqueuer[a].job \in (1..offered) \ accepted
       /\ \A b \in Adder \ {a} : Pending(b) => enqueuer[b].job # enqueuer[a].job
DestructorOK ==
  /\ enqueuer[Destructor].job = Pill
  /\ Pending(Destructor) => pills < Cardinality(Worker)
  /\ enqueuer[Destructor].pc = "idle" =>
       /\ pills = 0
       /\ \A i \in DOMAIN q_ : q_[i] # Pill
       /\ \A w \in Worker : worker[w].pc # "exit"
  /\ \A w \in Worker : worker[w].pc = "exit" => Queued = {}
  /\ enqueuer[Destructor].pc = "joined" => Queued = {}
PoolInv == TypeOK /\ QueueOK /\ (\A a \in Adder : AdderOK(a)) /\ DestructorOK

(* No wakeup is lost: what was accepted gets run (jobs being finitely      *)
(* many, the workers catch up again and again), a thread waiting for space *)
(* gets on, and a destructor that has begun ends (fifo.h, ~ThrPool).       *)
PoolProgress ==
  /\ []<>(accepted = Taken)
  /\ \A a \in Adder : (enqueuer[a].pc = "wait") ~> (enqueuer[a].pc = "idle")
  /\ (enqueuer[Destructor].pc # "idle") ~> (enqueuer[Destructor].pc = "joined")
=============================================================================
