------------------------------- MODULE Handle -------------------------------
(***************************************************************************)
(* The cache of RPC clients the lock server calls its clients through      *)
(* (handle.cc), for one destination: threads that make a handle, bind it   *)
(* as often as they like and let it go (retryer_rpc and revoker_rpc).      *)
(* Nothing in the repository calls delete_handle.                          *)
(***************************************************************************)
EXTENDS Integers, FiniteSets

CONSTANTS
  Thread,
  MaxInfo,  \* bound: hinfo objects made
  None

ASSUME HandleAssumption ==
  MaxInfo \in Nat /\ None \notin Nat \cup Thread /\ IsFiniteSet(Thread)

VARIABLES
  hmap,   \* the destination's hinfo, or None
  info,   \* the hinfo objects made so far
  made,   \* how many
  th      \* each thread: where it is, its hinfo, what safebind told it

hVars == <<hmap, info, made, th>>

Info == 1..MaxInfo
Fresh == [cl |-> FALSE, del |-> FALSE, refcnt |-> 1, mutex |-> None, freed |-> FALSE]
Idle == [pc |-> "idle", h |-> None, first |-> "none", last |-> "none"]

Hinfo == [cl : BOOLEAN, del : BOOLEAN, refcnt : Nat, mutex : Thread \cup {None},
          freed : BOOLEAN]
(* pc: "idle", "have" a handle, "bind" (inside rpcc::bind, with cl_mutex). *)
(* first and last: "rpcc" or "NULL", as safebind first and last returned.  *)
Answer == {"none", "rpcc", "NULL"}
ThreadState == [pc : {"idle", "have", "bind"}, h : Info \cup {None},
                first : Answer, last : Answer]

HandleTypeOK ==
  /\ hmap \in Info \cup {None}
  /\ made \in 0..MaxInfo
  /\ info \in [Info -> Hinfo]
  /\ th \in [Thread -> ThreadState]

HandleInit ==
  /\ hmap = None /\ made = 0
  /\ info = [i \in Info |-> Fresh]
  /\ th = [t \in Thread |-> Idle]

(* get_handle: the hinfo there is, a new one, or none if it is going.      *)
Counted(x, d) == [x EXCEPT !.refcnt = x.refcnt + d]
Having(i) == [Idle EXCEPT !.pc = "have", !.h = i]
get_handle(t) ==
  /\ th[t].pc = "idle"
  /\ \/ /\ hmap = None /\ made < MaxInfo
        /\ made' = made + 1
        /\ hmap' = made'
        /\ info' = [info EXCEPT ![made'] = Fresh]
        /\ th' = [th EXCEPT ![t] = Having(made')]
     \/ /\ hmap # None /\ ~info[hmap].del
        /\ info' = [info EXCEPT ![hmap] = Counted(info[hmap], 1)]
        /\ th' = [th EXCEPT ![t] = Having(hmap)]
        /\ UNCHANGED <<hmap, made>>
     \/ /\ hmap # None /\ info[hmap].del
        /\ th' = [th EXCEPT ![t] = Having(None)]
        /\ UNCHANGED <<hmap, info, made>>

Told(s, r) ==
  [s EXCEPT !.pc = "have", !.last = r, !.first = IF s.first = "none" THEN r ELSE s.first]
Returned(t, r) == th' = [th EXCEPT ![t] = Told(th[t], r)]

(* Mutant: a failed bind is tried again by the next safebind.              *)
bind_result_again(t) ==
  /\ th[t].pc = "bind"
  /\ \E ok \in BOOLEAN :
       /\ info' = [info EXCEPT ![th[t].h] = [@ EXCEPT !.mutex = None, !.cl = ok]]
       /\ Returned(t, IF ok THEN "rpcc" ELSE "NULL")
  /\ UNCHANGED <<hmap, made>>

(* safebind: with cl_mutex, which is held while rpcc::bind runs.           *)
Locked(x, t) == [x EXCEPT !.mutex = t]
Binding(s) == [s EXCEPT !.pc = "bind"]
safebind(t) ==
  LET i == th[t].h
  IN /\ th[t].pc = "have"
     /\ \/ i = None /\ Returned(t, "NULL") /\ UNCHANGED info
        \/ /\ i # None /\ info[i].mutex = None
           /\ \/ info[i].del /\ Returned(t, "NULL") /\ UNCHANGED info
              \/ ~info[i].del /\ info[i].cl /\ Returned(t, "rpcc") /\ UNCHANGED info
              \/ /\ ~info[i].del /\ ~info[i].cl
                 /\ info' = [info EXCEPT ![i] = Locked(info[i], t)]
                 /\ th' = [th EXCEPT ![t] = Binding(th[t])]
     /\ UNCHANGED <<hmap, made>>

Bound(x, ok) == [x EXCEPT !.mutex = None, !.cl = ok, !.del = ~ok]
bind_result(t) ==
  /\ th[t].pc = "bind"
  /\ \E ok \in BOOLEAN :
       /\ info' = [info EXCEPT ![th[t].h] = Bound(info[th[t].h], ok)]
       /\ Returned(t, IF ok THEN "rpcc" ELSE "NULL")
  /\ UNCHANGED <<hmap, made>>

(* Mutant: an hinfo to be deleted goes while others still hold it.         *)
Unused_soon(i) == info[i].del

(* done_handle, and delete_handle_wo for an hinfo that nobody holds.       *)
Unused(i) == info[i].refcnt = 1 /\ info[i].del

Freed(x) == [Counted(x, -1) EXCEPT !.freed = TRUE]
done_handle(t) ==
  LET i == th[t].h
  IN /\ th[t].pc = "have"
     /\ th' = [th EXCEPT ![t] = Idle]
     /\ \/ i = None /\ UNCHANGED <<hmap, info>>
        \/ /\ i # None /\ Unused(i)
           /\ info' = [info EXCEPT ![i] = Freed(info[i])]
           /\ hmap' = None
        \/ /\ i # None /\ ~Unused(i)
           /\ info' = [info EXCEPT ![i] = Counted(info[i], -1)]
           /\ UNCHANGED hmap
     /\ UNCHANGED made

HandleNext == \E t \in Thread :
  get_handle(t) \/ safebind(t) \/ bind_result(t) \/ done_handle(t)

HandleSpec == HandleInit /\ [][HandleNext]_hVars

-----------------------------------------------------------------------------
(* "if the first safebind succeeded, all later calls would return a rpcc   *)
(* object; otherwise, all later calls would return NULL" (handle.h:48-50), *)
(* although threads share the hinfo.                                       *)
SafebindStable == \A t \in Thread : th[t].last = th[t].first

(* No thread holds an hinfo that was freed, so none uses a deleted mutex.  *)
NoFreedHandle == \A t \in Thread : th[t].h # None => ~info[th[t].h].freed

(* A destination whose bind failed is forgotten once nobody holds it, so a *)
(* later handle binds anew.                                                *)
FailureForgotten ==
  (\A t \in Thread : th[t].pc = "idle") =>
    hmap = None \/ (info[hmap].refcnt = 0 /\ ~info[hmap].del)

(* What keeps the three true: refcnt counts the handles out, only the      *)
(* hinfo in hmap is held, whoever binds has its mutex, and what safebind   *)
(* told a thread is what cl and del still say.                             *)
Holders(i) == {t \in Thread : th[t].h = i}
ThreadOK(t) ==
  /\ th[t].pc = "idle" => th[t] = Idle
  /\ th[t].h # None => th[t].h = hmap
  /\ th[t].last = th[t].first
  /\ th[t].pc = "bind" => hmap # None /\ th[t].h = hmap /\ info[hmap].mutex = t
  /\ th[t].first = "rpcc" => th[t].h # None /\ info[th[t].h].cl
  /\ th[t].first = "NULL" /\ th[t].h # None => info[th[t].h].del
MapOK ==
  hmap # None =>
    /\ hmap <= made /\ ~info[hmap].freed
    /\ info[hmap].refcnt = Cardinality(Holders(hmap))
    /\ info[hmap].refcnt = 0 => ~info[hmap].del
    /\ info[hmap].mutex # None =>
         th[info[hmap].mutex].pc = "bind" /\ ~info[hmap].cl /\ ~info[hmap].del
    /\ ~(info[hmap].cl /\ info[hmap].del)
HandleInv == HandleTypeOK /\ (\A t \in Thread : ThreadOK(t)) /\ MapOK
=============================================================================
