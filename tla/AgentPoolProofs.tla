--------------------------- MODULE AgentPoolProofs ---------------------------
(***************************************************************************)
(* Proofs about the handle cache, the thread pool, and the two together.   *)
(* The handle cache keeps HandleInv for any number of threads and of hinfo *)
(* objects, whichever binds fail; its three promises follow.  The pool     *)
(* keeps PoolInv for any number of workers and adding threads and any      *)
(* queue capacity; that no job is lost, repeated or left behind by the     *)
(* destructor follows.  Both keep their invariants when pool jobs use      *)
(* handles: every step of AgentPool is a step, or a stutter, of each.      *)
(***************************************************************************)
EXTENDS AgentPool, FiniteSetTheorems, TLAPS

(* Taking a handle adds one to the holders of an hinfo, and letting it go  *)
(* takes one away.                                                         *)
LEMMA HolderAdded ==
  ASSUME NEW F \in SUBSET Thread, NEW t \in Thread \ F
  PROVE  Cardinality(F \cup {t}) = Cardinality(F) + 1
BY HandleAssumption, FS_Subset, FS_AddElement, Zenon

LEMMA HolderRemoved ==
  ASSUME NEW F \in SUBSET Thread, NEW t \in F
  PROVE  Cardinality(F \ {t}) = Cardinality(F) - 1 /\ Cardinality(F) \in Nat \ {0}
<1>1. IsFiniteSet(F)
  BY HandleAssumption, FS_Subset, Zenon
<1> QED
  BY <1>1, FS_RemoveElement, FS_CardinalityType, FS_EmptySet, Zenon

(* What each way of changing an hinfo does to it.                          *)
LEMMA HinfoChanges ==
  ASSUME NEW x \in Hinfo
  PROVE  /\ x.refcnt \in Nat /\ x.mutex \in Thread \cup {None}
         /\ \A d \in {1, -1} :
              x.refcnt + d \in Nat =>
                /\ Counted(x, d) \in Hinfo /\ Counted(x, d).refcnt = x.refcnt + d
                /\ Counted(x, d).mutex = x.mutex /\ Counted(x, d).freed = x.freed
                /\ Counted(x, d).cl = x.cl /\ Counted(x, d).del = x.del
         /\ x.refcnt - 1 \in Nat => Freed(x) \in Hinfo
         /\ \A t \in Thread :
              /\ Locked(x, t) \in Hinfo /\ Locked(x, t).refcnt = x.refcnt
              /\ Locked(x, t).mutex = t /\ Locked(x, t).freed = x.freed
              /\ Locked(x, t).cl = x.cl /\ Locked(x, t).del = x.del
         /\ \A ok \in BOOLEAN :
              /\ Bound(x, ok) \in Hinfo /\ Bound(x, ok).refcnt = x.refcnt
              /\ Bound(x, ok).mutex = None /\ Bound(x, ok).freed = x.freed
              /\ Bound(x, ok).cl = ok /\ Bound(x, ok).del = ~ok
<1>1. x.refcnt \in Nat /\ x.mutex \in Thread \cup {None}
  BY Zenon DEF Hinfo
<1>2. ASSUME NEW d \in {1, -1}, x.refcnt + d \in Nat
      PROVE  /\ Counted(x, d) \in Hinfo /\ Counted(x, d).refcnt = x.refcnt + d
             /\ Counted(x, d).mutex = x.mutex /\ Counted(x, d).freed = x.freed
             /\ Counted(x, d).cl = x.cl /\ Counted(x, d).del = x.del
  BY <1>2, Zenon DEF Hinfo, Counted
<1>3. ASSUME x.refcnt - 1 \in Nat PROVE Freed(x) \in Hinfo
  <2>1. x.refcnt + (-1) \in Nat
    BY <1>1, <1>3, Zenon
  <2>2. Counted(x, -1) \in Hinfo
    BY <1>2, <2>1, Zenon
  <2> QED
    BY <2>2, Zenon DEF Hinfo, Freed
<1>4. ASSUME NEW t \in Thread
      PROVE  /\ Locked(x, t) \in Hinfo /\ Locked(x, t).refcnt = x.refcnt
             /\ Locked(x, t).mutex = t /\ Locked(x, t).freed = x.freed
             /\ Locked(x, t).cl = x.cl /\ Locked(x, t).del = x.del
  BY Zenon DEF Hinfo, Locked
<1>5. ASSUME NEW ok \in BOOLEAN
      PROVE  /\ Bound(x, ok) \in Hinfo /\ Bound(x, ok).refcnt = x.refcnt
             /\ Bound(x, ok).mutex = None /\ Bound(x, ok).freed = x.freed
             /\ Bound(x, ok).cl = ok /\ Bound(x, ok).del = ~ok
  BY Zenon DEF Hinfo, Bound
<1> QED
  BY <1>1, <1>2, <1>3, <1>4, <1>5, Zenon

(* What each way of changing a thread's state does to it.                  *)
LEMMA ThreadChanges ==
  /\ Idle \in ThreadState /\ Idle.pc = "idle" /\ Idle.h = None
  /\ Idle.first = "none" /\ Idle.last = "none"
  /\ \A i \in Info \cup {None} :
       /\ Having(i) \in ThreadState /\ Having(i).pc = "have" /\ Having(i).h = i
       /\ Having(i).first = "none" /\ Having(i).last = "none"
  /\ \A s \in ThreadState :
       /\ s.h \in Info \cup {None}
       /\ Binding(s) \in ThreadState /\ Binding(s).pc = "bind" /\ Binding(s).h = s.h
       /\ Binding(s).first = s.first /\ Binding(s).last = s.last
       /\ \A r \in {"rpcc", "NULL"} :
            /\ Told(s, r) \in ThreadState /\ Told(s, r).pc = "have" /\ Told(s, r).h = s.h
            /\ Told(s, r).first = IF s.first = "none" THEN r ELSE s.first
            /\ Told(s, r).last = r
<1>1. \A i \in Info \cup {None} :
       /\ Having(i) \in ThreadState /\ Having(i).pc = "have" /\ Having(i).h = i
       /\ Having(i).first = "none" /\ Having(i).last = "none"
  BY Zenon DEF Idle, ThreadState, Answer, Having
<1>2. ASSUME NEW s \in ThreadState
      PROVE  /\ s.h \in Info \cup {None}
             /\ Binding(s) \in ThreadState /\ Binding(s).pc = "bind" /\ Binding(s).h = s.h
             /\ Binding(s).first = s.first /\ Binding(s).last = s.last
  BY Zenon DEF ThreadState, Binding
<1>3. ASSUME NEW s \in ThreadState, NEW r \in {"rpcc", "NULL"}
      PROVE  /\ Told(s, r) \in ThreadState /\ Told(s, r).pc = "have" /\ Told(s, r).h = s.h
             /\ Told(s, r).first = IF s.first = "none" THEN r ELSE s.first
             /\ Told(s, r).last = r
  BY Zenon DEF ThreadState, Answer, Told
<1>4. /\ Idle \in ThreadState /\ Idle.pc = "idle" /\ Idle.h = None
      /\ Idle.first = "none" /\ Idle.last = "none"
  BY Zenon DEF Idle, ThreadState, Answer
<1> QED
  BY <1>1, <1>2, <1>3, <1>4

(* The types, for a step that changes an hinfo, and one thread's state.    *)
LEMMA InfoRetyped ==
  ASSUME HandleTypeOK, NEW i \in Info, NEW x \in Hinfo, info' = [info EXCEPT ![i] = x]
  PROVE  /\ info' \in [Info -> Hinfo] /\ info'[i] = x
         /\ \A j \in Info \ {i} : info'[j] = info[j]
BY Zenon DEF HandleTypeOK

LEMMA ThreadRetyped ==
  ASSUME HandleTypeOK, NEW t \in Thread, NEW s \in ThreadState, th' = [th EXCEPT ![t] = s]
  PROVE  /\ th' \in [Thread -> ThreadState] /\ th'[t] = s
         /\ \A u \in Thread \ {t} : th'[u] = th[u]
BY Zenon DEF HandleTypeOK

LEMMA HandleInitial == HandleInit => HandleInv
BY HandleAssumption DEF HandleInit, HandleInv, HandleTypeOK, Idle, Fresh, Info, Hinfo,
     ThreadState, Answer, ThreadOK, MapOK

(* get_handle gives out the hinfo in hmap, counts the handle, and makes a  *)
(* hinfo only when there is none.                                          *)
LEMMA GetHandle == ASSUME HandleInv, NEW t \in Thread, get_handle(t) PROVE HandleInv'
<1> USE HandleAssumption DEF HandleInv, HandleTypeOK
<1>1. CASE /\ hmap = None /\ made < MaxInfo
           /\ made' = made + 1 /\ hmap' = made + 1
           /\ info' = [info EXCEPT ![made + 1] = Fresh]
           /\ th' = [th EXCEPT ![t] = Having(made + 1)]
  <2>1. made + 1 \in Info
    BY <1>1 DEF Info
  <2>2. /\ Fresh \in Hinfo /\ Fresh.refcnt = 1 /\ ~Fresh.freed /\ ~Fresh.del /\ ~Fresh.cl
        /\ Fresh.mutex = None
    BY Zenon DEF Fresh, Hinfo
  <2>3. info' \in [Info -> Hinfo] /\ info'[made + 1] = Fresh
    BY <1>1, <2>1, <2>2, InfoRetyped, Zenon
  <2>4. /\ th' \in [Thread -> ThreadState] /\ th'[t] = Having(made + 1)
        /\ \A u \in Thread \ {t} : th'[u] = th[u]
    BY <1>1, <2>1, ThreadRetyped, ThreadChanges, Zenon
  <2>5. HandleTypeOK'
    BY <1>1, <2>1, <2>3, <2>4
  <2>6. \A u \in Thread : th[u].h = None /\ th[u].pc # "bind" /\ th[u].first # "rpcc"
    BY <1>1, Zenon DEF ThreadOK
  <2>7. made + 1 # None
    BY <2>1 DEF Info
  <2>8. ASSUME NEW u \in Thread PROVE ThreadOK(u)'
    BY <1>1, <2>1, <2>4, <2>6, <2>7, ThreadChanges DEF ThreadOK
  <2>9. Holders(hmap)' = {t}
    BY <1>1, <2>1, <2>4, <2>6, <2>7, ThreadChanges DEF Holders
  <2>10. Cardinality(Holders(hmap)') = 1
    BY <2>9, FS_Singleton, SMTT(60)
  <2>11. MapOK'
    BY <1>1, <2>1, <2>2, <2>3, <2>10 DEF MapOK
  <2> QED
    BY <2>5, <2>8, <2>11, Zenon
<1>2. CASE /\ hmap # None /\ ~info[hmap].del /\ th[t].pc = "idle"
           /\ UNCHANGED <<hmap, made>>
           /\ info' = [info EXCEPT ![hmap] = Counted(info[hmap], 1)]
           /\ th' = [th EXCEPT ![t] = Having(hmap)]
  <2>1. hmap \in Info /\ info[hmap] \in Hinfo /\ info[hmap].refcnt + 1 \in Nat
    BY <1>2, HinfoChanges
  <2>2. info' \in [Info -> Hinfo] /\ info'[hmap] = Counted(info[hmap], 1)
    BY <1>2, <2>1, InfoRetyped, HinfoChanges
  <2>3. /\ th' \in [Thread -> ThreadState] /\ th'[t] = Having(hmap)
        /\ \A u \in Thread \ {t} : th'[u] = th[u]
    BY <1>2, <2>1, ThreadRetyped, ThreadChanges, Zenon
  <2>4. /\ info'[hmap].refcnt = info[hmap].refcnt + 1 /\ info'[hmap].mutex = info[hmap].mutex
        /\ info'[hmap].freed = info[hmap].freed
        /\ info'[hmap].cl = info[hmap].cl /\ info'[hmap].del = info[hmap].del
    BY <2>1, <2>2, HinfoChanges
  <2>5. ASSUME NEW u \in Thread PROVE ThreadOK(u)'
    BY <1>2, <2>3, <2>4, ThreadChanges DEF ThreadOK
  <2>6. Holders(hmap)' = Holders(hmap) \cup {t} /\ t \notin Holders(hmap)
    BY <1>2, <2>1, <2>3, ThreadChanges DEF ThreadOK, Holders
  <2>7. Cardinality(Holders(hmap)') = Cardinality(Holders(hmap)) + 1
    BY <2>6, HolderAdded, Holders(hmap) \subseteq Thread, Zenon DEF Holders
  <2>8. MapOK'
    BY <1>2, <2>1, <2>3, <2>4, <2>7, HinfoChanges DEF MapOK
  <2> QED
    BY <1>2, <2>2, <2>3, <2>5, <2>8, Zenon
<1>3. CASE /\ hmap # None /\ info[hmap].del /\ th[t].pc = "idle"
           /\ UNCHANGED <<hmap, info, made>>
           /\ th' = [th EXCEPT ![t] = Having(None)]
  <2>1. /\ th' \in [Thread -> ThreadState] /\ th'[t] = Having(None)
        /\ \A u \in Thread \ {t} : th'[u] = th[u]
    BY <1>3, ThreadRetyped, ThreadChanges, Zenon
  <2>2. ASSUME NEW u \in Thread PROVE ThreadOK(u)'
    BY <1>3, <2>1, ThreadChanges DEF ThreadOK
  <2>3. Holders(hmap)' = Holders(hmap)
    BY <1>3, <2>1, ThreadChanges DEF Holders, ThreadOK
  <2>4. MapOK'
    BY <1>3, <2>1, <2>3, HinfoChanges, Zenon DEF MapOK
  <2> QED
    BY <1>3, <2>1, <2>2, <2>4, Zenon
<1> QED
  BY <1>1, <1>2, <1>3, Zenon DEF get_handle

(* What safebind returns at once is what cl and del say; otherwise the     *)
(* thread takes the mutex and binds.                                       *)
LEMMA Safebind == ASSUME HandleInv, NEW t \in Thread, safebind(t) PROVE HandleInv'
<1> USE HandleAssumption DEF HandleInv, HandleTypeOK
<1>1. UNCHANGED <<hmap, made>>
  BY Zenon DEF safebind
<1>2. ASSUME NEW r \in {"rpcc", "NULL"}, th[t].pc = "have", Returned(t, r), UNCHANGED info,
             r = "rpcc" => th[t].h # None /\ info[th[t].h].cl,
             r = "NULL" /\ th[t].h # None => info[th[t].h].del
      PROVE  HandleInv'
  <2>1. /\ th' \in [Thread -> ThreadState] /\ th'[t] = Told(th[t], r)
        /\ \A u \in Thread \ {t} : th'[u] = th[u]
    BY <1>2, ThreadRetyped, ThreadChanges, Zenon DEF Returned
  <2>2. th[t].first # "none" => th[t].first = r
    <3>1. th[t].first \in Answer
      BY Zenon DEF ThreadState
    <3> QED
      BY <1>2, <3>1, Zenon DEF ThreadOK, MapOK, Answer
  <2>3. th'[t].h = th[t].h /\ th'[t].first = r /\ th'[t].last = r /\ th'[t].pc = "have"
    BY <2>1, <2>2, ThreadChanges
  <2>4. ASSUME NEW u \in Thread PROVE ThreadOK(u)'
    BY <1>1, <1>2, <2>1, <2>3 DEF ThreadOK
  <2>5. Holders(hmap)' = Holders(hmap)
    BY <1>1, <2>1, <2>3, Zenon DEF Holders
  <2>6. MapOK'
    BY <1>1, <1>2, <2>1, <2>5, HinfoChanges, SMTT(60) DEF MapOK
  <2> QED
    BY <1>1, <1>2, <2>1, <2>4, <2>6, Zenon
<1>3. CASE /\ th[t].h # None /\ ~info[th[t].h].del /\ ~info[th[t].h].cl
           /\ info[th[t].h].mutex = None /\ th[t].pc = "have"
           /\ info' = [info EXCEPT ![th[t].h] = Locked(info[th[t].h], t)]
           /\ th' = [th EXCEPT ![t] = Binding(th[t])]
  <2>1. th[t].h = hmap /\ hmap \in Info /\ info[hmap] \in Hinfo
    BY <1>3, ThreadChanges, Zenon DEF ThreadOK
  <2>2. /\ info' \in [Info -> Hinfo] /\ info'[hmap] = Locked(info[hmap], t)
    BY <1>3, <2>1, InfoRetyped, HinfoChanges, Zenon
  <2>3. /\ th' \in [Thread -> ThreadState] /\ th'[t] = Binding(th[t])
        /\ \A u \in Thread \ {t} : th'[u] = th[u]
    BY <1>3, ThreadRetyped, ThreadChanges, Zenon
  <2>4. /\ info'[hmap].refcnt = info[hmap].refcnt /\ info'[hmap].mutex = t
        /\ info'[hmap].freed = info[hmap].freed
        /\ info'[hmap].cl = info[hmap].cl /\ info'[hmap].del = info[hmap].del
    <3> DEFINE x == Locked(info[hmap], t)
    <3>1. /\ x.refcnt = info[hmap].refcnt /\ x.mutex = t /\ x.freed = info[hmap].freed
          /\ x.cl = info[hmap].cl /\ x.del = info[hmap].del
      BY <2>1, HinfoChanges
    <3> QED
      BY <2>2, <3>1, Zenon
  <2>5. ASSUME NEW u \in Thread PROVE ThreadOK(u)'
    BY <1>1, <1>3, <2>1, <2>3, <2>4, ThreadChanges DEF ThreadOK
  <2>6. Holders(hmap)' = Holders(hmap)
    BY <1>1, <2>3, ThreadChanges DEF Holders
  <2>7. MapOK'
    BY <1>1, <1>3, <2>1, <2>3, <2>4, <2>6, ThreadChanges DEF MapOK
  <2> QED
    BY <1>1, <2>2, <2>3, <2>5, <2>7, Zenon
<1> QED
  BY <1>2, <1>3, Zenon DEF safebind

(* A bind that ends sets one of cl and del, for all that wait for it.      *)
LEMMA BindResult == ASSUME HandleInv, NEW t \in Thread, bind_result(t) PROVE HandleInv'
<1> USE HandleAssumption DEF HandleInv, HandleTypeOK
<1>1. UNCHANGED <<hmap, made>> /\ th[t].pc = "bind" /\ th[t].h = hmap /\ hmap \in Info
  BY Zenon DEF ThreadOK, bind_result
<1>2. PICK ok \in BOOLEAN :
        /\ info' = [info EXCEPT ![hmap] = Bound(info[hmap], ok)]
        /\ Returned(t, IF ok THEN "rpcc" ELSE "NULL")
  BY <1>1, Zenon DEF bind_result
<1> DEFINE r == IF ok THEN "rpcc" ELSE "NULL"
<1>3. /\ info' \in [Info -> Hinfo] /\ info'[hmap] = Bound(info[hmap], ok)
  BY <1>1, <1>2, InfoRetyped, HinfoChanges
<1>4. /\ info'[hmap].refcnt = info[hmap].refcnt /\ info'[hmap].mutex = None
      /\ info'[hmap].freed = info[hmap].freed
      /\ info'[hmap].cl = ok /\ info'[hmap].del = ~ok
  <2> DEFINE x == Bound(info[hmap], ok)
  <2>1. info[hmap] \in Hinfo
    BY <1>1, Zenon
  <2>2. /\ x.refcnt = info[hmap].refcnt /\ x.mutex = None /\ x.freed = info[hmap].freed
        /\ x.cl = ok /\ x.del = ~ok
    BY <1>2, <2>1, Zenon DEF Hinfo, Bound
  <2> QED
    BY <1>3, <2>2, Zenon
<1>5. /\ th' \in [Thread -> ThreadState] /\ th'[t] = Told(th[t], r)
      /\ \A u \in Thread \ {t} : th'[u] = th[u]
  BY <1>2, ThreadRetyped, ThreadChanges, Zenon DEF Returned
<1>6. \A u \in Thread : th[u].h = hmap => th[u].first = "none"
  BY <1>1 DEF ThreadOK, MapOK, ThreadState, Answer
<1>7. th'[t].h = hmap /\ th'[t].first = r /\ th'[t].last = r /\ th'[t].pc = "have"
  BY <1>1, <1>5, <1>6, ThreadChanges
<1>8. ASSUME NEW u \in Thread PROVE ThreadOK(u)'
  <2>1. CASE u = t
    BY <1>1, <1>4, <1>7, <2>1, Zenon DEF ThreadOK
  <2>2. CASE u # t
    <3>1. th[u].pc # "bind"
      BY <1>1, <2>2, Zenon DEF ThreadOK
    <3> QED
      BY <1>1, <1>4, <1>5, <1>6, <2>2, <3>1 DEF ThreadOK
  <2> QED
    BY <2>1, <2>2, Zenon
<1>9. Holders(hmap)' = Holders(hmap) /\ t \in Holders(hmap)
  BY <1>1, <1>5, <1>7, Zenon DEF Holders
<1>10. Cardinality(Holders(hmap)) # 0
  BY <1>9, HolderRemoved, Holders(hmap) \subseteq Thread, Zenon DEF Holders
<1>11. MapOK'
  BY <1>1, <1>4, <1>9, <1>10, Zenon DEF MapOK
<1> QED
  BY <1>1, <1>3, <1>5, <1>8, <1>11, Zenon

(* The last handle of a failed hinfo frees it and empties hmap.            *)
LEMMA DoneHandle == ASSUME HandleInv, NEW t \in Thread, done_handle(t) PROVE HandleInv'
<1> USE HandleAssumption DEF HandleInv, HandleTypeOK
<1>1. th[t].pc = "have" /\ th' = [th EXCEPT ![t] = Idle] /\ made' = made
  BY Zenon DEF done_handle
<1>2. /\ th' \in [Thread -> ThreadState] /\ th'[t] = Idle
      /\ \A u \in Thread \ {t} : th'[u] = th[u]
  BY <1>1, ThreadRetyped, ThreadChanges, Zenon
<1>3. CASE th[t].h = None /\ UNCHANGED <<hmap, info>>
  <2>1. ASSUME NEW u \in Thread PROVE ThreadOK(u)'
    BY <1>1, <1>2, <1>3, ThreadChanges, Zenon DEF ThreadOK
  <2>2. hmap # None => Holders(hmap)' = Holders(hmap)
    BY <1>2, <1>3, ThreadChanges DEF Holders
  <2>3. MapOK'
    BY <1>1, <1>2, <1>3, <2>2, HinfoChanges, Zenon DEF MapOK
  <2> QED
    BY <1>1, <1>2, <1>3, <2>1, <2>3, Zenon
<1>4. CASE th[t].h # None
  <2>1. th[t].h = hmap /\ hmap \in Info /\ info[hmap] \in Hinfo
    BY <1>4, ThreadChanges, Zenon DEF ThreadOK
  <2>2. {u \in Thread : th'[u].h = hmap} = Holders(hmap) \ {t} /\ t \in Holders(hmap)
    BY <1>2, <1>4, <2>1, ThreadChanges DEF Holders
  <2>3. /\ Cardinality({u \in Thread : th'[u].h = hmap}) = info[hmap].refcnt - 1
        /\ info[hmap].refcnt \in Nat \ {0} /\ info[hmap].refcnt + (-1) = info[hmap].refcnt - 1
    BY <1>4, <2>1, <2>2, HolderRemoved, Holders(hmap) \subseteq Thread, Zenon DEF
       Holders, MapOK
  <2>4. info[hmap].mutex # t
    BY <1>1, <1>4, <2>1, Zenon DEF MapOK
  <2>5. CASE Unused(hmap) /\ hmap' = None /\ info' = [info EXCEPT ![hmap] = Freed(info[hmap])]
    <3>1. {u \in Thread : th'[u].h = hmap} = {}
      <4>1. Cardinality({u \in Thread : th'[u].h = hmap}) = 0
        BY <2>3, <2>5 DEF Unused
      <4> QED
        BY <4>1, FS_Subset, FS_EmptySet, {u \in Thread : th'[u].h = hmap} \subseteq
           Thread, Zenon
    <3>2. \A u \in Thread : th'[u].h = None
      BY <1>2, <2>1, <3>1, ThreadChanges DEF ThreadOK
    <3>3. info' \in [Info -> Hinfo]
      <4>1. Freed(info[hmap]) \in Hinfo
        BY <2>1, <2>3, HinfoChanges
      <4> QED
        BY <4>1, <2>1, <2>5, InfoRetyped, Zenon
    <3>4. ASSUME NEW u \in Thread PROVE ThreadOK(u)'
      BY <1>1, <1>2, <2>1, <2>4, <2>5, <3>2, ThreadChanges DEF ThreadOK, MapOK
    <3> QED
      BY <1>1, <1>2, <2>5, <3>3, <3>4, Zenon DEF MapOK
  <2>6. CASE /\ ~Unused(hmap) /\ hmap' = hmap
             /\ info' = [info EXCEPT ![hmap] = Counted(info[hmap], -1)]
    <3>1. /\ info' \in [Info -> Hinfo] /\ info'[hmap].refcnt = info[hmap].refcnt - 1
          /\ info'[hmap].mutex = info[hmap].mutex /\ info'[hmap].freed = info[hmap].freed
          /\ info'[hmap].cl = info[hmap].cl /\ info'[hmap].del = info[hmap].del
      <4> DEFINE x == Counted(info[hmap], -1)
      <4>1. /\ x \in Hinfo /\ x.refcnt = info[hmap].refcnt - 1 /\ x.mutex = info[hmap].mutex
            /\ x.freed = info[hmap].freed /\ x.cl = info[hmap].cl /\ x.del = info[hmap].del
        BY <2>1, <2>3, HinfoChanges
      <4>2. info' \in [Info -> Hinfo] /\ info'[hmap] = x
        BY <4>1, <2>1, <2>6, InfoRetyped, Zenon
      <4> QED
        BY <4>1, <4>2, Zenon
    <3>2. ASSUME NEW u \in Thread PROVE ThreadOK(u)'
      BY <1>1, <1>2, <2>1, <2>6, <3>1, ThreadChanges DEF ThreadOK
    <3>3. Holders(hmap)' = {u \in Thread : th'[u].h = hmap}
      BY <2>6, Zenon DEF Holders
    <3>4. MapOK'
      BY <1>1, <1>2, <1>4, <2>1, <2>3, <2>4, <2>6, <3>1, <3>3, HinfoChanges DEF MapOK,
         Unused
    <3> QED
      BY <1>1, <1>2, <2>6, <3>1, <3>2, <3>4, Zenon
  <2> QED
    BY <1>4, <2>1, <2>5, <2>6, Zenon DEF done_handle
<1> QED
  BY <1>3, <1>4, Zenon DEF done_handle

(* Every step of the handle cache keeps HandleInv.                         *)
LEMMA HandleStep == HandleInv /\ [HandleNext]_hVars => HandleInv'
<1>1. HandleInv /\ UNCHANGED hVars => HandleInv'
  BY DEF hVars, HandleInv, HandleTypeOK, ThreadOK, MapOK, Holders
<1> QED
  BY <1>1, GetHandle, Safebind, BindResult, DoneHandle, Zenon DEF HandleNext

(* The invariant implies what handle.h promises, that nothing is freed     *)
(* while held, and that a failed destination is bound anew.                *)
LEMMA HandlePromises == HandleInv => SafebindStable /\ NoFreedHandle /\ FailureForgotten
<1> SUFFICES ASSUME HandleInv PROVE SafebindStable /\ NoFreedHandle /\ FailureForgotten
  OBVIOUS
<1>1. SafebindStable /\ NoFreedHandle
  BY Zenon DEF HandleInv, HandleTypeOK, ThreadOK, MapOK, SafebindStable, NoFreedHandle
<1>2. ASSUME \A t \in Thread : th[t].pc = "idle", hmap # None
      PROVE  info[hmap].refcnt = 0 /\ ~info[hmap].del
  <2>1. Holders(hmap) = {}
    BY <1>2, ThreadChanges DEF HandleInv, ThreadOK, Holders
  <2> QED
    BY <1>2, <2>1, FS_EmptySet, Zenon DEF HandleInv, MapOK
<1> QED
  BY <1>1, <1>2, Zenon DEF FailureForgotten

(* refcnt, cl, del and mutex agree with what the threads hold and were     *)
(* told, in every reachable state, and the three promises are kept.        *)
THEOREM HandleCorrect ==
  HandleSpec => [](HandleInv /\ SafebindStable /\ NoFreedHandle /\ FailureForgotten)
BY HandleInitial, HandleStep, HandlePromises, PTL DEF HandleSpec

-----------------------------------------------------------------------------
(* The elements of a queue after one is added, and before one is taken.    *)
LEMMA Pushed ==
  ASSUME NEW S, NEW s \in Seq(S), NEW e \in S
  PROVE  /\ Append(s, e) \in Seq(S) /\ Len(Append(s, e)) = Len(s) + 1
         /\ DOMAIN s = 1..Len(s) /\ DOMAIN Append(s, e) = 1..Len(s) + 1
         /\ Append(s, e)[Len(s) + 1] = e
         /\ \A i \in DOMAIN s : Append(s, e)[i] = s[i]
         /\ Range(Append(s, e)) = Range(s) \cup {e}
<1>1. /\ Append(s, e) \in Seq(S) /\ Len(Append(s, e)) = Len(s) + 1 /\ Len(s) \in Nat
      /\ DOMAIN s = 1..Len(s) /\ DOMAIN Append(s, e) = 1..Len(s) + 1
      /\ Append(s, e)[Len(s) + 1] = e
      /\ \A i \in DOMAIN s : Append(s, e)[i] = s[i]
  OBVIOUS
<1>2. ASSUME NEW i \in DOMAIN Append(s, e) PROVE Append(s, e)[i] \in Range(s) \cup {e}
  BY <1>1 DEF Range
<1>3. e \in Range(Append(s, e))
  BY <1>1 DEF Range
<1>4. ASSUME NEW i \in DOMAIN s PROVE s[i] \in Range(Append(s, e))
  BY <1>1 DEF Range
<1> QED
  BY <1>1, <1>2, <1>3, <1>4, Zenon DEF Range

LEMMA Popped ==
  ASSUME NEW S, NEW s \in Seq(S), s # <<>>
  PROVE  /\ Tail(s) \in Seq(S) /\ Head(s) \in S /\ Head(s) = s[1] /\ Len(Tail(s)) = Len(s) - 1
         /\ DOMAIN s = 1..Len(s) /\ DOMAIN Tail(s) = 1..(Len(s) - 1) /\ Len(s) \in Nat \ {0}
         /\ \A i \in DOMAIN Tail(s) : Tail(s)[i] = s[i + 1] /\ i + 1 \in DOMAIN s
         /\ Range(s) = Range(Tail(s)) \cup {Head(s)}
<1>1. /\ Tail(s) \in Seq(S) /\ Head(s) \in S /\ Head(s) = s[1] /\ Len(Tail(s)) = Len(s) - 1
      /\ DOMAIN s = 1..Len(s) /\ DOMAIN Tail(s) = 1..(Len(s) - 1) /\ Len(s) \in Nat \ {0}
  OBVIOUS
<1>2. \A i \in DOMAIN Tail(s) : Tail(s)[i] = s[i + 1] /\ i + 1 \in DOMAIN s
  BY <1>1
<1>3. ASSUME NEW i \in DOMAIN s PROVE s[i] \in Range(Tail(s)) \cup {Head(s)}
  <2>1. CASE i = 1
    BY <1>1, <2>1, Zenon
  <2>2. CASE i # 1
    <3>1. i - 1 \in DOMAIN Tail(s) /\ Tail(s)[i - 1] = s[i]
      BY <1>1, <1>2, <2>2
    <3> QED
      BY <3>1, Zenon DEF Range
  <2> QED
    BY <2>1, <2>2, Zenon
<1>4. Head(s) \in Range(s)
  BY <1>1 DEF Range
<1>5. ASSUME NEW i \in DOMAIN Tail(s) PROVE Tail(s)[i] \in Range(s)
  BY <1>2, Zenon DEF Range
<1> QED
  BY <1>1, <1>2, <1>3, <1>4, <1>5 DEF Range

(* What the types say of each thread.                                      *)
LEMMA Types ==
  ASSUME TypeOK
  PROVE  /\ \A w \in Worker : worker[w].pc \in {"deq", "wait", "run", "exit"}
         /\ \A a \in Enqueuer :
              /\ enqueuer[a].pc \in {"idle", "enq", "wait", "join", "joined"}
              /\ enqueuer[a].job \in Job \cup {Pill}
         /\ \A w \in Worker, j \in Job \cup {Pill}, p \in {"deq", "wait", "run", "exit"} :
              LET f == [worker EXCEPT ![w] = At(p, j)]
              IN /\ f \in [Worker -> WorkerState] /\ f[w].pc = p /\ f[w].job = j
                 /\ \A v \in Worker \ {w} : f[v] = worker[v]
         /\ \A a \in Enqueuer, j \in Job \cup {Pill}, p \in {"idle", "enq", "wait", "join", "joined"} :
              LET f == [enqueuer EXCEPT ![a] = At(p, j)]
              IN /\ f \in [Enqueuer -> EnqueuerState] /\ f[a].pc = p /\ f[a].job = j
                 /\ \A b \in Enqueuer \ {a} : f[b] = enqueuer[b]
BY DEF TypeOK, WorkerState, EnqueuerState, At

(* pthread_cond_signal moves at most one waiting thread on, and nothing    *)
(* else of any thread changes.                                             *)
LEMMA WorkerSignalled ==
  ASSUME TypeOK, worker' \in Signal(worker, "deq")
  PROVE  /\ worker' \in [Worker -> WorkerState]
         /\ \A w \in Worker : worker'[w].pc = worker[w].pc \/ worker'[w].pc = "deq"
<1>1. CASE worker' = worker
  BY <1>1, Zenon DEF TypeOK
<1>2. ASSUME NEW t \in Worker, worker' = [worker EXCEPT ![t].pc = "deq"]
      PROVE  /\ worker' \in [Worker -> WorkerState]
             /\ \A w \in Worker : worker'[w].pc = worker[w].pc \/ worker'[w].pc = "deq"
  BY <1>2, Zenon DEF TypeOK, WorkerState
<1>3. DOMAIN worker = Worker
  BY Zenon DEF TypeOK
<1> QED
  BY <1>1, <1>2, <1>3, Zenon DEF Signal

LEMMA EnqueuerSignalled ==
  ASSUME TypeOK, enqueuer' \in Signal(enqueuer, "enq")
  PROVE  /\ enqueuer' \in [Enqueuer -> EnqueuerState]
         /\ \A a \in Enqueuer :
              /\ enqueuer'[a].job = enqueuer[a].job
              /\ \/ enqueuer'[a].pc = enqueuer[a].pc
                 \/ enqueuer[a].pc = "wait" /\ enqueuer'[a].pc = "enq"
<1>1. CASE enqueuer' = enqueuer
  BY <1>1, Zenon DEF TypeOK
<1>2. ASSUME NEW t \in Enqueuer, enqueuer[t].pc = "wait", enqueuer' = [enqueuer EXCEPT ![t].pc = "enq"]
      PROVE  /\ enqueuer' \in [Enqueuer -> EnqueuerState]
             /\ \A a \in Enqueuer :
                  /\ enqueuer'[a].job = enqueuer[a].job
                  /\ \/ enqueuer'[a].pc = enqueuer[a].pc
                     \/ enqueuer[a].pc = "wait" /\ enqueuer'[a].pc = "enq"
  BY <1>2, Zenon DEF TypeOK, EnqueuerState
<1>3. DOMAIN enqueuer = Enqueuer
  BY Zenon DEF TypeOK
<1> QED
  BY <1>1, <1>2, <1>3, Zenon DEF Signal

LEMMA PoolInitial == Init => PoolInv
<1> SUFFICES ASSUME Init PROVE PoolInv
  OBVIOUS
<1>1. TypeOK
  BY PoolAssumption, FS_CardinalityType
     DEF Init, TypeOK, WorkerState, EnqueuerState, At, Job, Pill
<1>2. Taken = {} /\ Queued = {} /\ DOMAIN q_ = {} /\ DOMAIN run = {}
  BY DEF Init, Taken, Queued, Range
<1> QED
  BY <1>1, <1>2, Zenon DEF PoolInv, Init, QueueOK, AdderOK, DestructorOK, At, Pending,
     Enqueuer

(* A job is numbered after all those offered before it.                    *)
LEMMA Offered == ASSUME PoolInv, NEW a \in Adder, addObjJob(a) PROVE PoolInv'
<1> USE PoolAssumption DEF PoolInv
<1>1. /\ UNCHANGED <<blockadd_, q_, worker, accepted, run, pills>>
      /\ offered' = offered + 1 /\ offered' \in Job /\ offered \in Nat
      /\ enqueuer' = [enqueuer EXCEPT ![a] = At("enq", offered')]
      /\ enqueuer[Destructor].pc = "idle" /\ a \in Enqueuer /\ a # Destructor
      /\ Destructor \in Enqueuer
  BY DEF addObjJob, TypeOK, Job, Enqueuer
<1>2. /\ enqueuer' \in [Enqueuer -> EnqueuerState]
      /\ enqueuer'[a].pc = "enq" /\ enqueuer'[a].job = offered'
      /\ \A b \in Enqueuer \ {a} : enqueuer'[b] = enqueuer[b]
  BY <1>1, Types
<1>3. TypeOK'
  BY <1>1, <1>2 DEF TypeOK, Job
<1>4. QueueOK'
  BY <1>1 DEF QueueOK, Taken, Queued
<1>5. ASSUME NEW b \in Adder PROVE AdderOK(b)'
  <2>1. accepted \subseteq 1..offered /\ \A c \in Adder : Pending(c) => enqueuer[c].job \in 1..offered
    BY Zenon DEF QueueOK, AdderOK
  <2> QED
    BY <1>1, <1>2, <2>1 DEF AdderOK, Pending, Enqueuer
<1>6. DestructorOK'
  BY <1>1, <1>2, Zenon DEF DestructorOK, Pending, Queued
<1> QED
  BY <1>3, <1>4, <1>5, <1>6, Zenon

(* The destructor starts when nobody adds.                                 *)
LEMMA Destroyed == ASSUME PoolInv, Destroy PROVE PoolInv'
<1> USE PoolAssumption DEF PoolInv
<1>1. /\ UNCHANGED <<blockadd_, q_, worker, offered, accepted, run, pills>>
      /\ enqueuer' = [enqueuer EXCEPT ![Destructor] = At("enq", Pill)]
      /\ Destructor \in Enqueuer /\ \A a \in Enqueuer : enqueuer[a].pc = "idle"
  BY Zenon DEF Destroy, Enqueuer
<1>2. /\ enqueuer' \in [Enqueuer -> EnqueuerState]
      /\ enqueuer'[Destructor].pc = "enq" /\ enqueuer'[Destructor].job = Pill
      /\ \A b \in Enqueuer \ {Destructor} : enqueuer'[b] = enqueuer[b]
  BY <1>1, Types
<1>3. TypeOK'
  BY <1>1, <1>2, Zenon DEF TypeOK
<1>31. QueueOK'
  BY <1>1, Zenon DEF QueueOK, Taken, Queued
<1>4. ASSUME NEW b \in Adder PROVE AdderOK(b)'
  BY <1>1, <1>2, Zenon DEF AdderOK, Pending, Enqueuer
<1>5. Cardinality(Worker) > 0
  BY FS_EmptySet, FS_CardinalityType
<1>6. DestructorOK'
  BY <1>1, <1>2, <1>5, SMTT(60) DEF DestructorOK, Pending, Queued
<1> QED
  BY <1>3, <1>31, <1>4, <1>6, Zenon

(* An adder's job goes behind the others and counts as accepted.           *)
LEMMA JobPushed == ASSUME PoolInv, NEW a \in Adder, enq_push(a) PROVE PoolInv'
<1> USE PoolAssumption DEF PoolInv
<1> DEFINE j == enqueuer[a].job
<1>1. /\ Pending(a) /\ a \in Enqueuer /\ a # Destructor /\ Destructor \in Enqueuer
      /\ enqueuer[Destructor].pc = "idle" /\ j \in (1..offered) \ accepted /\ j \in Job /\ j # Pill
      /\ Len(q_) < max_
  BY Types DEF enq_push, Full, Pending, AdderOK, TypeOK, Job, Pill, Enqueuer
<1>2. /\ q_' = Append(q_, j) /\ worker' \in Signal(worker, "deq")
      /\ enqueuer' = [enqueuer EXCEPT ![a] = At("idle", Pill)]
      /\ accepted' = accepted \cup {j} /\ pills' = pills /\ UNCHANGED <<blockadd_, offered, run>>
  BY <1>1, Zenon DEF enq_push
<1>3. /\ enqueuer' \in [Enqueuer -> EnqueuerState] /\ enqueuer'[a].pc = "idle"
      /\ \A b \in Enqueuer \ {a} : enqueuer'[b] = enqueuer[b]
  BY <1>1, <1>2, Types
<1>4. /\ worker' \in [Worker -> WorkerState]
      /\ \A w \in Worker : worker'[w].pc = worker[w].pc \/ worker'[w].pc = "deq"
  BY <1>2, WorkerSignalled, Zenon
<1>5. /\ q_' \in Seq(Job \cup {Pill}) /\ Len(q_') = Len(q_) + 1
      /\ DOMAIN q_ = 1..Len(q_) /\ DOMAIN q_' = 1..Len(q_) + 1 /\ Len(q_) \in Nat
      /\ q_'[Len(q_) + 1] = j /\ \A i \in DOMAIN q_ : q_'[i] = q_[i]
      /\ Range(q_') = Range(q_) \cup {j}
  <2>1. q_ \in Seq(Job \cup {Pill}) /\ j \in Job \cup {Pill} /\ Len(q_) \in Nat
    BY <1>1 DEF TypeOK
  <2>2. q_' = Append(q_, j)
    BY <1>2, Zenon
  <2> HIDE DEF j
  <2> QED
    BY <2>1, <2>2, Pushed
<1>6. Queued' = Queued \cup {j} /\ Taken' = Taken
  BY <1>1, <1>2, <1>5, Zenon DEF Queued, Taken
<1>7. TypeOK'
  BY <1>1, <1>2, <1>3, <1>4, <1>5 DEF TypeOK
<1>8. QueueOK'
  <2>1. /\ accepted' = Taken' \cup Queued' /\ Taken' \cap Queued' = {} /\ accepted' \subseteq 1..offered'
    BY <1>1, <1>2, <1>6, Zenon DEF QueueOK
  <2>2. \A i \in DOMAIN q_ : q_[i] # j /\ q_[i] # Pill
    BY <1>1, Zenon DEF QueueOK, Queued, Range, DestructorOK
  <2>3. \A i, k \in DOMAIN q_' : i # k /\ q_'[i] # Pill => q_'[i] # q_'[k]
    BY <1>5, <2>2 DEF QueueOK
  <2>4. \A i \in DOMAIN q_' : q_'[i] # Pill
    BY <1>1, <1>5, <2>2
  <2> QED
    BY <1>2, <2>1, <2>3, <2>4 DEF QueueOK
<1>9. ASSUME NEW b \in Adder PROVE AdderOK(b)'
  BY <1>1, <1>2, <1>3, Zenon DEF AdderOK, Pending, Enqueuer
<1>10. DestructorOK'
  BY <1>1, <1>2, <1>3, <1>4, <1>5, SMTT(60) DEF DestructorOK, Pending
<1> QED
  BY <1>7, <1>8, <1>9, <1>10

(* The destructor's pill goes behind everything.                           *)
LEMMA PillPushed == ASSUME PoolInv, enq_push(Destructor) PROVE PoolInv'
<1> USE PoolAssumption DEF PoolInv
<1> DEFINE p == IF pills + 1 = Cardinality(Worker) THEN "join" ELSE "enq"
<1>1. /\ Pending(Destructor) /\ Destructor \in Enqueuer /\ enqueuer[Destructor].job = Pill
      /\ pills < Cardinality(Worker) /\ Cardinality(Worker) \in Nat /\ pills \in Nat
      /\ Len(q_) < max_
  BY Types, FS_CardinalityType DEF enq_push, Full, Pending, DestructorOK, TypeOK, Enqueuer
<1>2. /\ q_' = Append(q_, Pill) /\ worker' \in Signal(worker, "deq")
      /\ enqueuer' = [enqueuer EXCEPT ![Destructor] = At(p, Pill)]
      /\ accepted' = accepted /\ pills' = pills + 1 /\ UNCHANGED <<blockadd_, offered, run>>
  BY <1>1, Zenon DEF enq_push
<1>3. /\ enqueuer' \in [Enqueuer -> EnqueuerState]
      /\ enqueuer'[Destructor].pc = p /\ enqueuer'[Destructor].job = Pill
      /\ \A b \in Enqueuer \ {Destructor} : enqueuer'[b] = enqueuer[b]
  <2>1. CASE p = "join" /\ enqueuer' = [enqueuer EXCEPT ![Destructor] = At("join", Pill)]
    BY <1>1, <2>1, Types
  <2>2. CASE p = "enq" /\ enqueuer' = [enqueuer EXCEPT ![Destructor] = At("enq", Pill)]
    BY <1>1, <2>2, Types, SMTT(60)
  <2> QED
    BY <1>2, <2>1, <2>2, Zenon
<1>4. /\ worker' \in [Worker -> WorkerState]
      /\ \A w \in Worker : worker'[w].pc = worker[w].pc \/ worker'[w].pc = "deq"
  BY <1>2, WorkerSignalled, Zenon
<1>5. /\ q_' \in Seq(Job \cup {Pill}) /\ Len(q_') = Len(q_) + 1
      /\ DOMAIN q_ = 1..Len(q_) /\ DOMAIN q_' = 1..Len(q_) + 1 /\ Len(q_) \in Nat
      /\ q_'[Len(q_) + 1] = Pill /\ \A i \in DOMAIN q_ : q_'[i] = q_[i]
      /\ Range(q_') = Range(q_) \cup {Pill}
  BY <1>2, q_ \in Seq(Job \cup {Pill}), Pill \in Job \cup {Pill}, Pushed, SMTT(60) DEF
     TypeOK
<1>6. Queued' = Queued /\ Taken' = Taken
  BY <1>2, <1>5, Zenon DEF Queued, Taken
<1>7. TypeOK'
  BY <1>1, <1>2, <1>3, <1>4, <1>5 DEF TypeOK
<1>8. QueueOK'
  <2>1. \A i, k \in DOMAIN q_' : i # k /\ q_'[i] # Pill => q_'[i] # q_'[k]
    BY <1>5 DEF QueueOK
  <2>2. \A i, k \in DOMAIN q_' : i < k /\ q_'[i] = Pill => q_'[k] = Pill
    BY <1>5 DEF QueueOK
  <2> QED
    BY <1>2, <1>6, <2>1, <2>2, Zenon DEF QueueOK
<1>9. ASSUME NEW b \in Adder PROVE AdderOK(b)'
  BY <1>1, <1>2, <1>3, Zenon DEF AdderOK, Pending, Enqueuer
<1>10. DestructorOK'
  BY <1>1, <1>2, <1>3, <1>4, <1>6 DEF DestructorOK, Pending
<1> QED
  BY <1>7, <1>8, <1>9, <1>10, Zenon

(* A full queue makes a thread wait or give up; neither is an acceptance.  *)
LEMMA QueueFull == ASSUME PoolInv, NEW a \in Enqueuer, enq_full(a) PROVE PoolInv'
<1> USE PoolAssumption DEF PoolInv
<1>1. /\ UNCHANGED <<blockadd_, q_, worker, offered, accepted, run, pills>>
      /\ enqueuer[a].pc = "enq" /\ enqueuer[a].job \in Job \cup {Pill} /\ Pill \in Job \cup {Pill}
      /\ \/ enqueuer' = [enqueuer EXCEPT ![a] = At("wait", enqueuer[a].job)]
         \/ a # Destructor /\ enqueuer' = [enqueuer EXCEPT ![a] = At("idle", Pill)]
  BY Types, Zenon DEF enq_full
<1>2. /\ enqueuer' \in [Enqueuer -> EnqueuerState]
      /\ \/ enqueuer'[a].pc = "wait" /\ enqueuer'[a].job = enqueuer[a].job
         \/ enqueuer'[a].pc = "idle" /\ a # Destructor
      /\ \A b \in Enqueuer \ {a} : enqueuer'[b] = enqueuer[b]
  BY <1>1, Types
<1>3. TypeOK'
  BY <1>1, <1>2, Zenon DEF TypeOK
<1>4. QueueOK'
  BY <1>1, Zenon DEF QueueOK, Taken, Queued
<1>5. ASSUME NEW b \in Adder PROVE AdderOK(b)'
  BY <1>1, <1>2 DEF AdderOK, Pending, Enqueuer
<1>6. DestructorOK'
  BY <1>1, <1>2, Zenon DEF DestructorOK, Pending, Queued, Enqueuer
<1> QED
  BY <1>3, <1>4, <1>5, <1>6, Zenon

(* A worker takes the oldest entry; on a pill it leaves, and then nothing  *)
(* but pills is queued.                                                    *)
LEMMA Dequeued == ASSUME PoolInv, NEW w \in Worker, deq(w) PROVE PoolInv'
<1> USE PoolAssumption DEF PoolInv
<1> DEFINE j == Head(q_)
           p == IF j = Pill THEN "exit" ELSE "run"
<1>1. /\ q_ # <<>> /\ q_' = Tail(q_) /\ worker' = [worker EXCEPT ![w] = At(p, j)]
      /\ run' = IF j = Pill THEN run ELSE Append(run, j)
      /\ enqueuer' = enqueuer \/ enqueuer' \in Signal(enqueuer, "enq")
      /\ UNCHANGED <<blockadd_, offered, accepted, pills>>
  BY Zenon DEF deq
<1>2. q_ \in Seq(Job \cup {Pill}) /\ run \in Seq(Job)
  BY Zenon DEF TypeOK
<1>3. /\ q_' \in Seq(Job \cup {Pill}) /\ j \in Job \cup {Pill} /\ j = q_[1] /\ Len(q_') = Len(q_) - 1
      /\ DOMAIN q_ = 1..Len(q_) /\ DOMAIN q_' = 1..(Len(q_) - 1) /\ Len(q_) \in Nat \ {0}
      /\ \A i \in DOMAIN q_' : q_'[i] = q_[i + 1] /\ i + 1 \in DOMAIN q_
      /\ Range(q_) = Range(q_') \cup {j}
  BY <1>1, <1>2, Popped, Zenon
<1>4. /\ enqueuer' \in [Enqueuer -> EnqueuerState]
      /\ \A a \in Enqueuer :
           /\ enqueuer'[a].job = enqueuer[a].job
           /\ \/ enqueuer'[a].pc = enqueuer[a].pc
              \/ enqueuer[a].pc = "wait" /\ enqueuer'[a].pc = "enq"
  BY <1>1, EnqueuerSignalled, Zenon DEF TypeOK
<1>5. /\ worker' \in [Worker -> WorkerState] /\ worker'[w].pc = p
      /\ \A v \in Worker \ {w} : worker'[v] = worker[v]
  <2>1. p \in {"exit", "run"} /\ worker' = [worker EXCEPT ![w] = At(p, j)]
    BY <1>1, Zenon
  <2> HIDE DEF p, j
  <2> QED
    BY <1>3, <2>1, Types
<1>6. \A i \in DOMAIN q_' : j # Pill => q_'[i] # j
  BY <1>3 DEF QueueOK
<1>7. j = Pill => \A i \in DOMAIN q_' : q_'[i] = Pill
  BY <1>3 DEF QueueOK
<1>8. /\ run' \in Seq(Job)
      /\ j = Pill => run' = run
      /\ j # Pill => /\ DOMAIN run = 1..Len(run) /\ DOMAIN run' = 1..Len(run) + 1 /\ Len(run) \in Nat
                     /\ run'[Len(run) + 1] = j /\ (\A i \in DOMAIN run : run'[i] = run[i])
                     /\ Range(run') = Range(run) \cup {j}
  <2>1. CASE j = Pill
    BY <1>1, <1>2, <2>1, Zenon
  <2>2. CASE j # Pill
    <3>1. j \in Job /\ run' = Append(run, j) /\ Len(run) \in Nat
      BY <1>1, <1>2, <1>3, <2>2
    <3> HIDE DEF j
    <3> QED
      BY <1>2, <3>1, <2>2, Pushed
  <2> QED
    BY <2>1, <2>2, Zenon
<1> HIDE DEF j
<1>9. /\ Queued' = Queued \ {j}
      /\ j # Pill => j \in Queued
      /\ Taken' = IF j = Pill THEN Taken ELSE Taken \cup {j}
  <2>1. j \notin Range(q_') \/ j = Pill
    BY <1>6, Zenon DEF Range
  <2> QED
    BY <1>3, <1>8, <2>1, Zenon DEF Queued, Taken
<1>10. TypeOK'
  BY <1>1, <1>3, <1>4, <1>5, <1>8, SMTT(60) DEF TypeOK
<1>11. QueueOK'
  <2>1. /\ accepted' = Taken' \cup Queued' /\ Taken' \cap Queued' = {} /\ accepted' \subseteq 1..offered'
    BY <1>1, <1>9, Zenon DEF QueueOK, Queued
  <2>2. \A i, k \in DOMAIN run' : i # k => run'[i] # run'[k]
    <3>1. CASE j = Pill
      BY <1>8, <3>1, Zenon DEF QueueOK
    <3>2. CASE j # Pill
      <4>1. \A i \in DOMAIN run : run[i] # j
        BY <1>9, <3>2, Zenon DEF QueueOK, Taken, Range
      <4> QED
        BY <1>8, <3>2, <4>1 DEF QueueOK
    <3> QED
      BY <3>1, <3>2, Zenon
  <2>3. \A i, k \in DOMAIN q_' : i # k /\ q_'[i] # Pill => q_'[i] # q_'[k]
    BY <1>3 DEF QueueOK
  <2>4. \A i, k \in DOMAIN q_' : i < k /\ q_'[i] = Pill => q_'[k] = Pill
    BY <1>3 DEF QueueOK
  <2> QED
    BY <2>1, <2>2, <2>3, <2>4, SMTT(60) DEF QueueOK
<1>12. ASSUME NEW b \in Adder PROVE AdderOK(b)'
  BY <1>1, <1>4, SMTT(60) DEF AdderOK, Pending, Enqueuer
<1>13. DestructorOK'
  <2>1. Destructor \in Enqueuer
    BY Zenon DEF Enqueuer
  <2>2. j = Pill => Queued' = {} /\ enqueuer[Destructor].pc # "idle"
    <3>1. j = Pill => Queued' = {}
      BY <1>7, Zenon DEF Queued, Range
    <3>2. 1 \in DOMAIN q_ /\ q_[1] = j
      BY <1>3
    <3> QED
      BY <3>1, <3>2, Zenon DEF DestructorOK
  <2>3. enqueuer'[Destructor].pc = "idle" =>
          (\A i \in DOMAIN q_' : q_'[i] # Pill) /\ (\A v \in Worker : worker'[v].pc # "exit")
    BY <1>3, <1>4, <1>5, <2>1, <2>2 DEF DestructorOK
  <2>4. \A v \in Worker : worker'[v].pc = "exit" => Queued' = {}
    BY <1>5, <1>9, <2>2, Zenon DEF DestructorOK
  <2>5. /\ enqueuer'[Destructor].job = Pill
        /\ Pending(Destructor)' => pills' < Cardinality(Worker)
        /\ enqueuer'[Destructor].pc = "idle" => pills' = 0
        /\ enqueuer'[Destructor].pc = "joined" => Queued' = {}
    BY <1>1, <1>4, <1>9, <2>1, Zenon DEF DestructorOK, Pending
  <2> QED
    BY <2>3, <2>4, <2>5, Zenon DEF DestructorOK
<1> QED
  BY <1>10, <1>11, <1>12, <1>13, Zenon

(* A worker that waits, wakes, or ends a job, and nothing else changes.    *)
LEMMA WorkerMoved ==
  ASSUME PoolInv, NEW w \in Worker, worker' \in [Worker -> WorkerState],
         \A v \in Worker : worker'[v].pc = "exit" => worker[v].pc = "exit",
         UNCHANGED <<blockadd_, q_, enqueuer, offered, accepted, run, pills>>
  PROVE  PoolInv'
<1> USE DEF PoolInv
<1>1. TypeOK'
  BY Zenon DEF TypeOK
<1>2. QueueOK'
  BY Zenon DEF QueueOK, Taken, Queued
<1>3. \A a \in Adder : AdderOK(a)'
  BY Zenon DEF AdderOK, Pending
<1>4. DestructorOK'
  BY Zenon DEF DestructorOK, Pending, Queued
<1> QED
  BY <1>1, <1>2, <1>3, <1>4, Zenon

LEMMA WorkerSteps ==
  ASSUME PoolInv, NEW w \in Worker,
         \/ deq_empty(w) \/ JobDone(w)
         \/ /\ worker[w].pc = "wait" /\ worker' = [worker EXCEPT ![w].pc = "deq"]
            /\ UNCHANGED <<blockadd_, q_, enqueuer, offered, accepted, run, pills>>
  PROVE  PoolInv'
<1>1. /\ worker' \in [Worker -> WorkerState]
      /\ \A v \in Worker : worker'[v].pc = "exit" => worker[v].pc = "exit"
      /\ UNCHANGED <<blockadd_, q_, enqueuer, offered, accepted, run, pills>>
  <2>1. CASE JobDone(w)
    BY <2>1, Types, Pill \in Job \cup {Pill} DEF JobDone, PoolInv
  <2>2. ASSUME NEW p \in {"deq", "wait"}, worker' = [worker EXCEPT ![w].pc = p]
        PROVE  /\ worker' \in [Worker -> WorkerState]
               /\ \A v \in Worker : worker'[v].pc = "exit" => worker[v].pc = "exit"
    BY <2>2, Zenon DEF PoolInv, TypeOK, WorkerState
  <2> QED
    BY <2>1, <2>2, Zenon DEF deq_empty
<1> QED
  BY <1>1, WorkerMoved, Zenon

(* When all workers have left, only pills are queued.                      *)
LEMMA Joined == ASSUME PoolInv, Join PROVE PoolInv'
<1> USE PoolAssumption DEF PoolInv
<1>1. /\ enqueuer[Destructor].pc = "join" /\ Destructor \in Enqueuer
      /\ enqueuer' = [enqueuer EXCEPT ![Destructor].pc = "joined"]
      /\ UNCHANGED <<blockadd_, q_, worker, offered, accepted, run, pills>>
  BY Zenon DEF Join, Enqueuer
<1>2. /\ enqueuer' \in [Enqueuer -> EnqueuerState]
      /\ enqueuer'[Destructor].pc = "joined" /\ enqueuer'[Destructor].job = enqueuer[Destructor].job
      /\ \A b \in Enqueuer \ {Destructor} : enqueuer'[b] = enqueuer[b]
  BY <1>1, Zenon DEF TypeOK, EnqueuerState
<1>3. TypeOK'
  BY <1>1, <1>2, Zenon DEF TypeOK
<1>4. QueueOK'
  BY <1>1, Zenon DEF QueueOK, Taken, Queued
<1>5. ASSUME NEW b \in Adder PROVE AdderOK(b)'
  BY <1>1, <1>2, Zenon DEF AdderOK, Pending, Enqueuer
<1>6. Queued = {}
  BY Zenon DEF Join, DestructorOK
<1>7. DestructorOK'
  BY <1>1, <1>2, <1>6, Zenon DEF DestructorOK, Pending, Queued
<1> QED
  BY <1>3, <1>4, <1>5, <1>7

(* An enqueuer that wakes for no reason looks again.                       *)
LEMMA EnqueuerWoken ==
  ASSUME PoolInv, NEW a \in Enqueuer, enqueuer[a].pc = "wait",
         enqueuer' = [enqueuer EXCEPT ![a].pc = "enq"],
         UNCHANGED <<blockadd_, q_, worker, offered, accepted, run, pills>>
  PROVE  PoolInv'
<1> USE PoolAssumption DEF PoolInv
<1>1. /\ enqueuer' \in [Enqueuer -> EnqueuerState] /\ Destructor \in Enqueuer
      /\ enqueuer'[a].pc = "enq" /\ enqueuer'[a].job = enqueuer[a].job
      /\ \A b \in Enqueuer \ {a} : enqueuer'[b] = enqueuer[b]
  BY SMTT(60) DEF TypeOK, EnqueuerState, Enqueuer
<1>2. TypeOK'
  BY <1>1, Zenon DEF TypeOK
<1>3. QueueOK'
  BY Zenon DEF QueueOK, Taken, Queued
<1>4. ASSUME NEW b \in Adder PROVE AdderOK(b)'
  BY <1>1 DEF AdderOK, Pending, Enqueuer
<1>5. DestructorOK'
  BY <1>1, Zenon DEF DestructorOK, Pending, Queued
<1> QED
  BY <1>2, <1>3, <1>4, <1>5, Zenon

(* Every step of the pool keeps PoolInv.                                   *)
LEMMA PoolStep == PoolInv /\ [Next]_vars => PoolInv'
<1>1. PoolInv /\ UNCHANGED vars => PoolInv'
  BY DEF vars, PoolInv, TypeOK, QueueOK, AdderOK, DestructorOK, Pending, Taken, Queued
<1> QED
  BY <1>1, Offered, Destroyed, JobPushed, PillPushed, QueueFull, Dequeued, WorkerSteps,
     Joined,
     EnqueuerWoken, Zenon
  DEF Next, Working, Adding, SpuriousWakeup, Enqueuer

LEMMA PoolKeepsJobs == PoolInv => JobsKept
BY Zenon DEF PoolInv, QueueOK, DestructorOK, JobsKept

(* What addObjJob accepted is queued or taken, once each, and all of it    *)
(* has been taken when the destructor has joined the workers.              *)
THEOREM JobsNeverLost == Spec => []JobsKept
BY PoolInitial, PoolStep, PoolKeepsJobs, PTL DEF Spec

(* The queue stays within max_, pills come last, and a worker leaves only  *)
(* when no job is queued.                                                  *)
THEOREM PoolInvariant == Spec => []PoolInv
BY PoolInitial, PoolStep, PTL DEF Spec

-----------------------------------------------------------------------------
LEMMA AgentStep == AgentNext => [Next]_vars /\ [HandleNext]_hVars
<1> USE WorkersCall DEF vars, hVars
<1>1. ASSUME NEW w \in Worker, JobStep(w) PROVE [Next]_vars /\ [HandleNext]_hVars
  <2>1. HandleNext
    BY <1>1, Zenon DEF JobStep, job_handle, job_safebind, job_bound, job_end, HandleNext
  <2>2. [Next]_vars
    BY <1>1, Zenon DEF JobStep, job_handle, job_safebind, job_bound, job_end, Next,
       Working
  <2> QED
    BY <2>1, <2>2, Zenon
<1>2. ASSUME NEW w \in Worker, TakeJob(w) PROVE Next /\ UNCHANGED hVars
  BY <1>2, Zenon DEF TakeJob, Next, Working
<1>3. ASSUME \/ \E a \in Enqueuer : Adding(a)
             \/ \E a \in Adder : addObjJob(a)
             \/ Destroy \/ Join \/ SpuriousWakeup
      PROVE  Next
  BY <1>3, Zenon DEF Next
<1> QED
  BY <1>1, <1>2, <1>3, Zenon DEF AgentNext

(* While the pool's jobs share a client's rpcc, whichever of their binds   *)
(* fail, no job is lost and every handle is counted and keeps its promise. *)
THEOREM AgentsCorrect ==
  AgentSpec => [](JobsKept /\ SafebindStable /\ NoFreedHandle /\ FailureForgotten)
<1>1. AgentInit => PoolInv /\ HandleInv
  BY PoolInitial, HandleInitial, Zenon DEF AgentInit
<1>2. PoolInv /\ HandleInv /\ [AgentNext]_allVars => PoolInv' /\ HandleInv'
  <2>1. UNCHANGED allVars => UNCHANGED vars /\ UNCHANGED hVars
    BY Zenon DEF allVars, poolVars, vars, hVars
  <2> QED
    BY <2>1, AgentStep, PoolStep, HandleStep, Zenon
<1>3. PoolInv /\ HandleInv => JobsKept /\ SafebindStable /\ NoFreedHandle /\ FailureForgotten
  BY PoolKeepsJobs, HandlePromises, Zenon
<1> QED
  BY <1>1, <1>2, <1>3, PTL DEF AgentSpec

(* In particular a job that makes a handle while another lets the last one *)
(* go never finds itself with an hinfo that put_handle has deleted.        *)
THEOREM HandlesNeverFreed == AgentSpec => []NoFreedHandle
<1>1. /\ JobsKept /\ SafebindStable /\ NoFreedHandle /\ FailureForgotten
      => NoFreedHandle
  OBVIOUS
<1> QED
  BY <1>1, AgentsCorrect, PTL
=============================================================================
