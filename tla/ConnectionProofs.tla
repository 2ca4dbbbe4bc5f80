-------------------------- MODULE ConnectionProofs --------------------------
(***************************************************************************)
(* The inductive invariant of a connection, for any set of senders, sizes  *)
(* of message and bounds on what arrives and on how many references        *)
(* dispatch forgets; the steps of senders, of dispatch, of the owner and   *)
(* of the poll thread, which keep it; and what Connection promises.        *)
(***************************************************************************)
EXTENDS Connection, TLAPS

(* Which manager a connection has decides who can use it; a message sent   *)
(* for an old instance has cost a reference.                               *)
Uncounted == {"none", "dispatch", "drop", "decref"}
Roles ==
  /\ oldsrv => mgr_ = "rpcs"
  /\ oldsrv \/ mgr_ = "rpcc" => at[Latest] = "none"
  /\ \A s \in Sender : at[s] = "dispatch" => mgr_ = "rpcs"
  /\ \A s \in Sender : oldsrv /\ at[s] \notin Uncounted => leaked > 0

(* ref_m_ is held only by who dropped the last reference, and the last     *)
(* reference goes after the connection has died.                           *)
Drops ==
  /\ \A t \in Thread : at[t] = "decref" <=> ref_m_ = t
  /\ ref_m_ # "free" => refno_ = 0
  /\ deleted => refno_ = 0 /\ ref_m_ = "free"
  /\ refno_ = 0 => dead_

(* A dead connection is out of the poll thread's reach, or some thread is  *)
(* about to see to it.                                                     *)
Leaving == {"failed", "close", "block", "removed"}
Called == {"read_cb", "reading", "write_cb"}
Detached == watched = {} /\ ~callback /\ poll.pc \notin Called
Dying ==
  /\ at[None] # "own" => dead_
  /\ \A t \in Thread : at[t] \in Leaving => dead_
  /\ \A t \in Thread : at[t] \in {"block", "removed"} => watched = {}
  /\ dead_ => Detached \/ \E t \in Thread : at[t] \in Leaving

(* The poll thread holds m_ while it reads, from a connection that lives.  *)
Polled ==
  /\ m_ <=> poll.pc = "reading"
  /\ poll.pc = "reading" => ~dead_
  /\ poll.pc = "top" => poll.ready = {}

(* A message being written is that of a thread which waits in send.        *)
Busy == {"send_complete", "failed", "block", "removed", "finish"}
Writing ==
  /\ \A s \in Sender : at[s] \in Busy <=> wpdu_.by = s
  /\ wpdu_.by = None => wpdu_.left = 0

(* The types the other facts rest on.                                      *)
PollPc == {"top", "snapshot", "select", "ready", "read_cb", "reading", "write_cb"}
Pc == SenderPc \cup OwnerPc \cup LatestPc
Shape ==
  /\ refno_ \in Nat /\ leaked \in Nat
  /\ wpdu_ \in [by : Sender \cup {None}, left : Nat]
  /\ watched \subseteq {"r", "w"}
  /\ poll \in [pc : PollPc, ready : SUBSET {"r", "w"}]
Places ==
  /\ at \in [Thread -> Pc]
  /\ \A s \in Sender : at[s] \in SenderPc
  /\ at[None] \in OwnerPc /\ at[Latest] \in LatestPc

(* The inductive invariant: types, references, and who serves the socket.  *)
Owed == RefsExact /\ Roles /\ Drops
Served == Dying /\ Polled /\ RemovedForGood /\ Writing
ConnInv == Shape /\ Places /\ Owed /\ Served

(* What a step may do to the threads without touching the references: a    *)
(* thread goes on inside send or ends it, the owner closes the connection, *)
(* dispatch drops a request.                                               *)
Inside == {"ready", "send_wait", "send", "send_complete", "failed", "block", "removed", "finish"}
Closing == {"own", "close", "block", "removed", "drop"}
Neutral ==
  /\ \A s \in Sender : \/ at'[s] = at[s]
                       \/ at[s] \in Inside /\ at'[s] \in Inside \cup {Sent}
                       \/ at[s] = "dispatch" /\ at'[s] = "drop"
  /\ at'[None] = at[None] \/ (at[None] \in Closing /\ at'[None] \in Closing)
  /\ at'[Latest] = at[Latest]

(* A step that no message being written and no dying connection is about.  *)
Quiet ==
  /\ UNCHANGED <<dead_, spurious, m_, watched, callback, poll, wpdu_>>
  /\ \A t \in Thread : \/ at'[t] = at[t]
                       \/ {at[t], at'[t]} \cap (Leaving \cup Busy) = {}
  /\ at'[None] = at[None] \/ dead_

(* A turn of the poll thread that no other thread sees.                    *)
Turn ==
  /\ UNCHANGED <<mgr_, oldsrv, spurious, dead_, refno_, leaked, deleted, ref_m_, wpdu_, at>>
  /\ poll' \in [pc : PollPc, ready : SUBSET {"r", "w"}]
  /\ watched' \subseteq watched /\ (callback' => callback)
  /\ m_' <=> poll'.pc = "reading"
  /\ poll'.pc = "reading" => ~dead_
  /\ poll'.pc = "top" => poll'.ready = {}
  /\ poll'.ready \subseteq poll.ready \/ poll'.ready \subseteq watched
  /\ poll'.pc \in Called => poll.pc \in Called \/ (callback /\ poll.ready # {})

-----------------------------------------------------------------------------
(* References: the set of those who hold one, and their number.            *)

(* What counting a finite set comes to.  The lemmas about the steps take   *)
(* it as a hypothesis; SizesHold, below them, proves it.                   *)
Sizes ==
  \A S : IsFiniteSet(S) =>
    /\ Cardinality(S) \in Nat /\ (Cardinality(S) = 0 <=> S = {})
    /\ \A T \in SUBSET S : IsFiniteSet(T)
    /\ \A x : /\ IsFiniteSet(S \cup {x})
              /\ x \notin S => Cardinality(S \cup {x}) = Cardinality(S) + 1
              /\ x \in S => Cardinality(S \ {x}) = Cardinality(S) - 1

(* Senders, the owner and the latest entry are different threads.          *)
LEMMA Threads ==
  /\ \A s \in Sender : s \in Thread /\ s # None /\ s # Latest
  /\ None \in Thread /\ Latest \in Thread /\ None # Latest
  /\ \A t \in Thread : t # "free" /\ (t \in Sender \/ t \in Holder)
  /\ \A t \in Holder : t = None \/ t = Latest
BY ConnAssumption, Zenon DEF Thread, Holder

(* decref and incref count a finite set of threads.                        *)
LEMMA RefsFinite == ASSUME Sizes PROVE IsFiniteSet(Refs) /\ Refs \subseteq Thread
<1>1. IsFiniteSet(Sender \cup {None})
  BY ConnAssumption, Zenon DEF Sizes
<1>2. IsFiniteSet((Sender \cup {None}) \cup {Latest})
  BY <1>1, Zenon DEF Sizes
<1>3. Thread = (Sender \cup {None}) \cup {Latest}
  BY Zenon DEF Thread, Holder
<1>4. Refs \subseteq Thread
  BY Zenon DEF Refs, Thread
<1>. QED
  BY <1>2, <1>3, <1>4, Zenon DEF Sizes

(* Cardinality(Refs) is a number.                                          *)
LEMMA RefsCounted == ASSUME Sizes PROVE Cardinality(Refs) \in Nat
BY RefsFinite, Zenon DEF Sizes

(* Who holds a reference keeps refno_ above zero, and is alone at one.     *)
LEMMA RefsSome ==
  ASSUME Sizes, Shape, RefsExact, NEW t \in Refs
  PROVE  refno_ >= 1 /\ (refno_ = 1 => Refs = {t} /\ leaked = 0)
<1>1. /\ Cardinality(Refs \ {t}) = Cardinality(Refs) - 1
      /\ IsFiniteSet(Refs \ {t})
  BY RefsFinite, Zenon DEF Sizes
<1>2. /\ Cardinality(Refs \ {t}) \in Nat
      /\ Cardinality(Refs \ {t}) = 0 => Refs \ {t} = {}
  BY <1>1, Zenon DEF Sizes
<1>3. refno_ \in Nat /\ leaked \in Nat
  BY Zenon DEF Shape
<1>4. refno_ >= 1 /\ (refno_ = 1 => Cardinality(Refs \ {t}) = 0 /\ leaked = 0)
  BY <1>1, <1>2, <1>3, RefsCounted DEF RefsExact
<1>. QED
  BY <1>2, <1>4, Zenon

(* At zero nobody holds a reference, and none is lost.                     *)
LEMMA RefsNone ==
  ASSUME Sizes, Shape, RefsExact, refno_ = 0
  PROVE  Refs = {} /\ leaked = 0
<1>1. refno_ \in Nat /\ leaked \in Nat
  BY Zenon DEF Shape
<1>2. Cardinality(Refs) = 0 /\ leaked = 0
  BY <1>1, RefsCounted DEF RefsExact
<1>. QED
  BY <1>2, RefsFinite, Zenon DEF Sizes

(* incref by a thread that had no reference.                               *)
LEMMA RefsGain ==
  ASSUME Sizes, Shape, RefsExact, NEW t, t \notin Refs, Refs' = Refs \cup {t},
         refno_' = refno_ + 1, leaked' = leaked
  PROVE  RefsExact'
<1>1. Cardinality(Refs') = Cardinality(Refs) + 1
  BY RefsFinite, Zenon DEF Sizes
<1>2. leaked \in Nat
  BY Zenon DEF Shape
<1>. QED
  BY <1>1, <1>2, RefsCounted DEF RefsExact

(* decref, or a reference that is lost.                                    *)
LEMMA RefsLose ==
  ASSUME Sizes, Shape, RefsExact, NEW t \in Refs, Refs' = Refs \ {t},
         \/ refno_' = refno_ - 1 /\ leaked' = leaked
         \/ refno_' = refno_ /\ leaked' = leaked + 1
  PROVE  RefsExact'
<1>1. Cardinality(Refs') = Cardinality(Refs) - 1
  BY RefsFinite, Zenon DEF Sizes
<1>2. leaked \in Nat
  BY Zenon DEF Shape
<1>. QED
  BY <1>1, <1>2, RefsCounted DEF RefsExact

(* All other steps.                                                        *)
LEMMA RefsKeep ==
  ASSUME RefsExact, Refs' = Refs, UNCHANGED refVars
  PROVE  RefsExact'
BY Zenon DEF RefsExact, refVars

-----------------------------------------------------------------------------
(* Steps by what they have in common.                                      *)

(* One thread moves.                                                       *)
LEMMA OneMoves ==
  ASSUME Places, NEW t \in Thread, NEW pc, Goto(t, pc),
         t \in Sender => pc \in SenderPc,
         t = None => pc \in OwnerPc,
         t = Latest => pc \in LatestPc
  PROVE  Places' /\ \A u \in Thread : at'[u] = IF u = t THEN pc ELSE at[u]
<1>1. pc \in Pc
  BY Threads, Zenon DEF Pc
<1>2. /\ at' \in [Thread -> Pc]
      /\ \A u \in Thread : at'[u] = IF u = t THEN pc ELSE at[u]
  BY <1>1, Zenon DEF Places, Goto
<1>. QED
  BY <1>2, Threads, Zenon DEF Places

(* All threads at pc are woken.                                            *)
LEMMA SomeWoken ==
  ASSUME Places, NEW pc, NEW to, at' = Waking(pc, to),
         \/ pc \notin OwnerPc \cup LatestPc /\ to \in SenderPc
         \/ pc \notin LatestPc /\ to \in SenderPc \cap OwnerPc
  PROVE  Places' /\ \A u \in Thread : at'[u] = IF at[u] = pc THEN to ELSE at[u]
<1>1. \A u \in Thread : at'[u] = IF at[u] = pc THEN to ELSE at[u]
  BY Zenon DEF Waking
<1>2. at' \in [Thread -> Pc]
  BY Zenon DEF Places, Pc, Waking
<1>. QED
  BY <1>1, <1>2, Threads, Zenon DEF Places

(* One ends its send, which wakes those who wait for that.                 *)
LEMMA OneFinishes ==
  ASSUME Places, NEW s \in Sender, at' = Finished(s)
  PROVE  /\ Places'
         /\ \A u \in Thread : at'[u] = IF u = s THEN Sent
                                       ELSE IF at[u] = "send_wait" THEN "send" ELSE at[u]
<1>1. /\ Sent \in SenderPc /\ "send" \in SenderPc
      /\ "send_wait" \notin OwnerPc \cup LatestPc
  BY Zenon DEF Sent, SenderPc, OwnerPc, LatestPc
<1>2. \A u \in Thread : at'[u] = IF u = s THEN Sent
                                 ELSE IF at[u] = "send_wait" THEN "send" ELSE at[u]
  BY Zenon DEF Finished, Waking
<1>3. at' \in [Thread -> Pc]
  BY <1>1, Threads, Zenon DEF Places, Pc, Finished, Waking
<1>. QED
  BY <1>1, <1>2, <1>3, Threads, Zenon DEF Places

(* The references are not touched.                                         *)
LEMMA NeutralStep ==
  ASSUME Owed, UNCHANGED <<mgr_, oldsrv, refno_, leaked, deleted, ref_m_>>,
         dead_ => dead_', Neutral
  PROVE  Owed'
<1>. USE DEF Owed
<1>1. Sent \in {"none", "drop"} /\ (Sent = "drop" <=> ~oldsrv)
  BY Zenon DEF Sent
<1>2. RefsExact'
  <2>1. Counted' = Counted
    BY Zenon DEF Counted
  <2>2. \A s \in Sender : at'[s] \in Counted <=> at[s] \in Counted
    BY <1>1, Zenon DEF Neutral, Inside, Counted, SenderPc
  <2>3. \A t \in Holder : at'[t] \in {"none", "decref", "gone"} <=> at[t] \in {"none", "decref", "gone"}
    BY Threads, Zenon DEF Neutral, Closing
  <2>4. Refs' = Refs
    BY <2>1, <2>2, <2>3, Zenon DEF Refs
  <2>. QED
    BY <2>4, RefsKeep, Zenon DEF refVars
<1>3. Roles'
  BY <1>1, Zenon DEF Neutral, Inside, Roles, Uncounted
<1>4. Drops'
  <2>1. \A t \in Thread : at'[t] = "decref" <=> at[t] = "decref"
    BY <1>1, Threads, Zenon DEF Neutral, Inside, Closing
  <2>. QED
    BY <2>1, Zenon DEF Drops
<1>. QED
  BY <1>2, <1>3, <1>4, Zenon

(* Neither the poll thread nor a message being written is concerned.       *)
LEMMA QuietStep ==
  ASSUME Served, Quiet
  PROVE  Served'
<1>. USE DEF Served
<1>1. \A t \in Thread : /\ at'[t] \in Leaving <=> at[t] \in Leaving
                        /\ at'[t] \in {"block", "removed"} => at'[t] = at[t]
                        /\ at'[t] \in Busy <=> at[t] \in Busy
  BY Zenon DEF Quiet, Leaving, Busy
<1>2. UNCHANGED <<dead_, spurious, m_, watched, callback, poll, wpdu_>>
  BY Zenon DEF Quiet
<1>3. Dying'
  <2>1. Detached' = Detached
    BY <1>2, Zenon DEF Detached
  <2>. QED
    BY <1>1, <1>2, <2>1 DEF Quiet, Dying
<1>4. Polled'
  BY <1>2, Zenon DEF Polled
<1>5. RemovedForGood'
  BY <1>1, <1>2, Zenon DEF RemovedForGood
<1>6. Writing'
  BY <1>1, <1>2, Threads, Zenon DEF Writing
<1>. QED
  BY <1>3, <1>4, <1>5, <1>6, Zenon

(* A turn of the poll thread.                                              *)
LEMMA TurnStep ==
  ASSUME ConnInv, Turn
  PROVE  ConnInv'
<1>. USE DEF ConnInv, Served
<1>1. UNCHANGED <<mgr_, oldsrv, spurious, dead_, refno_, leaked, deleted, ref_m_, wpdu_, at>>
  BY Zenon DEF Turn
<1>2. Shape' /\ Places'
  BY <1>1, Zenon DEF Turn, Shape, Places
<1>3. Owed'
  BY <1>1, NeutralStep, Zenon DEF Neutral
<1>4. Dying'
  BY Zenon DEF Turn, Dying, Detached
<1>5. Polled'
  BY Zenon DEF Turn, Polled
<1>6. RemovedForGood'
  BY Zenon DEF Turn, RemovedForGood, Called
<1>7. Writing'
  BY <1>1, Zenon DEF Writing
<1>. QED
  BY <1>2, <1>3, <1>4, <1>5, <1>6, <1>7, Zenon
-----------------------------------------------------------------------------
(* References are taken.                                                   *)

(* incref by a sender, from one who has a reference.                       *)
LEMMA Increfs ==
  ASSUME Sizes, Shape, Places, Owed, NEW s \in Sender, NEW pc, incref(s, pc),
         UNCHANGED <<mgr_, oldsrv, dead_, deleted, ref_m_>>, refno_ # 0,
         (pc = "ready" /\ ~oldsrv) \/ (pc = "dispatch" /\ mgr_ = "rpcs")
  PROVE  /\ Places' /\ Owed' /\ refno_' \in Nat /\ leaked' = leaked /\ at[s] = "none"
         /\ \A u \in Thread : at'[u] = IF u = s THEN pc ELSE at[u]
<1>. USE DEF Owed
<1>1. /\ at[s] = "none" /\ refno_' = refno_ + 1 /\ leaked' = leaked /\ refno_ \in Nat
      /\ ref_m_ = "free" /\ Goto(s, pc) /\ pc \in {"ready", "dispatch"}
  BY Zenon DEF incref, Shape
<1>2. Places' /\ \A u \in Thread : at'[u] = IF u = s THEN pc ELSE at[u]
  BY <1>1, OneMoves, Threads, Zenon DEF SenderPc
<1>3. RefsExact'
  <2>1. Counted' = Counted /\ pc \in Counted /\ "none" \notin Counted
    BY Zenon DEF Counted, SenderPc
  <2>2. s \notin Refs /\ Refs' = Refs \cup {s}
    BY <1>1, <1>2, <2>1, Threads, Zenon DEF Refs
  <2>. QED
    BY <1>1, <2>2, RefsGain, Zenon
<1>4. Roles'
  BY <1>1, <1>2, Threads, Zenon DEF Roles, Uncounted
<1>5. Drops'
  BY <1>1, <1>2, Threads DEF Drops
<1>. QED
  BY <1>1, <1>2, <1>3, <1>4, <1>5

(* rpcc::get_refconn, and a reply on the client's latest connection.       *)
LEMMA GetRefconn ==
  ASSUME Sizes, ConnInv, NEW s \in Sender, get_refconn(s) \/ dispatch_latest(s)
  PROVE  ConnInv'
<1>. USE DEF ConnInv
<1>1. /\ incref(s, "ready")
      /\ UNCHANGED <<mgr_, oldsrv, spurious, dead_, deleted, ref_m_, m_, wpdu_, watched,
                     callback, poll>>
      /\ (mgr_ = "rpcc" /\ at[None] = "own") \/ at[Latest] = "own"
  BY Zenon DEF get_refconn, dispatch_latest, roleVars, ioVars, pollVars
<1>2. refno_ # 0 /\ ~oldsrv
  <2>1. None \in Refs \/ Latest \in Refs
    BY <1>1, Zenon DEF Refs, Holder
  <2>. QED
    BY <1>1, <2>1, RefsNone, Zenon DEF Owed, Roles
<1>3. /\ Places' /\ Owed' /\ refno_' \in Nat /\ leaked' = leaked /\ at[s] = "none"
      /\ \A u \in Thread : at'[u] = IF u = s THEN "ready" ELSE at[u]
  BY <1>1, <1>2, Increfs, Zenon
<1>4. Shape'
  BY <1>1, <1>3, Zenon DEF Shape
<1>5. Quiet
  BY <1>1, <1>3, Threads, Zenon DEF Quiet, Leaving, Busy
<1>. QED
  BY <1>3, <1>4, <1>5, QuietStep, Zenon

-----------------------------------------------------------------------------
(* connection::send.                                                       *)

(* Steps that change nothing but where threads are.                        *)
LEMMA OnlyMoves ==
  ASSUME ConnInv, UNCHANGED <<connVars, pollVars>>, Places', Neutral,
         \A t \in Thread : \/ at'[t] = at[t]
                           \/ {at[t], at'[t]} \cap (Leaving \cup Busy) = {},
         at'[None] = at[None] \/ dead_
  PROVE  ConnInv'
<1>. USE DEF ConnInv
<1>1. UNCHANGED <<mgr_, oldsrv, spurious, dead_, refno_, leaked, deleted, ref_m_, m_, wpdu_,
                  watched, callback, poll>>
  BY Zenon DEF connVars, roleVars, refVars, ioVars, pollVars
<1>2. Shape'
  BY <1>1, Zenon DEF Shape
<1>3. Owed'
  BY <1>1, NeutralStep, Zenon
<1>4. Quiet
  BY <1>1, Zenon DEF Quiet
<1>. QED
  BY <1>2, <1>3, <1>4, QuietStep, Zenon

(* A dead connection is dropped by its owner; a request is dropped.        *)
LEMMA DropSteps ==
  ASSUME ConnInv, DropDead \/ \E s \in Sender : dispatch_drop(s)
  PROVE  ConnInv'
<1>1. CASE DropDead
  <2>1. /\ at[None] = "own" /\ dead_ /\ Goto(None, "drop")
        /\ UNCHANGED <<connVars, pollVars>>
    BY <1>1, Zenon DEF DropDead
  <2>2. Places' /\ \A u \in Thread : at'[u] = IF u = None THEN "drop" ELSE at[u]
    BY <2>1, OneMoves, Threads, Zenon DEF ConnInv, OwnerPc
  <2>. QED
    BY <2>1, <2>2, Threads, OnlyMoves, Zenon DEF Neutral, Closing, Leaving, Busy
<1>2. ASSUME NEW s \in Sender, dispatch_drop(s) PROVE ConnInv'
  <2>1. at[s] = "dispatch" /\ Goto(s, "drop") /\ UNCHANGED <<connVars, pollVars>>
    BY <1>2, Zenon DEF dispatch_drop
  <2>2. Places' /\ \A u \in Thread : at'[u] = IF u = s THEN "drop" ELSE at[u]
    BY <2>1, OneMoves, Threads, Zenon DEF ConnInv, SenderPc
  <2>. QED
    BY <2>1, <2>2, Threads, OnlyMoves, Zenon DEF Neutral, Leaving, Busy
<1>. QED
  BY <1>1, <1>2, Zenon

(* The connection is dead, or another message is being written.            *)
LEMMA SendNot ==
  ASSUME ConnInv, NEW s \in Sender, at[s] \in {"ready", "send"},
         Goto(s, Sent) \/ Goto(s, "send_wait"), UNCHANGED <<connVars, pollVars>>
  PROVE  ConnInv'
<1>1. PICK pc \in {Sent, "send_wait"} : Goto(s, pc)
  OBVIOUS
<1>2. Sent \in {"none", "drop"} /\ pc \in SenderPc
  BY Zenon DEF Sent, SenderPc
<1>3. Places' /\ \A u \in Thread : at'[u] = IF u = s THEN pc ELSE at[u]
  BY <1>1, <1>2, OneMoves, Threads, Zenon DEF ConnInv
<1>4. Neutral
  BY <1>3, Threads, Zenon DEF Neutral, Inside
<1>. QED
  BY <1>2, <1>3, <1>4, Threads, OnlyMoves, Zenon DEF Leaving, Busy

(* All of the message is written at once.                                  *)
LEMMA SendAll ==
  ASSUME ConnInv, NEW s \in Sender, at[s] \in {"ready", "send"}, at' = Finished(s),
         UNCHANGED <<connVars, pollVars>>
  PROVE  ConnInv'
<1>1. Sent \in {"none", "drop"}
  BY Zenon DEF Sent
<1>2. /\ Places'
      /\ \A u \in Thread : at'[u] = IF u = s THEN Sent
                                    ELSE IF at[u] = "send_wait" THEN "send" ELSE at[u]
  BY OneFinishes, Zenon DEF ConnInv
<1>3. at[None] # "send_wait" /\ at[Latest] # "send_wait"
  BY Zenon DEF ConnInv, Places, OwnerPc, LatestPc
<1>4. Neutral
  BY <1>2, <1>3, Threads, Zenon DEF Neutral, Inside
<1>. QED
  BY <1>1, <1>2, <1>3, <1>4, Threads, OnlyMoves, Zenon DEF Leaving, Busy

(* Some of it is written, and the poll thread is to go on.                 *)
LEMMA SendSome ==
  ASSUME ConnInv, NEW s \in Sender, at[s] \in {"ready", "send"}, ~m_, ~dead_,
         wpdu_.by = None, NEW n \in 0..(PduSize - 1),
         wpdu_' = [by |-> s, left |-> PduSize - n], watched' = watched \cup {"w"},
         callback', Goto(s, "send_complete"),
         UNCHANGED <<roleVars, spurious, dead_, refVars, deleted, ref_m_, m_, poll>>
  PROVE  ConnInv'
<1>. USE DEF ConnInv, Served
<1>1. UNCHANGED <<mgr_, oldsrv, spurious, dead_, refno_, leaked, deleted, ref_m_, m_, poll>>
  BY Zenon DEF roleVars, refVars
<1>2. Places' /\ \A u \in Thread : at'[u] = IF u = s THEN "send_complete" ELSE at[u]
  BY OneMoves, Threads, Zenon DEF SenderPc
<1>3. Shape'
  <2>1. PduSize - n \in Nat
    BY ConnAssumption
  <2>. QED
    BY <1>1, <2>1, Zenon DEF Shape
<1>4. Owed'
  <2>1. Neutral
    BY <1>2, Threads, Zenon DEF Neutral, Inside
  <2>. QED
    BY <1>1, <2>1, NeutralStep, Zenon
<1>5. \A t \in Thread : at[t] \notin Leaving /\ at'[t] \notin Leaving
  BY <1>2, Zenon DEF Dying, Leaving
<1>6. Dying'
  BY <1>1, <1>2, <1>5, Threads DEF Dying, Leaving
<1>7. Polled' /\ RemovedForGood'
  BY <1>1, <1>5 DEF Polled, RemovedForGood, Leaving
<1>8. Writing'
  BY <1>1, <1>2, Threads, Zenon DEF Writing, Busy
<1>. QED
  BY <1>2, <1>3, <1>4, <1>6, <1>7, <1>8, Zenon

(* The socket is broken, and the thread that notices removes it.           *)
LEMMA SendFails ==
  ASSUME ConnInv, NEW s \in Sender, at[s] \in {"ready", "send"}, ~m_, ~dead_,
         wpdu_.by = None, wpdu_' = [by |-> s, left |-> 0], dead_', Goto(s, "failed"),
         UNCHANGED <<roleVars, spurious, refVars, deleted, ref_m_, m_, pollVars>>
  PROVE  ConnInv'
<1>. USE DEF ConnInv, Served
<1>1. UNCHANGED <<mgr_, oldsrv, spurious, refno_, leaked, deleted, ref_m_, m_, watched,
                  callback, poll>>
  BY Zenon DEF roleVars, refVars, pollVars
<1>2. Places' /\ \A u \in Thread : at'[u] = IF u = s THEN "failed" ELSE at[u]
  BY OneMoves, Threads, Zenon DEF SenderPc
<1>3. Shape'
  BY <1>1, Zenon DEF Shape
<1>4. Owed'
  <2>1. Neutral
    BY <1>2, Threads, Zenon DEF Neutral, Inside
  <2>. QED
    BY <1>1, <2>1, NeutralStep, Zenon
<1>5. \A t \in Thread : at[t] \notin Leaving /\ at'[t] \notin {"block", "removed"}
  BY <1>2, Zenon DEF Dying, Leaving
<1>6. Dying'
  <2>1. s \in Thread /\ at'[s] \in Leaving
    BY <1>2, Threads, Zenon DEF Leaving
  <2>. QED
    BY <1>5, <2>1, Zenon DEF Dying
<1>7. Polled' /\ RemovedForGood'
  BY <1>1, <1>5 DEF Polled, RemovedForGood
<1>8. Writing'
  BY <1>1, <1>2, Threads, Zenon DEF Writing, Busy
<1>. QED
  BY <1>2, <1>3, <1>4, <1>6, <1>7, <1>8, Zenon

(* connection::send.                                                       *)
LEMMA SendStep ==
  ASSUME ConnInv, NEW s \in Sender, send(s)
  PROVE  ConnInv'
<1>1. CASE /\ Goto(s, Sent) \/ Goto(s, "send_wait")
           /\ UNCHANGED <<connVars, pollVars>>
  BY <1>1, SendNot, Zenon DEF send
<1>2. CASE ~dead_ /\ wpdu_.by = None /\ send_write(s)
  <2>1. CASE at' = Finished(s) /\ UNCHANGED <<connVars, pollVars>>
    BY <2>1, SendAll, Zenon DEF send
  <2>2. ASSUME NEW n \in 0..(PduSize - 1), wpdu_' = [by |-> s, left |-> PduSize - n],
               watched' = watched \cup {"w"}, callback' = TRUE,
               Goto(s, "send_complete"),
               UNCHANGED <<roleVars, spurious, dead_, refVars, deleted, ref_m_, m_, poll>>
        PROVE  ConnInv'
    BY <1>2, <2>2, SendSome, Zenon DEF send
  <2>3. CASE /\ Dies
             /\ wpdu_' = [by |-> s, left |-> 0]
             /\ Goto(s, "failed")
             /\ UNCHANGED <<roleVars, spurious, refVars, deleted, ref_m_, m_, broken, pollVars>>
    BY <1>2, <2>3, SendFails, Zenon DEF send, Dies
  <2>. QED
    BY <1>2, <2>1, <2>2, <2>3, Zenon DEF send_write
<1>. QED
  BY <1>1, <1>2, Zenon DEF send

(* The end of a send that waited.                                          *)
LEMMA SendFinish ==
  ASSUME ConnInv, NEW s \in Sender, send_finish(s)
  PROVE  ConnInv'
<1>. USE DEF ConnInv, Served
<1>1. /\ at[s] = "finish" /\ at' = Finished(s) /\ wpdu_' = NoPdu
      /\ UNCHANGED <<mgr_, oldsrv, spurious, dead_, refno_, leaked, deleted, ref_m_, m_,
                     watched, callback, poll>>
  BY Zenon DEF send_finish, roleVars, refVars, pollVars
<1>2. Sent \in {"none", "drop"}
  BY Zenon DEF Sent
<1>3. /\ Places'
      /\ \A u \in Thread : at'[u] = IF u = s THEN Sent
                                    ELSE IF at[u] = "send_wait" THEN "send" ELSE at[u]
  BY <1>1, OneFinishes, Zenon
<1>4. Shape'
  BY <1>1, Zenon DEF Shape, NoPdu
<1>5. Owed'
  <2>1. at[None] # "send_wait" /\ at[Latest] # "send_wait"
    BY Zenon DEF Places, OwnerPc, LatestPc
  <2>2. Neutral
    BY <1>1, <1>3, <2>1, Threads, Zenon DEF Neutral, Inside
  <2>. QED
    BY <1>1, <2>2, NeutralStep, Zenon
<1>6. \A t \in Thread : /\ at'[t] \in Leaving <=> at[t] \in Leaving
                        /\ at'[t] \in {"block", "removed"} => at'[t] = at[t]
  BY <1>1, <1>2, <1>3, Zenon DEF Leaving
<1>7. Dying'
  <2>1. (Detached' <=> Detached) /\ (at'[None] = "own" <=> at[None] = "own")
    BY <1>1, <1>2, <1>3, Threads, Zenon DEF Detached
  <2>. QED
    BY <1>1, <1>6, <2>1, Zenon DEF Dying
<1>8. Polled' /\ RemovedForGood'
  BY <1>1, <1>6, Zenon DEF Polled, RemovedForGood
<1>9. Writing'
  BY <1>1, <1>2, <1>3, Threads DEF Writing, Busy, NoPdu
<1>. QED
  BY <1>3, <1>4, <1>5, <1>7, <1>8, <1>9, Zenon

-----------------------------------------------------------------------------
(* rpcs::dispatch.                                                         *)

(* A request for an old instance: its reference is lost.                   *)
LEMMA DispatchOld ==
  ASSUME Sizes, ConnInv, NEW s \in Sender, dispatch_old(s)
  PROVE  ConnInv'
<1>. USE DEF ConnInv, Owed
<1>1. /\ at[s] = "dispatch" /\ oldsrv /\ leaked' = leaked + 1 /\ Goto(s, "ready")
      /\ UNCHANGED <<mgr_, oldsrv, spurious, dead_, refno_, deleted, ref_m_, m_, wpdu_,
                     watched, callback, poll>>
  BY Zenon DEF dispatch_old, roleVars, ioVars, pollVars
<1>2. Places' /\ \A u \in Thread : at'[u] = IF u = s THEN "ready" ELSE at[u]
  BY <1>1, OneMoves, Threads, Zenon DEF SenderPc
<1>3. Shape'
  BY <1>1 DEF Shape
<1>4. RefsExact'
  <2>1. Counted' = {"dispatch", "drop"} /\ Counted = {"dispatch", "drop"}
    BY <1>1, Zenon DEF Counted
  <2>2. s \in Refs /\ Refs' = Refs \ {s}
    BY <1>1, <1>2, <2>1, Threads, Zenon DEF Refs
  <2>. QED
    BY <1>1, <2>2, RefsLose, Zenon
<1>5. Roles'
  <2>1. leaked' > 0
    BY <1>1 DEF Shape
  <2>. QED
    BY <1>1, <1>2, <2>1, Threads, Zenon DEF Roles
<1>6. Drops'
  BY <1>1, <1>2, Zenon DEF Drops
<1>7. Quiet
  BY <1>1, <1>2, Threads, Zenon DEF Quiet, Leaving, Busy
<1>. QED
  BY <1>2, <1>3, <1>4, <1>5, <1>6, <1>7, QuietStep, Zenon

(* A request is answered or dropped, and the client's latest connection is *)
(* known to be another or is this one already.                             *)
LEMMA DispatchKnown ==
  ASSUME ConnInv, NEW s \in Sender, dispatch_known(s)
  PROVE  ConnInv'
<1>. USE DEF ConnInv, Owed
<1>. DEFINE latest == IF at[Latest] = "none" THEN "gone" ELSE at[Latest]
<1>1. /\ latest \in LatestPc /\ (latest = at[Latest] \/ (at[Latest] = "none" /\ latest = "gone"))
  BY Zenon DEF Places, LatestPc
<1>2. PICK pc \in {"ready", "drop"} : at' = [at EXCEPT ![s] = pc, ![Latest] = latest]
  BY Zenon DEF dispatch_known, Answered
<1>. HIDE DEF latest
<1>3. /\ at[s] = "dispatch" /\ ~oldsrv /\ mgr_ = "rpcs"
      /\ UNCHANGED <<mgr_, oldsrv, spurious, dead_, refno_, leaked, deleted, ref_m_, m_,
                     wpdu_, watched, callback, poll>>
  BY Zenon DEF dispatch_known, Roles, connVars, roleVars, refVars, ioVars, pollVars
<1>4. \A t \in Thread : at'[t] = IF t = s THEN pc ELSE IF t = Latest THEN latest ELSE at[t]
  BY <1>2, Threads, Zenon DEF Places
<1>5. Places'
  <2>1. pc \in Pc /\ latest \in Pc /\ pc \in SenderPc
    BY <1>1, Zenon DEF Pc, SenderPc
  <2>2. at' \in [Thread -> Pc]
    BY <1>2, <2>1, Zenon DEF Places
  <2>. QED
    BY <1>1, <1>4, <2>1, <2>2, Threads, Zenon DEF Places
<1>6. Shape'
  BY <1>3, Zenon DEF Shape
<1>7. RefsExact'
  <2>1. Counted' = Counted /\ {"dispatch", "ready", "drop"} \subseteq Counted
    BY <1>3, Zenon DEF Counted, SenderPc
  <2>2. Refs' = Refs
    BY <1>1, <1>3, <1>4, <2>1, Threads DEF Refs
  <2>. QED
    BY <1>3, <2>2, RefsKeep, Zenon DEF refVars
<1>8. Roles'
  BY <1>3, <1>4, Threads, Zenon DEF Roles
<1>9. Drops'
  BY <1>1, <1>3, <1>4, Zenon DEF Drops
<1>10. Quiet
  BY <1>1, <1>3, <1>4, Threads, Zenon DEF Quiet, Leaving, Busy
<1>. QED
  BY <1>5, <1>6, <1>7, <1>8, <1>9, <1>10, QuietStep, Zenon

(* A client's first request: conns_ gets a reference.                      *)
LEMMA DispatchSave ==
  ASSUME Sizes, ConnInv, NEW s \in Sender, dispatch_save(s)
  PROVE  ConnInv'
<1>. USE DEF ConnInv, Owed
<1>1. PICK pc \in {"ready", "drop"} : at' = [at EXCEPT ![s] = pc, ![Latest] = "own"]
  BY Zenon DEF dispatch_save, Answered
<1>2. /\ at[s] = "dispatch" /\ ~oldsrv /\ mgr_ = "rpcs" /\ at[Latest] = "none"
      /\ ref_m_ = "free" /\ refno_' = refno_ + 1 /\ refno_ \in Nat
      /\ UNCHANGED <<mgr_, oldsrv, spurious, dead_, leaked, deleted, ref_m_, m_, wpdu_,
                     watched, callback, poll>>
  BY Zenon DEF dispatch_save, Roles, Shape, roleVars, ioVars, pollVars
<1>3. \A t \in Thread : at'[t] = IF t = s THEN pc ELSE IF t = Latest THEN "own" ELSE at[t]
  BY <1>1, Threads, Zenon DEF Places
<1>4. Places'
  <2>1. pc \in Pc /\ "own" \in Pc /\ pc \in SenderPc /\ "own" \in LatestPc
    BY Zenon DEF Pc, SenderPc, LatestPc
  <2>2. at' \in [Thread -> Pc]
    BY <1>1, <2>1, Zenon DEF Places
  <2>. QED
    BY <1>3, <2>1, <2>2, Threads, Zenon DEF Places
<1>5. Shape'
  BY <1>2 DEF Shape
<1>6. Counted' = Counted /\ {"dispatch", "ready", "drop"} \subseteq Counted
  BY <1>2, Zenon DEF Counted, SenderPc
<1>7. RefsExact'
  <2>1. Latest \notin Refs /\ Refs' = Refs \cup {Latest}
    BY <1>2, <1>3, <1>6, Threads, Zenon DEF Refs, Holder
  <2>. QED
    BY <1>2, <2>1, RefsGain, Zenon
<1>8. Roles'
  BY <1>2, <1>3, Threads, Zenon DEF Roles
<1>9. Drops'
  <2>1. s \in Refs
    BY <1>2, <1>6, Zenon DEF Refs
  <2>2. refno_ # 0
    BY <2>1, RefsNone, Zenon
  <2>. QED
    BY <1>2, <1>3, <2>2, Threads DEF Drops
<1>10. Quiet
  BY <1>2, <1>3, Threads, Zenon DEF Quiet, Leaving, Busy
<1>. QED
  BY <1>4, <1>5, <1>7, <1>8, <1>9, <1>10, QuietStep, Zenon

-----------------------------------------------------------------------------
(* References are dropped.                                                 *)

(* connection::decref, up to the wait for m_.                              *)
LEMMA DecrefBy ==
  ASSUME Sizes, ConnInv, NEW t \in Thread, at[t] = "drop" \/ (t = Latest /\ at[t] = "own"),
         decref_by(t)
  PROVE  ConnInv'
<1>. USE DEF ConnInv, Owed
<1>1. PICK pc \in {"decref", "none", "gone"} :
        /\ Goto(t, pc)
        /\ pc = "decref" => refno_ = 1 /\ ref_m_' = t
        /\ pc # "decref" => refno_ # 1 /\ ref_m_' = ref_m_
        /\ t \in Sender => pc # "gone"
        /\ t \in Holder => pc # "none"
  BY Threads, Zenon DEF decref_by, Dropped
<1>2. t \in Refs /\ at[t] \in {"drop", "own"} /\ (t = None => at[t] = "drop")
  BY Threads, Zenon DEF Places, SenderPc, Refs, Counted
<1>3. /\ refno_ \in Nat /\ refno_ >= 1 /\ (refno_ = 1 => Refs = {t})
      /\ refno_' = refno_ - 1 /\ ref_m_ = "free"
      /\ UNCHANGED <<mgr_, oldsrv, spurious, dead_, leaked, deleted, m_, wpdu_, watched,
                     callback, poll>>
  BY <1>2, RefsSome, Zenon DEF decref_by, Shape, roleVars, ioVars, pollVars
<1>4. Places' /\ \A u \in Thread : at'[u] = IF u = t THEN pc ELSE at[u]
  BY <1>1, OneMoves, Threads, Zenon DEF SenderPc, OwnerPc, LatestPc, Holder
<1>5. Shape'
  BY <1>3 DEF Shape
<1>6. RefsExact'
  <2>1. Counted' = Counted /\ "decref" \notin Counted /\ "none" \notin Counted
    BY <1>3, Zenon DEF Counted
  <2>2. Refs' = Refs \ {t}
    BY <1>1, <1>4, <2>1, Threads, Zenon DEF Refs
  <2>. QED
    BY <1>2, <1>3, <2>2, RefsLose, Zenon
<1>7. Roles'
  BY <1>1, <1>2, <1>3, <1>4, Threads, Zenon DEF Roles, Uncounted, Holder
<1>8. Drops'
  <2>1. refno_ = 1 => dead_
    <3>1. at[None] # "own" => dead_
      BY Zenon DEF Served, Dying
    <3>2. at[None] = "own" => None \in Refs
      BY Zenon DEF Refs, Holder
    <3>. QED
      BY <1>2, <1>3, <3>1, <3>2, Zenon
  <2>2. refno_' = 0 <=> refno_ = 1
    BY <1>3
  <2>3. ~deleted
    BY <1>3 DEF Drops
  <2>. QED
    BY <1>1, <1>2, <1>3, <1>4, <2>1, <2>2, <2>3, Threads DEF Drops
<1>9. Quiet
  BY <1>2, <1>3, <1>4, Threads, Zenon DEF Quiet, Leaving, Busy, Served, Dying
<1>. QED
  BY <1>4, <1>5, <1>6, <1>7, <1>8, <1>9, QuietStep, Zenon

(* connection::decref, the last reference.                                 *)
LEMMA DecrefLast ==
  ASSUME ConnInv, NEW t \in Thread, decref_last(t)
  PROVE  ConnInv'
<1>. USE DEF ConnInv, Owed
<1>1. /\ at[t] = "decref" /\ ref_m_' = "free" /\ deleted' = dead_ /\ Goto(t, Dropped(t))
      /\ UNCHANGED <<mgr_, oldsrv, spurious, dead_, refno_, leaked, m_, wpdu_, watched,
                     callback, poll>>
  BY Zenon DEF decref_last, roleVars, refVars, ioVars, pollVars
<1>2. /\ Dropped(t) \in {"none", "gone"}
      /\ t \in Sender => Dropped(t) = "none"
      /\ t \in Holder => Dropped(t) = "gone"
  BY Threads, Zenon DEF Dropped, Holder
<1>3. Places' /\ \A u \in Thread : at'[u] = IF u = t THEN Dropped(t) ELSE at[u]
  BY <1>1, <1>2, OneMoves, Threads, Zenon DEF SenderPc, OwnerPc, LatestPc, Holder
<1>4. Shape'
  BY <1>1, Zenon DEF Shape
<1>5. RefsExact'
  <2>1. Counted' = Counted /\ "decref" \notin Counted /\ "none" \notin Counted
    BY <1>1, Zenon DEF Counted
  <2>2. Refs' = Refs
    BY <1>1, <1>2, <1>3, <2>1, Threads, Zenon DEF Refs
  <2>. QED
    BY <1>1, <2>2, RefsKeep, Zenon DEF refVars
<1>6. Roles'
  BY <1>1, <1>2, <1>3, Threads, Zenon DEF Roles, Uncounted, Holder
<1>7. Drops'
  BY <1>1, <1>2, <1>3, Threads, Zenon DEF Drops
<1>8. Quiet
  BY <1>1, <1>2, <1>3, Threads, Zenon DEF Quiet, Leaving, Busy, Served, Dying
<1>. QED
  BY <1>3, <1>4, <1>5, <1>6, <1>7, <1>8, QuietStep, Zenon

-----------------------------------------------------------------------------
(* The descriptor is taken from the poll thread.                           *)

(* PollMgr::block_remove_fd, up to its wait.                               *)
LEMMA BlockRemoveFd ==
  ASSUME ConnInv, NEW t \in Thread, block_remove_fd(t)
  PROVE  ConnInv'
<1>. USE DEF ConnInv, Served
<1>1. /\ at[t] = (IF t = None THEN "close" ELSE "failed") /\ watched' = {} /\ Goto(t, "block")
      /\ UNCHANGED <<mgr_, oldsrv, spurious, dead_, refno_, leaked, deleted, ref_m_, m_,
                     wpdu_, callback, poll>>
  BY Zenon DEF block_remove_fd, connVars, roleVars, refVars, ioVars
<1>2. t # Latest
  BY <1>1, Threads, Zenon DEF Places, LatestPc
<1>3. Places' /\ \A u \in Thread : at'[u] = IF u = t THEN "block" ELSE at[u]
  BY <1>1, <1>2, OneMoves, Zenon DEF SenderPc, OwnerPc
<1>4. Shape'
  BY <1>1, Zenon DEF Shape
<1>5. Owed'
  <2>1. Neutral
    BY <1>1, <1>2, <1>3, Threads, Zenon DEF Neutral, Inside, Closing
  <2>. QED
    BY <1>1, <2>1, NeutralStep, Zenon
<1>6. Dying'
  <2>1. dead_ /\ t \in Thread /\ at'[t] \in Leaving
    BY <1>1, <1>3, Zenon DEF Dying, Leaving
  <2>. QED
    BY <1>1, <2>1, Zenon DEF Dying
<1>7. Polled' /\ RemovedForGood'
  BY <1>1, <1>3, Zenon DEF Polled, RemovedForGood
<1>8. Writing'
  BY <1>1, <1>3, Threads, Zenon DEF Writing, Busy
<1>. QED
  BY <1>3, <1>4, <1>5, <1>6, <1>7, <1>8, Zenon

(* PollMgr::block_remove_fd, after its wait.                               *)
LEMMA BlockRemoveReturn ==
  ASSUME ConnInv, ~spurious, NEW t \in Thread, block_remove_return(t)
  PROVE  ConnInv'
<1>. USE DEF ConnInv, Served
<1>. DEFINE pc == IF t = None THEN "drop" ELSE "finish"
<1>1. /\ at[t] = "removed" /\ ~callback' /\ Goto(t, pc)
      /\ UNCHANGED <<mgr_, oldsrv, spurious, dead_, refno_, leaked, deleted, ref_m_, m_,
                     wpdu_, watched, poll>>
  BY Zenon DEF block_remove_return, connVars, roleVars, refVars, ioVars
<1>2. t # Latest /\ pc \in {"drop", "finish"} /\ (t = None <=> pc = "drop")
  BY <1>1, Threads, Zenon DEF Places, LatestPc
<1>. HIDE DEF pc
<1>3. Places' /\ \A u \in Thread : at'[u] = IF u = t THEN pc ELSE at[u]
  BY <1>1, <1>2, OneMoves, Threads, Zenon DEF SenderPc, OwnerPc
<1>4. Shape'
  BY <1>1, Zenon DEF Shape
<1>5. Owed'
  <2>1. Neutral
    BY <1>1, <1>2, <1>3, Threads, Zenon DEF Neutral, Inside, Closing
  <2>. QED
    BY <1>1, <2>1, NeutralStep, Zenon
<1>6. Dying'
  <2>1. dead_ /\ Detached'
    BY <1>1, Zenon DEF Dying, Leaving, RemovedForGood, Detached, Called
  <2>2. \A u \in Thread : at'[u] \in {"block", "removed"} => watched' = {}
    BY <1>1, <1>2, <1>3, Zenon DEF RemovedForGood
  <2>. QED
    BY <1>1, <2>1, <2>2, Zenon DEF Dying
<1>7. Polled' /\ RemovedForGood'
  BY <1>1, <1>2, <1>3, Zenon DEF Polled, RemovedForGood
<1>8. Writing'
  BY <1>1, <1>2, <1>3, Threads, Zenon DEF Writing, Busy
<1>. QED
  BY <1>3, <1>4, <1>5, <1>6, <1>7, <1>8, Zenon

(* A wakeup without a signal.                                              *)
LEMMA SpuriousStep ==
  ASSUME ConnInv, NEW t \in Thread, SpuriousWakeup(t)
  PROVE  ConnInv'
<1>. USE DEF ConnInv, Served
<1>1. /\ at[t] = "block" /\ spurious' /\ Goto(t, "removed")
      /\ UNCHANGED <<mgr_, oldsrv, dead_, refno_, leaked, deleted, ref_m_, m_, wpdu_,
                     watched, callback, poll>>
  BY Zenon DEF SpuriousWakeup, roleVars, refVars, ioVars, pollVars
<1>2. t # Latest
  BY <1>1, Zenon DEF Places, LatestPc
<1>3. Places' /\ \A u \in Thread : at'[u] = IF u = t THEN "removed" ELSE at[u]
  BY <1>1, <1>2, OneMoves, Zenon DEF SenderPc, OwnerPc
<1>4. Shape'
  BY <1>1, Zenon DEF Shape
<1>5. Owed'
  <2>1. Neutral
    BY <1>1, <1>2, <1>3, Threads DEF Neutral, Inside, Closing
  <2>. QED
    BY <1>1, <2>1, NeutralStep, Zenon
<1>6. Dying'
  <2>1. dead_ /\ watched = {} /\ at'[t] \in Leaving
    BY <1>1, <1>3, Zenon DEF Dying, Leaving
  <2>. QED
    BY <1>1, <2>1, Zenon DEF Dying
<1>7. Polled' /\ RemovedForGood'
  BY <1>1, Zenon DEF Polled, RemovedForGood
<1>8. Writing'
  BY <1>1, <1>3, Threads, Zenon DEF Writing, Busy
<1>. QED
  BY <1>3, <1>4, <1>5, <1>6, <1>7, <1>8, Zenon

(* connection::closeconn.                                                  *)
LEMMA Closeconn ==
  ASSUME ConnInv, closeconn
  PROVE  ConnInv'
<1>. USE DEF ConnInv, Served
<1>. DEFINE pc == IF dead_ THEN "drop" ELSE "close"
<1>1. /\ at[None] = "own" /\ ~m_ /\ dead_' /\ Goto(None, pc)
      /\ UNCHANGED <<mgr_, oldsrv, spurious, refno_, leaked, deleted, ref_m_, m_, wpdu_,
                     watched, callback, poll>>
  BY Zenon DEF closeconn, Dies, roleVars, refVars, pollVars
<1>2. pc \in {"drop", "close"} /\ (pc = "close" <=> ~dead_)
  OBVIOUS
<1>. HIDE DEF pc
<1>3. Places' /\ \A u \in Thread : at'[u] = IF u = None THEN pc ELSE at[u]
  BY <1>1, <1>2, OneMoves, Threads, Zenon DEF OwnerPc
<1>4. Shape'
  BY <1>1, Zenon DEF Shape
<1>5. Owed'
  <2>1. Neutral
    BY <1>1, <1>2, <1>3, Threads, Zenon DEF Neutral, Closing
  <2>. QED
    BY <1>1, <2>1, NeutralStep, Zenon
<1>6. \A t \in Thread : at'[t] \in {"block", "removed"} => at'[t] = at[t]
  BY <1>2, <1>3, Zenon
<1>7. Dying'
  <2>1. CASE dead_
    <3>1. Detached' = Detached /\ \A t \in Thread : at'[t] \in Leaving <=> at[t] \in Leaving
      BY <1>1, <1>2, <1>3, <2>1, Zenon DEF Detached, Leaving
    <3>. QED
      BY <1>1, <1>6, <2>1, <3>1, Zenon DEF Dying
  <2>2. CASE ~dead_
    <3>1. None \in Thread /\ at'[None] \in Leaving
      BY <1>2, <1>3, <2>2, Threads, Zenon DEF Leaving
    <3>. QED
      BY <1>1, <1>6, <3>1, Zenon DEF Dying
  <2>. QED
    BY <2>1, <2>2, Zenon
<1>8. Polled' /\ RemovedForGood'
  BY <1>1, <1>6, Zenon DEF Polled, RemovedForGood
<1>9. Writing'
  BY <1>1, <1>3, Threads, Zenon DEF Writing
<1>. QED
  BY <1>3, <1>4, <1>5, <1>7, <1>8, <1>9, Zenon

-----------------------------------------------------------------------------
(* The poll thread.                                                        *)

(* PollMgr::wait_loop wakes those who wait in block_remove_fd.             *)
LEMMA WaitLoop ==
  ASSUME ConnInv, wait_loop
  PROVE  ConnInv'
<1>. USE DEF ConnInv, Served
<1>1. /\ poll.pc = "top" /\ poll.ready = {}
      /\ poll' = [pc |-> "snapshot", ready |-> {}]
      /\ UNCHANGED <<mgr_, oldsrv, spurious, dead_, refno_, leaked, deleted, ref_m_, m_,
                     wpdu_, watched, callback>>
  <2>1. poll.pc = "top" /\ poll' = [poll EXCEPT !.pc = "snapshot"]
    BY Zenon DEF wait_loop
  <2>2. poll.ready = {} /\ poll' = [pc |-> "snapshot", ready |-> {}]
    BY <2>1, Zenon DEF Shape, Polled
  <2>. QED
    BY <2>1, <2>2, Zenon DEF wait_loop, connVars, roleVars, refVars, ioVars
<1>2. Places' /\ \A u \in Thread : at'[u] = at[u] \/ (at[u] = "block" /\ at'[u] = "removed")
  <2>1. CASE at' = at
    BY <2>1, Zenon DEF Places
  <2>2. CASE at' = Waking("block", "removed")
    <3>1. "block" \notin LatestPc /\ "removed" \in SenderPc \cap OwnerPc
      BY Zenon DEF SenderPc, OwnerPc, LatestPc
    <3>2. Places' /\ \A u \in Thread : at'[u] = IF at[u] = "block" THEN "removed" ELSE at[u]
      BY <2>2, <3>1, SomeWoken, Zenon
    <3>. QED
      BY <3>2, Zenon
  <2>. QED
    BY <2>1, <2>2, Zenon DEF wait_loop
<1>3. Shape'
  BY <1>1, Zenon DEF Shape, PollPc
<1>4. Owed'
  <2>1. at[Latest] # "block"
    BY Zenon DEF Places, LatestPc
  <2>2. Neutral
    BY <1>2, <2>1, Threads, Zenon DEF Neutral, Inside, Closing
  <2>. QED
    BY <1>1, <2>2, NeutralStep, Zenon
<1>5. \A t \in Thread : /\ at'[t] \in Leaving <=> at[t] \in Leaving
                        /\ at'[t] \in {"block", "removed"} <=> at[t] \in {"block", "removed"}
                        /\ at'[t] = "own" <=> at[t] = "own"
  BY <1>2, Zenon DEF Leaving
<1>6. Dying'
  <2>1. Detached' <=> Detached
    BY <1>1, Zenon DEF Detached, Called
  <2>. QED
    BY <1>1, <1>5, <2>1, Threads, Zenon DEF Dying
<1>7. Polled' /\ RemovedForGood'
  BY <1>1, <1>5, Zenon DEF Polled, RemovedForGood, Dying
<1>8. Writing'
  BY <1>1, <1>2, Threads, Zenon DEF Writing, Busy
<1>. QED
  BY <1>2, <1>3, <1>4, <1>6, <1>7, <1>8, Zenon

(* wait_ready, select, the call of what is registered and the beginning of *)
(* read_cb are turns.                                                      *)
LEMMA PollTurns ==
  ASSUME ConnInv, \/ wait_ready \/ call_back \/ read_cb
                  \/ \E found \in SUBSET {"r", "w"} : select(found)
  PROVE  ConnInv'
<1>. USE DEF ConnInv, Served
<1>0. poll \in [pc : PollPc, ready : SUBSET {"r", "w"}] /\ watched \subseteq {"r", "w"}
  BY Zenon DEF Shape
<1>1. ASSUME wait_ready PROVE Turn
  <2>1. poll.pc = "snapshot" /\ poll' = [pc |-> "select", ready |-> watched]
    BY <1>1, Zenon DEF wait_ready
  <2>2. UNCHANGED <<mgr_, oldsrv, spurious, dead_, refno_, leaked, deleted, ref_m_,
  wpdu_, m_,
                    at, watched, callback>>
    BY <1>1, Zenon DEF wait_ready, connVars, roleVars, refVars, ioVars
  <2>. QED
    BY <1>0, <2>1, <2>2, Zenon DEF Turn, Polled, PollPc, Called
<1>2. ASSUME NEW found \in SUBSET {"r", "w"}, select(found) PROVE Turn
  <2>1. /\ poll.pc = "select" /\ poll' = [pc |-> "ready", ready |-> found]
        /\ found \subseteq poll.ready
    BY <1>2, Zenon DEF select
  <2>2. UNCHANGED <<mgr_, oldsrv, spurious, dead_, refno_, leaked, deleted, ref_m_,
  wpdu_, m_,
                    at, watched, callback>>
    BY <1>2, Zenon DEF select, connVars, roleVars, refVars, ioVars
  <2>. QED
    BY <1>0, <2>1, <2>2, Zenon DEF Turn, Polled, PollPc, Called
<1>3. ASSUME call_back PROVE Turn
  <2>1. /\ poll.pc = "ready" /\ poll'.pc \in {"top", "read_cb", "write_cb"}
        /\ poll' \in [pc : PollPc, ready : SUBSET {"r", "w"}]
        /\ poll'.ready \subseteq poll.ready /\ (poll'.pc = "top" => poll'.ready = {})
        /\ (poll'.pc # "top" => callback /\ poll.ready # {})
    BY <1>0, <1>3, Zenon DEF call_back, PollPc
  <2>2. UNCHANGED <<mgr_, oldsrv, spurious, dead_, refno_, leaked, deleted, ref_m_,
  wpdu_, m_,
                    at, watched, callback>>
    BY <1>3, Zenon DEF call_back, connVars, roleVars, refVars, ioVars
  <2>. QED
    BY <2>1, <2>2, Zenon DEF Turn, Polled, Called
<1>4. ASSUME read_cb PROVE Turn
  <2>1. /\ poll.pc = "read_cb" /\ poll'.ready \subseteq poll.ready
        /\ poll' \in [pc : PollPc, ready : SUBSET {"r", "w"}]
        /\ \/ dead_ /\ poll'.pc = "ready" /\ m_' = m_
           \/ ~dead_ /\ poll'.pc = "reading" /\ m_'
    BY <1>0, <1>4 DEF read_cb, Back, PollPc
  <2>2. UNCHANGED <<mgr_, oldsrv, spurious, dead_, refno_, leaked, deleted, ref_m_, wpdu_,
                    at, watched, callback>>
    BY <1>4, Zenon DEF read_cb, roleVars, refVars
  <2>. QED
    BY <2>1, <2>2 DEF Turn, Polled, Called
<1>. QED
  BY <1>1, <1>2, <1>3, <1>4, TurnStep, Zenon

(* The connection is found broken by the poll thread, which stops watching *)
(* it and wakes the thread whose message is being written.                 *)
LEMMA PollFails ==
  ASSUME ConnInv, poll.pc \in {"reading", "write_cb"}, ~dead_, dead_', ~m_',
         watched' = {}, ~callback', at' = Waking("send_complete", "finish"),
         NEW flag, Back(flag),
         wpdu_' \in [by : Sender \cup {None}, left : Nat], wpdu_'.by = wpdu_.by,
         wpdu_'.by = None => wpdu_'.left = 0,
         UNCHANGED <<roleVars, spurious, refVars, deleted, ref_m_>>
  PROVE  ConnInv'
<1>. USE DEF ConnInv, Served
<1>1. UNCHANGED <<mgr_, oldsrv, spurious, refno_, leaked, deleted, ref_m_>>
  BY Zenon DEF roleVars, refVars
<1>2. /\ poll'.pc = "ready" /\ poll' \in [pc : PollPc, ready : SUBSET {"r", "w"}]
  BY Zenon DEF Back, Shape, PollPc
<1>3. Places' /\ \A u \in Thread : at'[u] = IF at[u] = "send_complete" THEN "finish" ELSE at[u]
  <2>1. "send_complete" \notin OwnerPc \cup LatestPc /\ "finish" \in SenderPc
    BY Zenon DEF SenderPc, OwnerPc, LatestPc
  <2>. QED
    BY <2>1, SomeWoken
<1>4. Shape'
  BY <1>1, <1>2, Zenon DEF Shape
<1>5. Owed'
  <2>1. at[None] # "send_complete" /\ at[Latest] # "send_complete"
    BY Zenon DEF Places, OwnerPc, LatestPc
  <2>2. Neutral
    BY <1>3, <2>1, Threads, Zenon DEF Neutral, Inside
  <2>. QED
    BY <1>1, <2>2, NeutralStep, Zenon
<1>6. Dying'
  BY <1>2, Zenon DEF Dying, Detached, Called
<1>7. Polled'
  BY <1>2, Zenon DEF Polled
<1>8. RemovedForGood'
  <2>1. \A t \in Thread : at'[t] # "removed" \/ spurious
    BY <1>3, Zenon DEF RemovedForGood
  <2>. QED
    BY <1>1, <2>1 DEF RemovedForGood
<1>9. Writing'
  BY <1>3, Threads, Zenon DEF Writing, Busy
<1>. QED
  BY <1>3, <1>4, <1>5, <1>6, <1>7, <1>8, <1>9, Zenon

(* connection::read_cb finds the connection broken.                        *)
LEMMA ReadCbFailed ==
  ASSUME ConnInv, read_cb_failed
  PROVE  ConnInv'
<1>1. watched' = {} /\ ~callback' /\ dead_'
  BY Zenon DEF read_cb_failed, del_callback, Dies, ConnInv, Shape
<1>2. poll.pc = "reading" /\ ~dead_ /\ wpdu_' = wpdu_
  BY Zenon DEF read_cb_failed, ConnInv, Served, Polled
<1>3. wpdu_ \in [by : Sender \cup {None}, left : Nat] /\ (wpdu_.by = None => wpdu_.left = 0)
  BY Zenon DEF ConnInv, Shape, Served, Writing
<1>. QED
  BY <1>1, <1>2, <1>3, PollFails, Zenon DEF read_cb_failed

(* rpcs::got_pdu takes a message, and a reference for it.                  *)
LEMMA ReadTaken ==
  ASSUME Sizes, ConnInv, read_cb_read, NEW s \in Sender, mgr_ = "rpcs", incref(s,
  "dispatch")
  PROVE  ConnInv'
<1>. USE DEF ConnInv, Served
<1>1. /\ poll.pc = "reading" /\ ~dead_ /\ ~m_' /\ Back("r")
      /\ UNCHANGED <<mgr_, oldsrv, spurious, dead_, deleted, ref_m_, wpdu_, watched, callback>>
  BY Zenon DEF read_cb_read, Polled, roleVars
<1>2. /\ poll'.pc = "ready" /\ poll'.ready \subseteq poll.ready
      /\ poll' \in [pc : PollPc, ready : SUBSET {"r", "w"}]
  BY <1>1, Zenon DEF Back, Shape, PollPc
<1>3. /\ Places' /\ Owed' /\ refno_' \in Nat /\ leaked' = leaked /\ at[s] = "none"
      /\ \A u \in Thread : at'[u] = IF u = s THEN "dispatch" ELSE at[u]
  <2>1. refno_ # 0
    BY <1>1, Zenon DEF Owed, Drops
  <2>. QED
    BY <1>1, <2>1, Increfs, Zenon
<1>4. Shape'
  BY <1>1, <1>2, <1>3, Zenon DEF Shape
<1>5. \A t \in Thread : /\ at'[t] \in Leaving <=> at[t] \in Leaving
                        /\ at'[t] \in {"block", "removed"} => at'[t] = at[t]
                        /\ at'[t] \in Busy <=> at[t] \in Busy
                        /\ at'[t] # "own" => at[t] # "own"
  BY <1>3, Threads, Zenon DEF Leaving, Busy
<1>6. Dying'
  BY <1>1, <1>5, Threads, Zenon DEF Dying, Leaving
<1>7. Polled'
  BY <1>1, <1>2, Zenon DEF Polled
<1>8. RemovedForGood'
  BY <1>1, <1>5, Zenon DEF RemovedForGood
<1>9. Writing'
  BY <1>1, <1>5, Threads, Zenon DEF Writing
<1>. QED
  BY <1>3, <1>4, <1>6, <1>7, <1>8, <1>9, Zenon

(* connection::read_cb, after readpdu: what is read is a message that is   *)
(* taken, or is refused or not yet whole.                                  *)
LEMMA ReadCbRead ==
  ASSUME Sizes, ConnInv, read_cb_read
  PROVE  ConnInv'
<1>1. CASE UNCHANGED <<refVars, at>>
  <2>. USE DEF ConnInv, Served
  <2>1. /\ poll.pc = "reading" /\ ~dead_ /\ ~m_' /\ Back("r")
        /\ UNCHANGED <<mgr_, oldsrv, spurious, dead_, refno_, leaked, deleted, ref_m_, wpdu_, at,
                       watched, callback>>
    BY <1>1, Zenon DEF read_cb_read, Polled, roleVars, refVars
  <2>2. /\ poll'.pc = "ready" /\ poll'.ready \subseteq poll.ready
        /\ poll' \in [pc : PollPc, ready : SUBSET {"r", "w"}]
    BY <2>1, Zenon DEF Back, Shape, PollPc
  <2>3. Turn
    BY <2>1, <2>2, Zenon DEF Turn, Called
  <2>. QED
    BY <2>3, TurnStep, Zenon
<1>2. CASE mgr_ = "rpcs" /\ \E s \in Sender : incref(s, "dispatch")
  BY <1>2, ReadTaken, Zenon
<1>. QED
  BY <1>1, <1>2, Zenon DEF read_cb_read, got_pdu_taken, got_pdu_refused

(* connection::write_cb finds nothing to write.                            *)
LEMMA WriteNothing ==
  ASSUME ConnInv, write_cb, del_callback({"w"}), UNCHANGED <<dead_, wpdu_, at>>
  PROVE  ConnInv'
<1>. USE DEF ConnInv, Served
<1>1. /\ poll.pc = "write_cb" /\ ~dead_ /\ Back("w")
      /\ watched' \subseteq watched /\ (callback' => callback)
      /\ UNCHANGED <<mgr_, oldsrv, spurious, dead_, refno_, leaked, deleted, ref_m_, m_, wpdu_,
                     at>>
  BY Zenon DEF write_cb, del_callback, roleVars, refVars
<1>2. /\ poll'.pc = "ready" /\ poll'.ready \subseteq poll.ready
      /\ poll' \in [pc : PollPc, ready : SUBSET {"r", "w"}]
  BY <1>1, Zenon DEF Back, Shape, PollPc
<1>3. Turn
  BY <1>1, <1>2, Zenon DEF Turn, Called, Polled
<1>. QED
  BY <1>3, TurnStep, Zenon

(* connection::write_cb writes on.                                         *)
LEMMA WriteSome ==
  ASSUME ConnInv, poll.pc = "write_cb", ~dead_, Back("w"), wpdu_.by # None,
         NEW n \in 0..wpdu_.left, wpdu_' = [wpdu_ EXCEPT !.left = @ - n],
         at' = at \/ at' = Waking("send_complete", "finish"),
         UNCHANGED <<dead_, watched, callback>>,
         UNCHANGED <<roleVars, spurious, refVars, deleted, ref_m_, m_>>
  PROVE  ConnInv'
<1>. USE DEF ConnInv, Served
<1>1. UNCHANGED <<mgr_, oldsrv, spurious, dead_, refno_, leaked, deleted, ref_m_, m_, watched,
                  callback>>
  BY Zenon DEF roleVars, refVars
<1>2. /\ poll'.pc = "ready" /\ poll'.ready \subseteq poll.ready
      /\ poll' \in [pc : PollPc, ready : SUBSET {"r", "w"}]
      /\ wpdu_' \in [by : Sender \cup {None}, left : Nat] /\ wpdu_'.by = wpdu_.by
  BY DEF Back, Shape, PollPc
<1>3. /\ Places'
      /\ \A u \in Thread : at'[u] = at[u] \/ (at[u] = "send_complete" /\ at'[u] = "finish")
  <2>1. CASE at' = at
    BY <2>1, Zenon DEF Places
  <2>2. CASE at' = Waking("send_complete", "finish")
    <3>1. "send_complete" \notin OwnerPc \cup LatestPc /\ "finish" \in SenderPc
      BY Zenon DEF SenderPc, OwnerPc, LatestPc
    <3>2. Places' /\ \A u \in Thread : at'[u] = IF at[u] = "send_complete" THEN "finish" ELSE at[u]
      BY <2>2, <3>1, SomeWoken
    <3>. QED
      BY <3>2, Zenon
  <2>. QED
    BY <2>1, <2>2, Zenon
<1>4. Shape'
  BY <1>1, <1>2, Zenon DEF Shape
<1>5. at[None] # "send_complete" /\ at[Latest] # "send_complete"
  BY Zenon DEF Places, OwnerPc, LatestPc
<1>6. Owed'
  <2>1. Neutral
    BY <1>3, <1>5, Threads, Zenon DEF Neutral, Inside
  <2>. QED
    BY <1>1, <2>1, NeutralStep, Zenon
<1>7. \A t \in Thread : /\ at'[t] \in Leaving <=> at[t] \in Leaving
                        /\ at'[t] \in {"block", "removed"} => at'[t] = at[t]
                        /\ at'[t] \in Busy <=> at[t] \in Busy
  BY <1>3, Zenon DEF Leaving, Busy
<1>8. Dying'
  BY <1>1, <1>3, <1>5, <1>7, Threads DEF Dying, Leaving
<1>9. Polled'
  BY <1>1, <1>2 DEF Polled
<1>10. RemovedForGood'
  BY <1>1, <1>7 DEF RemovedForGood
<1>11. Writing'
  BY <1>2, <1>7, Threads, Zenon DEF Writing
<1>. QED
  BY <1>3, <1>4, <1>6, <1>8, <1>9, <1>10, <1>11, Zenon

(* connection::write_cb.                                                   *)
LEMMA WriteCb ==
  ASSUME ConnInv, write_cb
  PROVE  ConnInv'
<1>1. CASE wpdu_.by = None /\ del_callback({"w"}) /\ UNCHANGED <<dead_, wpdu_, readVars, at>>
  BY <1>1, WriteNothing, Zenon
<1>2. CASE /\ wpdu_.by # None /\ del_callback({"r", "w"}) /\ Dies
           /\ at' = Waking("send_complete", "finish")
           /\ wpdu_' = [wpdu_ EXCEPT !.left = 0]
  <2>1. watched' = {} /\ ~callback' /\ dead_'
    BY <1>2, Zenon DEF del_callback, Dies, ConnInv, Shape
  <2>2. wpdu_' \in [by : Sender \cup {None}, left : Nat] /\ wpdu_'.by = wpdu_.by
    BY <1>2, Zenon DEF ConnInv, Shape
  <2>3. ~m_'
    BY Zenon DEF write_cb, ConnInv, Served, Polled
  <2>. QED
    BY <1>2, <2>1, <2>2, <2>3, PollFails, Zenon DEF write_cb
<1>3. ASSUME wpdu_.by # None, NEW n \in 0..wpdu_.left,
             wpdu_' = [wpdu_ EXCEPT !.left = @ - n],
             at' = at \/ at' = Waking("send_complete", "finish"),
             UNCHANGED <<dead_, readVars, watched, callback, pipe>>
      PROVE  ConnInv'
  BY <1>3, WriteSome, Zenon DEF write_cb
<1>. QED
  BY <1>1, <1>2, <1>3, Zenon DEF write_cb

(* The network, and steps of others, change nothing the invariant is about. *)
LEMMA NothingStep ==
  ASSUME ConnInv, Break \/ Arrive \/ UNCHANGED vars
  PROVE  ConnInv'
<1>1. UNCHANGED <<mgr_, oldsrv, spurious, dead_, refno_, leaked, deleted, ref_m_, m_, wpdu_,
                  watched, callback, poll, at>>
  BY Zenon DEF Break, Arrive, vars, connVars, roleVars, refVars, ioVars, pollVars
<1>2. Shape' /\ Places'
  BY <1>1, Zenon DEF ConnInv, Shape, Places
<1>3. Owed'
  BY <1>1, NeutralStep, Zenon DEF ConnInv, Neutral
<1>4. Quiet
  BY <1>1, Zenon DEF Quiet
<1>. QED
  BY <1>2, <1>3, <1>4, QuietStep, Zenon DEF ConnInv

-----------------------------------------------------------------------------
(* A new connection has one reference, its owner's.                        *)
LEMMA ConnInitial == ASSUME Sizes, Init PROVE ConnInv
<1>1. /\ at = [t \in Thread |-> IF t = None THEN "own" ELSE "none"]
      /\ \A t \in Thread : at[t] = IF t = None THEN "own" ELSE "none"
  BY Zenon DEF Init
<1>2. Shape /\ Places
  <2>1. Places
    BY <1>1, Threads, Zenon DEF Places, Pc, SenderPc, OwnerPc, LatestPc
  <2>2. Shape
    BY Zenon DEF Init, NoPdu, Shape, PollPc
  <2>. QED
    BY <2>1, <2>2, Zenon
<1>3. Refs = {None}
  BY <1>1, ConnAssumption, Zenon DEF Refs, Counted, SenderPc, Thread, Holder
<1>4. RefsExact
  <2>1. Cardinality(Refs) = 1
    <3>1. IsFiniteSet({}) /\ Cardinality({}) = 0
      BY ConnAssumption, Zenon DEF Sizes
    <3>2. Cardinality({} \cup {None}) = 1
      BY <3>1 DEF Sizes
    <3>. QED
      BY <1>3, <3>2, Zenon
  <2>. QED
    BY <2>1 DEF Init, RefsExact
<1>5. Roles /\ Dying /\ RemovedForGood
  BY <1>1, Threads, Zenon DEF Init, Roles, Uncounted, Dying, Leaving, RemovedForGood
<1>6. Drops
  BY <1>1, Threads DEF Init, Drops
<1>7. Polled
  BY Zenon DEF Init, Polled
<1>8. Writing
  BY <1>1, Threads, Zenon DEF Init, Writing, Busy, NoPdu
<1>. QED
  BY <1>2, <1>4, <1>5, <1>6, <1>7, <1>8, Zenon DEF ConnInv, Owed, Served

(* Every step keeps the invariant.                                         *)
LEMMA ConnStep == ASSUME Sizes, ConnInv, [Next]_vars PROVE ConnInv'
<1>1. ASSUME NEW s \in Sender,
             get_refconn(s) \/ dispatch_latest(s) \/ Using(s)
      PROVE  ConnInv'
  <2>1. CASE get_refconn(s) \/ dispatch_latest(s)
    BY <2>1, GetRefconn, Zenon
  <2>2. CASE dispatch_drop(s)
    BY <2>2, DropSteps, Zenon
  <2>3. CASE dispatch_old(s) \/ dispatch_known(s) \/ dispatch_save(s)
    BY <2>3, DispatchOld, DispatchKnown, DispatchSave, Zenon
  <2>4. CASE send(s) \/ send_finish(s)
    BY <2>4, SendStep, SendFinish, Zenon
  <2>. QED
    BY <1>1, <2>1, <2>2, <2>3, <2>4, Zenon DEF Using, Dispatching
<1>2. ASSUME NEW t \in Thread, ~spurious, Letting(t) \/ SpuriousWakeup(t)
      PROVE  ConnInv'
  BY <1>2, DecrefBy, DecrefLast, BlockRemoveFd, BlockRemoveReturn, SpuriousStep, Zenon DEF
     Letting, decref
<1>3. ASSUME dispatch_newer
      PROVE  ConnInv'
  BY <1>3, DecrefBy, Zenon DEF dispatch_newer, Thread, Holder
<1>4. ASSUME Polling
      PROVE  ConnInv'
  BY <1>4, WaitLoop, PollTurns, ReadCbFailed, ReadCbRead, WriteCb, Zenon DEF Polling
<1>5. CASE DropDead \/ closeconn
  BY <1>5, DropSteps, Closeconn, Zenon
<1>6. CASE Break \/ Arrive \/ UNCHANGED vars
  BY <1>6, NothingStep, Zenon
<1>7. CASE \E found \in SUBSET {"r", "w"} : select(found)
  BY <1>7, PollTurns, Zenon
<1>. QED
  BY <1>1, <1>2, <1>3, <1>4, <1>5, <1>6, <1>7, Zenon DEF Next

(* A connection that is deleted is out of everybody's reach.               *)
LEMMA ConnSafe == ASSUME Sizes, ConnInv PROVE NoUseAfterDelete
<1>. USE DEF ConnInv, Owed, Served
<1>1. refno_ = 0 => dead_
  BY Zenon DEF Drops
<1>2. ASSUME deleted
      PROVE  /\ ~callback /\ watched = {}
             /\ poll.pc \notin {"read_cb", "reading", "write_cb"}
             /\ \A s \in Sender : at[s] = "none"
             /\ at[Latest] # "own"
             /\ wpdu_ = NoPdu
  <2>1. refno_ = 0 /\ ref_m_ = "free" /\ dead_
    BY <1>2, Zenon DEF Drops
  <2>2. Refs = {} /\ leaked = 0
    BY <2>1, RefsNone, Zenon
  <2>3. \A t \in Thread : at[t] # "decref"
    BY <2>1, Threads, Zenon DEF Drops
  <2>4. \A s \in Sender : at[s] = "none"
    <3>1. SUFFICES ASSUME NEW s \in Sender PROVE at[s] = "none"
      OBVIOUS
    <3>2. at[s] \in SenderPc /\ at[s] \notin Counted /\ at[s] # "decref"
      BY <2>2, <2>3, Zenon DEF Places, Refs, Thread
    <3>3. CASE oldsrv
      BY <2>2, <3>2, <3>3 DEF Roles, Uncounted, Counted
    <3>4. CASE ~oldsrv
      BY <3>2, <3>4, Zenon DEF Counted
    <3>. QED
      BY <3>3, <3>4, Zenon
  <2>5. at[None] \in {"none", "decref", "gone"} /\ at[Latest] \in {"none", "decref", "gone"}
    BY <2>2, Zenon DEF Refs, Holder
  <2>6. \A t \in Thread : at[t] \notin Leaving
    BY <2>4, <2>5, Zenon DEF Thread, Holder, Leaving
  <2>7. Detached
    BY <2>1, <2>6, Zenon DEF Dying
  <2>8. wpdu_ = NoPdu
    <3>1. wpdu_.by = None /\ wpdu_.left = 0
      BY <2>4 DEF Shape, Writing, Busy
    <3>. QED
      BY <3>1, Zenon DEF Shape, NoPdu
  <2>. QED
    BY <2>4, <2>5, <2>7, <2>8, Zenon DEF Detached, Called
<1>. QED
  BY <1>1, <1>2, Zenon DEF NoUseAfterDelete

-----------------------------------------------------------------------------
INSTANCE FiniteSetTheorems

(* The facts about Cardinality that the steps rest on.                     *)
LEMMA SizesHold == Sizes
<1>. SUFFICES ASSUME NEW S, IsFiniteSet(S)
              PROVE  /\ Cardinality(S) \in Nat /\ (Cardinality(S) = 0 <=> S = {})
                     /\ \A T \in SUBSET S : IsFiniteSet(T)
                     /\ \A x : /\ IsFiniteSet(S \cup {x})
                               /\ x \notin S => Cardinality(S \cup {x}) = Cardinality(S) + 1
                               /\ x \in S => Cardinality(S \ {x}) = Cardinality(S) - 1
  BY Zenon DEF Sizes
<1>1. Cardinality(S) \in Nat /\ (Cardinality(S) = 0 <=> S = {})
  BY FS_CardinalityType, FS_EmptySet, Zenon
<1>2. \A T \in SUBSET S : IsFiniteSet(T)
  BY FS_Subset, Zenon
<1>3. ASSUME NEW x
      PROVE  /\ IsFiniteSet(S \cup {x})
             /\ x \notin S => Cardinality(S \cup {x}) = Cardinality(S) + 1
             /\ x \in S => Cardinality(S \ {x}) = Cardinality(S) - 1
  BY FS_AddElement, FS_RemoveElement, Zenon
<1>. QED
  BY <1>1, <1>2, <1>3, Zenon

(* The inductive invariant holds in every reachable state.                 *)
THEOREM ConnInvariant == Spec => []ConnInv
<1>1. Init => ConnInv
  BY SizesHold, ConnInitial, Zenon
<1>2. ConnInv /\ [Next]_vars => ConnInv'
  BY SizesHold, ConnStep, Zenon
<1>. QED
  BY <1>1, <1>2, PTL DEF Spec

(* incref and decref: for any number of senders, in any order of sends,    *)
(* failures, closing and answers for old instances, refno_ is the number   *)
(* of references that will be dropped or have been lost.                   *)
THEOREM RefsAlwaysExact == Spec => []RefsExact
<1>1. ConnInv => RefsExact
  BY Zenon DEF ConnInv, Owed
<1>. QED
  BY <1>1, ConnInvariant, PTL

(* ~connection: it runs only when no callback, no sender and no entry of   *)
(* rpcs::conns_ is left that can touch the connection.                     *)
THEOREM DeletionSafe == Spec => []NoUseAfterDelete
<1>1. ConnInv => NoUseAfterDelete
  BY SizesHold, ConnSafe, Zenon
<1>. QED
  BY <1>1, ConnInvariant, PTL

(* PollMgr::block_remove_fd keeps the promise of pollmgr.cc:57-59, for any *)
(* number of threads in it, if its wait ends only by the broadcast.        *)
THEOREM RemovalFinal == Spec => []RemovedForGood
<1>1. ConnInv => RemovedForGood
  BY Zenon DEF ConnInv, Served
<1>. QED
  BY <1>1, ConnInvariant, PTL
=============================================================================
