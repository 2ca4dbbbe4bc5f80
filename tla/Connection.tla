----------------------------- MODULE Connection -----------------------------
(***************************************************************************)
(* One TCP connection (rpc/connection.cc) and the thread that polls it     *)
(* (rpc/pollmgr.cc): threads that send on it, the poll thread that reads   *)
(* and goes on writing, and the owner of its first reference, which is an  *)
(* rpcc (chan_) or a tcpsconn (conns_), whose rpcs's dispatch threads send. *)
(* The rpcs keeps a reference of its own to the latest connection of each  *)
(* client (rpcs::conns_).                                                  *)
(*                                                                         *)
(* A step is a critical section of the connection's mutex m_ or of         *)
(* PollMgr's; mutexes that are held across a step are variables.           *)
(***************************************************************************)
EXTENDS Naturals, FiniteSets

CONSTANTS
  Sender,      \* threads that send on the connection
  PduSize,     \* bound: parts of a message, the first of which is its size
  MaxArrived,  \* bound: parts of messages in the socket, still to be read
  MaxLeak,     \* bound: requests answered for an old instance of the server
  Latest,      \* the entry of rpcs::conns_ for the client
  None

ASSUME ConnAssumption ==
  /\ IsFiniteSet(Sender)
  /\ PduSize \in Nat \ {0, 1} /\ MaxArrived \in Nat /\ MaxLeak \in Nat
  /\ None \notin Sender /\ Latest \notin Sender \cup {None}
  /\ "free" \notin Sender \cup {None, Latest}

VARIABLES
  mgr_,             \* whom the constructor was given: an rpcc or an rpcs
  spurious,         \* history: block_remove_fd was woken without a signal
  dead_, refno_,
  deleted,          \* the destructor has run
  ref_m_,           \* a decref to zero holds ref_m_ and wants m_
  m_,               \* the poll thread is in read_cb and holds m_
  wpdu_,            \* the thread whose message is being written, bytes left
  rpdu_,            \* while it lives, parts of the message being read
  oldsrv,           \* the client was bound to an earlier instance of the server
  leaked,           \* history: references that are never dropped
  broken,           \* the socket was shut down, or the peer is gone
  arrived,          \* while it lives, parts of messages in the socket
  watched,          \* {"r", "w"}: the sets fd_ is in
  callback,         \* callbacks_[fd_] is this connection
  pending_change_,
  pipe,             \* a byte in pipefd_ makes select return
  poll,             \* where the poll thread is; what select found ready
  at                \* where each sender, the owner (None) and Latest are

roleVars == <<mgr_, oldsrv>>
readVars == <<rpdu_, arrived>>
refVars == <<refno_, leaked>>
ioVars == <<wpdu_, readVars, broken>>
connVars == <<roleVars, spurious, dead_, refVars, deleted, ref_m_, m_, ioVars>>
pollVars == <<watched, callback, pending_change_, pipe, poll>>
vars == <<connVars, pollVars, at>>

Holder == {None, Latest}
Thread == Sender \cup Holder
NoPdu == [by |-> None, left |-> 0]

SenderPc == {"none", "dispatch", "ready", "send_wait", "send", "send_complete", "failed",
             "block", "removed", "finish", "drop", "decref"}
OwnerPc == {"own", "close", "block", "removed", "drop", "decref", "gone"}
LatestPc == {"none", "own", "decref", "gone"}

TypeOK ==
  /\ mgr_ \in {"rpcc", "rpcs"} /\ spurious \in BOOLEAN
  /\ dead_ \in BOOLEAN /\ deleted \in BOOLEAN /\ broken \in BOOLEAN
  /\ refno_ \in Nat /\ oldsrv \in BOOLEAN /\ leaked \in 0..MaxLeak
  /\ ref_m_ \in Thread \cup {"free"} /\ m_ \in BOOLEAN
  /\ wpdu_ \in [by : Sender \cup {None}, left : 0..PduSize]
  /\ rpdu_ \in 0..PduSize /\ arrived \in 0..MaxArrived
  /\ watched \subseteq {"r", "w"}
  /\ callback \in BOOLEAN /\ pending_change_ \in BOOLEAN /\ pipe \in BOOLEAN
  /\ poll \in [pc : {"top", "snapshot", "select", "ready", "read_cb",
                     "reading", "write_cb"},
               ready : SUBSET {"r", "w"}]
  /\ at \in [Thread -> SenderPc \cup OwnerPc \cup LatestPc]
  /\ \A s \in Sender : at[s] \in SenderPc
  /\ at[None] \in OwnerPc /\ at[Latest] \in LatestPc

(* The constructor: one reference, and the poll thread watches for input.  *)
Init ==
  /\ mgr_ \in {"rpcc", "rpcs"} /\ oldsrv \in BOOLEAN /\ (oldsrv => mgr_ = "rpcs")
  /\ spurious = FALSE
  /\ dead_ = FALSE /\ refno_ = 1 /\ deleted = FALSE
  /\ ref_m_ = "free" /\ m_ = FALSE
  /\ leaked = 0
  /\ wpdu_ = NoPdu /\ rpdu_ = 0 /\ broken = FALSE /\ arrived = 0
  /\ watched = {"r"} /\ callback = TRUE /\ pending_change_ = FALSE
  /\ pipe = TRUE
  /\ poll = [pc |-> "top", ready |-> {}]
  /\ at = [t \in Thread |-> IF t = None THEN "own" ELSE "none"]

Goto(t, pc) == at' = [at EXCEPT ![t] = pc]

(* A dead connection reads no more.                                        *)
Dies == dead_' = TRUE /\ rpdu_' = 0 /\ arrived' = 0

(* del_callback, and unwatch_fd within it.                                 *)
del_callback(flags) ==
  /\ watched' = watched \ flags
  /\ callback' = (callback /\ watched' # {})
  /\ pipe' = (pipe \/ flags = {"r", "w"})

-----------------------------------------------------------------------------
(* References.                                                             *)
incref(s, pc) ==
  /\ at[s] = "none"
  /\ ref_m_ = "free"
  /\ refno_' = refno_ + 1
  /\ leaked' = leaked
  /\ Goto(s, pc)

(* rpcc::get_refconn: a caller takes a reference to chan_.  A caller that  *)
(* finds it dead drops chan_'s own reference.                              *)
get_refconn(s) ==
  /\ mgr_ = "rpcc"
  /\ at[None] = "own"
  /\ ~m_ /\ ~dead_
  /\ incref(s, "ready")
  /\ UNCHANGED <<roleVars, spurious, dead_, deleted, ref_m_, m_, ioVars, pollVars>>

DropDead ==
  /\ at[None] = "own"
  /\ ~m_ /\ dead_
  /\ mgr_ = "rpcs" => refno_ = 1 /\ ref_m_ = "free"  \* in process_accept
  /\ Goto(None, "drop")
  /\ UNCHANGED <<connVars, pollVars>>

(* decref: the last reference takes m_ as well, with ref_m_ held.          *)
Dropped(t) == IF t \in Holder THEN "gone" ELSE "none"

decref_by(t) ==
  /\ ref_m_ = "free"
  /\ refno_' = refno_ - 1
  /\ IF refno_ = 1
       THEN ref_m_' = t /\ Goto(t, "decref")
       ELSE ref_m_' = ref_m_ /\ Goto(t, Dropped(t))
  /\ UNCHANGED <<roleVars, spurious, dead_, leaked, deleted, m_, ioVars, pollVars>>

decref(t) == at[t] = "drop" /\ decref_by(t)

decref_last(t) ==
  /\ at[t] = "decref"
  /\ ~m_
  /\ ref_m_' = "free"
  /\ deleted' = dead_
  /\ Goto(t, Dropped(t))
  /\ UNCHANGED <<roleVars, spurious, dead_, refVars, m_, ioVars, pollVars>>

-----------------------------------------------------------------------------
(* rpcs::dispatch: what it does with the reference of its job.             *)

(* A request that cannot be read, or for an unknown procedure, is dropped. *)
dispatch_drop(s) ==
  /\ at[s] = "dispatch"
  /\ Goto(s, "drop")
  /\ UNCHANGED <<connVars, pollVars>>

(* All others of a client that is bound to an old instance are refused;    *)
(* the reference of the job is never dropped.                              *)
dispatch_old(s) ==
  /\ at[s] = "dispatch" /\ oldsrv
  /\ leaked < MaxLeak
  /\ leaked' = leaked + 1
  /\ Goto(s, "ready")
  /\ UNCHANGED <<roleVars, spurious, dead_, refno_, deleted, ref_m_, m_, ioVars, pollVars>>

(* Others save the connection as the client's latest, unless it has one    *)
(* already; one that is INPROGRESS is dropped, the rest are answered.      *)
Answered(s, latest) ==
  \E pc \in {"ready", "drop"} : at' = [at EXCEPT ![s] = pc, ![Latest] = latest]

dispatch_known(s) ==
  /\ at[s] = "dispatch" /\ ~oldsrv
  /\ Answered(s, IF at[Latest] = "none" THEN "gone" ELSE at[Latest])
  /\ UNCHANGED <<connVars, pollVars>>

(* Mutant: the entry of conns_ has no reference of its own.                *)
dispatch_save_uncounted(s) ==
  /\ at[s] = "dispatch" /\ ~oldsrv
  /\ at[Latest] = "none"
  /\ ref_m_ = "free"
  /\ Answered(s, "own")
  /\ UNCHANGED <<connVars, pollVars>>

dispatch_save(s) ==
  /\ at[s] = "dispatch" /\ ~oldsrv
  /\ at[Latest] = "none"
  /\ ref_m_ = "free"
  /\ refno_' = refno_ + 1
  /\ Answered(s, "own")
  /\ UNCHANGED <<roleVars, spurious, dead_, leaked, deleted, ref_m_, m_, ioVars, pollVars>>

(* A request on a newer connection of the client takes the entry of        *)
(* conns_; a thread whose own connection died answers on this one.         *)
dispatch_newer == at[Latest] = "own" /\ decref_by(Latest)

dispatch_latest(s) ==
  /\ at[Latest] = "own"
  /\ incref(s, "ready")
  /\ UNCHANGED <<roleVars, spurious, dead_, deleted, ref_m_, m_, ioVars, pollVars>>

-----------------------------------------------------------------------------
(* Mutant: it does not wait.                                               *)
block_remove_fd_now(t) ==
  /\ at[t] = IF t = None THEN "close" ELSE "failed"
  /\ watched' = {}
  /\ pipe' = TRUE
  /\ Goto(t, "removed")
  /\ UNCHANGED <<connVars, callback, pending_change_, poll>>

(* PollMgr::block_remove_fd: wait until the poll thread has gone round.    *)
block_remove_fd(t) ==
  /\ at[t] = IF t = None THEN "close" ELSE "failed"
  /\ watched' = {}
  /\ pipe' = TRUE
  /\ pending_change_' = TRUE
  /\ Goto(t, "block")
  /\ UNCHANGED <<connVars, callback, poll>>

block_remove_return(t) ==
  /\ at[t] = "removed"
  /\ callback' = FALSE
  /\ Goto(t, IF t = None THEN "drop" ELSE "finish")
  /\ UNCHANGED <<connVars, watched, pending_change_, pipe, poll>>

(* pthread_cond_wait returns without a signal; it is not called in a loop. *)
SpuriousWakeup(t) ==
  /\ at[t] = "block"
  /\ Goto(t, "removed")
  /\ spurious' = TRUE
  /\ UNCHANGED <<roleVars, dead_, refVars, deleted, ref_m_, m_, ioVars, pollVars>>

(* closeconn, from a destructor: of an rpcc, once no caller is left in it, *)
(* or of a tcpsconn.                                                       *)
closeconn ==
  /\ at[None] = "own"
  /\ ~m_
  /\ mgr_ = "rpcs" \/ \A s \in Sender : at[s] = "none"
  /\ Dies
  /\ broken' = (broken \/ ~dead_)
  /\ Goto(None, IF dead_ THEN "drop" ELSE "close")
  /\ UNCHANGED <<roleVars, spurious, refVars, deleted, ref_m_, m_, wpdu_, pollVars>>

-----------------------------------------------------------------------------
(* connection::send.  The end of one wakes those waiting to begin, and     *)
(* send_complete_ is signalled to the one whose message is being written.  *)
Waking(pc, to) == [t \in Thread |-> IF at[t] = pc THEN to ELSE at[t]]
Sent == IF oldsrv THEN "none" ELSE "drop"
Finished(s) == [Waking("send_wait", "send") EXCEPT ![s] = Sent]

(* The first writepdu: all is written, or some (the poll thread is to go   *)
(* on), or the socket fails and is taken from the poll thread.             *)
send_write(s) ==
  \/ /\ at' = Finished(s)
     /\ UNCHANGED <<connVars, pollVars>>
  \/ \E n \in 0..(PduSize - 1) :
       /\ wpdu_' = [by |-> s, left |-> PduSize - n]
       /\ watched' = watched \cup {"w"}
       /\ callback' = TRUE
       /\ pipe' = TRUE
       /\ Goto(s, "send_complete")
       /\ UNCHANGED <<roleVars, spurious, dead_, refVars, deleted, ref_m_, m_, readVars,
                      broken, pending_change_, poll>>
  \/ /\ broken
     /\ Dies
     /\ wpdu_' = [by |-> s, left |-> 0]
     /\ Goto(s, "failed")
     /\ UNCHANGED <<roleVars, spurious, refVars, deleted, ref_m_, m_, broken, pollVars>>

send(s) ==
  /\ at[s] \in {"ready", "send"}
  /\ ~m_
  /\ \/ dead_ /\ Goto(s, Sent) /\ UNCHANGED <<connVars, pollVars>>
     \/ /\ ~dead_ /\ wpdu_.by # None
        /\ Goto(s, "send_wait") /\ UNCHANGED <<connVars, pollVars>>
     \/ /\ ~dead_ /\ wpdu_.by = None
        /\ send_write(s)

send_finish(s) ==
  /\ at[s] = "finish"
  /\ ~m_
  /\ wpdu_' = NoPdu
  /\ at' = Finished(s)
  /\ UNCHANGED <<roleVars, spurious, dead_, refVars, deleted, ref_m_, m_, readVars, broken,
                 pollVars>>

-----------------------------------------------------------------------------
(* The poll thread: PollMgr::wait_loop and SelectAIO::wait_ready.          *)
wait_loop ==
  /\ poll.pc = "top"
  /\ pending_change_' = FALSE
  /\ at' = IF pending_change_ THEN Waking("block", "removed") ELSE at
  /\ poll' = [poll EXCEPT !.pc = "snapshot"]
  /\ UNCHANGED <<connVars, watched, callback, pipe>>

wait_ready ==
  /\ poll.pc = "snapshot"
  /\ poll' = [pc |-> "select", ready |-> watched]
  /\ UNCHANGED <<connVars, watched, callback, pending_change_, pipe, at>>

(* select returns with what can be read and what can be written, for one   *)
(* or the other or for a byte in the pipe, of which it takes out one.      *)
Readable == arrived > 0 \/ broken

select(found) ==
  /\ poll.pc = "select"
  /\ found \subseteq poll.ready
  /\ "r" \in poll.ready => ("r" \in found <=> Readable)
  /\ "w" \in poll.ready /\ broken => "w" \in found
  /\ found # {} \/ pipe
  /\ pipe' \in {FALSE, pipe}
  /\ poll' = [pc |-> "ready", ready |-> found]
  /\ UNCHANGED <<connVars, watched, callback, pending_change_, at>>

(* callbacks_[fd] is read without a lock.                                  *)
call_back ==
  /\ poll.pc = "ready"
  /\ poll' = [poll EXCEPT !.pc =
       IF poll.ready = {} \/ ~callback THEN "top"
       ELSE IF "r" \in poll.ready THEN "read_cb" ELSE "write_cb",
                          !.ready = IF callback THEN @ ELSE {}]
  /\ UNCHANGED <<connVars, watched, callback, pending_change_, pipe, at>>

Back(flag) == poll' = [pc |-> "ready", ready |-> poll.ready \ {flag}]

read_cb ==
  /\ poll.pc = "read_cb"
  /\ IF dead_ THEN Back("r") /\ UNCHANGED m_
     ELSE m_' = TRUE /\ poll' = [poll EXCEPT !.pc = "reading"]
  /\ UNCHANGED <<roleVars, spurious, dead_, refVars, deleted, ref_m_, wpdu_, readVars, broken,
                 watched, callback, pending_change_, pipe, at>>

(* readpdu: the size of a message is read in one piece or the connection   *)
(* fails, then as much of the rest as has arrived.  At the end of a broken *)
(* connection it fails or not, for errno may be an earlier call's EAGAIN.  *)
Unread == rpdu_ < PduSize
ReadFails == Unread /\ IF arrived = 0 THEN broken ELSE rpdu_ = 0
ReadGoesOn == Unread => arrived > 0 \/ rpdu_ > 0
ReadSize == IF arrived < PduSize - rpdu_ THEN arrived ELSE PduSize - rpdu_

(* Mutant: the thread whose message is being written is not woken.         *)
read_cb_failed_silent ==
  /\ poll.pc = "reading"
  /\ ReadFails
  /\ del_callback({"r", "w"})
  /\ Dies
  /\ m_' = FALSE
  /\ Back("r")
  /\ UNCHANGED <<roleVars, spurious, refVars, deleted, ref_m_, wpdu_, broken, pending_change_, at>>

read_cb_failed ==
  /\ poll.pc = "reading"
  /\ ReadFails
  /\ del_callback({"r", "w"})
  /\ Dies
  /\ m_' = FALSE
  /\ at' = Waking("send_complete", "finish")
  /\ Back("r")
  /\ UNCHANGED <<roleVars, spurious, refVars, deleted, ref_m_, wpdu_, broken, pending_change_>>

(* got_pdu of a whole message: an rpcc takes it; an rpcs takes a reference *)
(* for the dispatch thread and drops it again if the pool is full.         *)
got_pdu_taken ==
  IF mgr_ = "rpcs"
    THEN \E s \in Sender : incref(s, "dispatch")
    ELSE UNCHANGED <<refVars, at>>

(* Mutant: it keeps the reference when the pool takes no job.              *)
got_pdu_refused_leak ==
  /\ mgr_ = "rpcs" /\ ref_m_ = "free"
  /\ refno_' = refno_ + 1
  /\ UNCHANGED <<leaked, at>>

got_pdu_refused ==
  /\ mgr_ = "rpcs" /\ ref_m_ = "free"
  /\ UNCHANGED <<refVars, at>>

(* Mutant: only what readpdu has just completed is offered to got_pdu.     *)
read_cb_read_once ==
  /\ poll.pc = "reading"
  /\ ReadGoesOn
  /\ arrived' = arrived - ReadSize
  /\ LET got == rpdu_ + ReadSize
     IN  \/ (got < PduSize \/ ~Unread) /\ rpdu_' = got /\ UNCHANGED <<refVars, at>>
         \/ got = PduSize /\ Unread /\ rpdu_' = 0 /\ got_pdu_taken
         \/ got = PduSize /\ Unread /\ rpdu_' = got /\ got_pdu_refused
  /\ m_' = FALSE
  /\ Back("r")
  /\ UNCHANGED <<roleVars, spurious, dead_, deleted, ref_m_, wpdu_, broken, watched,
                 callback, pending_change_, pipe>>

(* A message that is refused is kept, and offered again by the next call.  *)
read_cb_read ==
  /\ poll.pc = "reading"
  /\ ReadGoesOn
  /\ arrived' = arrived - ReadSize
  /\ LET got == rpdu_ + ReadSize
     IN  \/ got < PduSize /\ rpdu_' = got /\ UNCHANGED <<refVars, at>>
         \/ got = PduSize /\ rpdu_' = 0 /\ got_pdu_taken
         \/ got = PduSize /\ rpdu_' = got /\ got_pdu_refused
  /\ m_' = FALSE
  /\ Back("r")
  /\ UNCHANGED <<roleVars, spurious, dead_, deleted, ref_m_, wpdu_, broken, watched,
                 callback, pending_change_, pipe>>

(* Past VERIFY(!dead_), at which the process stops.                        *)
write_cb ==
  /\ poll.pc = "write_cb"
  /\ ~dead_
  /\ Back("w")
  /\ \/ /\ wpdu_.by = None
        /\ del_callback({"w"})
        /\ UNCHANGED <<dead_, wpdu_, readVars, at>>
     \/ /\ wpdu_.by # None
        /\ broken
        /\ del_callback({"r", "w"})
        /\ Dies
        /\ at' = Waking("send_complete", "finish")
        /\ wpdu_' = [wpdu_ EXCEPT !.left = 0]
     \/ /\ wpdu_.by # None
        /\ \E n \in 0..wpdu_.left :
             /\ wpdu_.left > 0 => n > 0
             /\ wpdu_' = [wpdu_ EXCEPT !.left = @ - n]
        /\ at' = IF wpdu_'.left = 0 THEN Waking("send_complete", "finish") ELSE at
        /\ UNCHANGED <<dead_, readVars, watched, callback, pipe>>
  /\ UNCHANGED <<roleVars, spurious, refVars, deleted, ref_m_, m_, broken, pending_change_>>

(* The network breaks the connection, or a lossy test shuts it down; what  *)
(* has arrived can still be read, or is lost.                              *)
Break ==
  /\ ~broken
  /\ broken' = TRUE
  /\ arrived' \in {arrived, 0}
  /\ UNCHANGED <<roleVars, spurious, dead_, refVars, deleted, ref_m_, m_, wpdu_, rpdu_,
                 pollVars, at>>

(* The peer's next message comes in by parts.                              *)
Arrive ==
  /\ ~broken /\ ~dead_
  /\ arrived < MaxArrived
  /\ arrived' = arrived + 1
  /\ UNCHANGED <<roleVars, spurious, dead_, refVars, deleted, ref_m_, m_, wpdu_, rpdu_, broken,
                 pollVars, at>>

-----------------------------------------------------------------------------
Dispatching(s) ==
  dispatch_drop(s) \/ dispatch_old(s) \/ dispatch_known(s) \/ dispatch_save(s)
Using(s) == Dispatching(s) \/ send(s) \/ send_finish(s)
Letting(t) ==
  decref(t) \/ decref_last(t) \/ block_remove_fd(t) \/ block_remove_return(t)
Polling ==
  wait_loop \/ wait_ready \/ call_back \/ read_cb \/ read_cb_failed \/ read_cb_read
  \/ write_cb

(* After a spurious wakeup of block_remove_fd nothing is promised, and the *)
(* model stops.                                                            *)
Next ==
  /\ ~spurious
  /\ \/ \E s \in Sender : get_refconn(s) \/ dispatch_latest(s) \/ Using(s)
     \/ \E t \in Thread : Letting(t) \/ SpuriousWakeup(t)
     \/ DropDead \/ dispatch_newer \/ closeconn \/ Break \/ Arrive \/ Polling
     \/ \E found \in SUBSET {"r", "w"} : select(found)

Spec == Init /\ [][Next]_vars

(* A thread that is in send and wants m_, which is free again and again,   *)
(* gets it, and the poll thread runs.  select returns when it must: there  *)
(* is a byte in the pipe, or a watched socket is broken or can be read;    *)
(* and one that is watched for writing has room sooner or later, since the *)
(* peer goes on reading.  A pool that is offered a job again and again is  *)
(* not always full.                                                        *)
Ending(s) == block_remove_fd(s) \/ block_remove_return(s) \/ send_finish(s)
Forced(found) ==
  /\ pipe \/ broken \/ ("r" \in poll.ready /\ Readable)
  /\ select(found)
Fairness ==
  /\ \A s \in Sender : SF_vars(Ending(s))
  /\ WF_vars(Polling)
  /\ WF_vars(\E found \in SUBSET {"r", "w"} : Forced(found))
  /\ SF_vars(\E found \in {{"w"}, {"r", "w"}} : select(found))
  /\ SF_vars(read_cb_read /\ rpdu_' = 0)

FairSpec == Spec /\ Fairness

-----------------------------------------------------------------------------
(* connection.cc, incref and decref: refno_ counts exactly the threads     *)
(* that will drop a reference, the owner's, that of rpcs::conns_, and the  *)
(* ones that dispatch forgets when it answers for an old instance.         *)
Counted == IF oldsrv THEN {"dispatch", "drop"} ELSE SenderPc \ {"none", "decref"}
Refs == {s \in Sender : at[s] \in Counted}
        \cup {t \in Holder : at[t] \notin {"none", "decref", "gone"}}
RefsExact == refno_ = Cardinality(Refs) + leaked

(* A connection is deleted only when nobody can touch it any more: no      *)
(* callback is registered or running, no thread is in send or can find it  *)
(* in rpcs::conns_, and no message is left (the VERIFYs of ~connection);   *)
(* and the last reference is never dropped while the connection lives,     *)
(* which would leak it.                                                    *)
NoUseAfterDelete ==
  /\ refno_ = 0 => dead_
  /\ deleted /\ ~spurious =>
       /\ ~callback /\ watched = {}
       /\ poll.pc \notin {"read_cb", "reading", "write_cb"}
       /\ \A s \in Sender : at[s] = "none"
       /\ at[Latest] # "own"
       /\ wpdu_ = NoPdu

(* VERIFY(!dead_) in write_cb holds when the poll thread gets there.  It   *)
(* does not: send and closeconn set dead_ and only then, without m_, take  *)
(* fd_ from the poll thread.                                               *)
WriteCbAlive == poll.pc = "write_cb" => ~dead_

(* Once block_remove_fd returns, callbacks related to fd are not running   *)
(* and will not be called again (pollmgr.cc:57-59), provided that its wait *)
(* never ends without a signal.                                            *)
RemovedForGood ==
  \A t \in Thread : at[t] = "removed" /\ ~spurious =>
    /\ poll.pc \notin {"read_cb", "reading", "write_cb"}
    /\ watched = {} /\ poll.ready = {}

(* send: a message being written is written, or given up when the          *)
(* connection dies, and those waiting to send are woken, unless the VERIFY *)
(* of write_cb has stopped the process or the tcpsconn is being destroyed. *)
(* (Which of them sends next is open: one may overtake another for ever.)  *)
Stopped == spurious \/ (poll.pc = "write_cb" /\ dead_)
Destroyed == mgr_ = "rpcs" /\ at[None] # "own"
Sending == wpdu_.by # None \/ \E s \in Sender : at[s] = "send_wait"
SendsProgress == Sending ~> (~Sending \/ Stopped \/ Destroyed)

(* read_cb: a message that the dispatch pool refuses is kept and offered   *)
(* again until the pool takes it, the connection dies or no thread of the  *)
(* pool is free, as long as there is more to be read: a refused message    *)
(* with nothing behind it waits for the peer to send on.                   *)
PoolBusy == \A s \in Sender : at[s] # "none"
RefusedOffered ==
  (rpdu_ = PduSize /\ Readable) ~> (rpdu_ < PduSize \/ PoolBusy \/ Stopped)
=============================================================================
