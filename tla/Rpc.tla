--------------------------------- MODULE Rpc ---------------------------------
(***************************************************************************)
(* At-most-once remote procedure calls (rpc/rpc.cc): one client (rpcc)     *)
(* whose threads make calls, one server (rpcs) whose dispatch threads      *)
(* serve them, and TCP connections between them that may break.            *)
(*                                                                         *)
(* A call is sent once per connection.  Requests reach                     *)
(* checkduplicate_and_update in any order: they travel on different        *)
(* connections and run on different dispatch threads.  A request that was  *)
(* on a connection when it broke may still arrive or not; a reply on it is *)
(* lost, since the client no longer reads from it.                         *)
(***************************************************************************)
EXTENDS RpcWindow

CONSTANTS
  MaxXid,      \* bound: calls made
  MaxConn,     \* bound: connections opened
  MaxRestart,  \* bound: times the server is restarted
  Lossy        \* RPC_LOSSY is set: the client sends old requests again

ASSUME RpcAssumption ==
  /\ MaxXid \in Nat /\ MaxConn \in Nat /\ MaxRestart \in Nat
  /\ Lossy \in BOOLEAN

VARIABLES
  xid_,             \* the next call's xid
  srv_nonce_,       \* the server instance the client is bound to, 0 if none
  calls,            \* each call's state, result, connection and header
  xid_rep_window_,  \* finished calls: the largest of the prefix, the others
  dup_req_,         \* an old request kept to be sent again, 0 if none
  xid_rep_done_,    \* the largest xid_rep of a finished call
  destroy_wait_,    \* cancel() is waiting for the callers to leave
  conn,             \* connections opened so far; the last one is in use
  alive,            \* the client believes that connection to work
  requests,         \* requests sent and not dispatched
  replies,          \* replies sent and not received
  nonce_,           \* the server instance
  reply_window_,    \* the requests the server remembers
  conns_,           \* the latest connection it has a request from
  running,          \* requests being executed or answered
  executed,         \* history: how often each request was executed
  overtaken         \* history: a request came before that of an older call

clientVars == <<xid_, srv_nonce_, calls, xid_rep_window_, dup_req_,
                xid_rep_done_, destroy_wait_>>
netVars == <<conn, alive, requests, replies>>
serverVars == <<nonce_, reply_window_, conns_, running, executed,
                overtaken>>
vars == <<clientVars, netVars, serverVars>>

Xid == 1..MaxXid
Ret == {"none", "OK", "atmostonce_failure", "oldsrv_failure",
        "timeout_failure", "cancel_failure"}
Nonce == 0..(MaxRestart + 1)

(* pc: "new", "waiting" for the reply, "done" (ca.done), "returned".       *)
(* srv and xid_rep are the header fields, fixed when the call is made.     *)
Caller == [pc : {"new", "waiting", "done", "returned"}, ret : Ret,
           on : 0..MaxConn, srv : Nonce, xid_rep : 0..MaxXid, r : Nonce]
Request == [xid : Xid, srv : Nonce, conn : 1..MaxConn]
Reply == [xid : Xid, ret : Ret, r : Nonce, conn : 1..MaxConn]

TypeOK ==
  /\ xid_ \in 1..(MaxXid + 1)
  /\ srv_nonce_ \in Nonce
  /\ calls \in [Xid -> Caller]
  /\ xid_rep_window_ \in Seq(0..MaxXid) /\ xid_rep_window_ # <<>>
  /\ dup_req_ \in 0..MaxXid
  /\ xid_rep_done_ \in 0..MaxXid
  /\ destroy_wait_ \in BOOLEAN
  /\ conn \in 0..MaxConn
  /\ alive \in BOOLEAN
  /\ requests \subseteq Request
  /\ replies \subseteq Reply
  /\ nonce_ \in Nonce \ {0}
  /\ reply_window_ \in Seq([xid : 0..MaxXid, cb_present : BOOLEAN])
  /\ conns_ \in 0..MaxConn
  /\ running \subseteq [xid : Xid, conn : 1..MaxConn, pc : {"fn", "send"}]
  /\ executed \in [Xid -> Nat]
  /\ overtaken \in BOOLEAN

Init ==
  /\ xid_ = 1
  /\ srv_nonce_ = 0
  /\ calls = [x \in Xid |-> [pc |-> "new", ret |-> "none", on |-> 0,
                             srv |-> 0, xid_rep |-> 0, r |-> 0]]
  /\ xid_rep_window_ = <<0>>
  /\ dup_req_ = 0
  /\ xid_rep_done_ = 0
  /\ destroy_wait_ = FALSE
  /\ conn = 0
  /\ alive = FALSE
  /\ requests = {}
  /\ replies = {}
  /\ nonce_ = 1
  /\ reply_window_ = <<>>
  /\ conns_ = 0
  /\ running = {}
  /\ executed = [x \in Xid |-> 0]
  /\ overtaken = FALSE

-----------------------------------------------------------------------------
(* The client.  Pending calls are those in calls_.                         *)
Pending == {x \in Xid : calls[x].pc \in {"waiting", "done"}}

(* get_refconn and the sends of one transmission of call x, whose record   *)
(* is ca: over the connection in use, or over a new one when that is dead. *)
(* Without a connection nothing is sent.  In lossy tests an old request    *)
(* goes first, once.                                                       *)
Transmit(x, ca) ==
  LET usable == alive \/ conn < MaxConn
      on == IF alive THEN conn ELSE conn + 1
      old == IF dup_req_ # 0 /\ xid_rep_done_ > dup_req_ THEN {dup_req_} ELSE {}
      srv(y) == IF y = x THEN ca.srv ELSE calls[y].srv
  IN IF usable
       THEN /\ conn' = on
            /\ alive' = TRUE
            /\ calls' = [calls EXCEPT ![x] = [ca EXCEPT !.on = on]]
            /\ requests' = requests \cup
                 {[xid |-> y, srv |-> srv(y), conn |-> on] : y \in {x} \cup old}
            /\ dup_req_' = IF old # {} THEN 0 ELSE dup_req_
       ELSE /\ calls' = [calls EXCEPT ![x] = ca]
            /\ UNCHANGED <<conn, alive, requests, dup_req_>>

(* The first half of call1.  While the client is not bound the call is the *)
(* bind, and there is one of it at a time.                                 *)
call1 ==
  /\ xid_ <= MaxXid
  /\ ~destroy_wait_
  /\ srv_nonce_ = 0 => Pending = {}
  /\ xid_' = xid_ + 1
  /\ Transmit(xid_, [calls[xid_] EXCEPT !.pc = "waiting",
                                        !.srv = srv_nonce_,
                                        !.xid_rep = xid_rep_window_[1]])
  /\ UNCHANGED <<srv_nonce_, xid_rep_window_, xid_rep_done_, destroy_wait_,
                 replies, serverVars>>

(* A timed wait ended and the call's connection is dead.                   *)
retransmit(x) ==
  /\ calls[x].pc = "waiting"
  /\ ~(alive /\ calls[x].on = conn)
  /\ alive \/ conn < MaxConn
  /\ Transmit(x, calls[x])
  /\ UNCHANGED <<xid_, srv_nonce_, xid_rep_window_, xid_rep_done_,
                 destroy_wait_, replies, serverVars>>

(* The second half of call1: the final deadline has passed, or the caller  *)
(* has been told that the call is done.  bind then notes the nonce.        *)
timeout(x) ==
  /\ calls[x].pc = "waiting"
  /\ calls' = [calls EXCEPT ![x].pc = "returned", ![x].ret = "timeout_failure"]
  /\ xid_rep_window_' = update_xid_rep(xid_rep_window_, x)
  /\ UNCHANGED <<xid_, srv_nonce_, dup_req_, xid_rep_done_, destroy_wait_,
                 netVars, serverVars>>

call_return(x) ==
  /\ calls[x].pc = "done"
  /\ calls' = [calls EXCEPT ![x].pc = "returned"]
  /\ xid_rep_window_' = update_xid_rep(xid_rep_window_, x)
  /\ IF Lossy
       THEN /\ dup_req_' = IF dup_req_ = 0 THEN x ELSE dup_req_
            /\ xid_rep_done_' = IF calls[x].xid_rep > xid_rep_done_
                                  THEN calls[x].xid_rep ELSE xid_rep_done_
       ELSE UNCHANGED <<dup_req_, xid_rep_done_>>
  /\ srv_nonce_' = IF calls[x].srv = 0 /\ calls[x].ret = "OK"
                     THEN calls[x].r ELSE srv_nonce_
  /\ UNCHANGED <<xid_, destroy_wait_, netVars, serverVars>>

(* rpcc::got_pdu: the polling thread hands over a reply.                   *)
got_pdu(rep) ==
  /\ rep \in replies
  /\ replies' = replies \ {rep}
  /\ xid_rep_window_' = update_xid_rep(xid_rep_window_, rep.xid)
  /\ calls' = IF calls[rep.xid].pc = "waiting"
                THEN [calls EXCEPT ![rep.xid].pc = "done",
                                   ![rep.xid].ret = rep.ret,
                                   ![rep.xid].r = rep.r]
                ELSE calls
  /\ UNCHANGED <<xid_, srv_nonce_, dup_req_, xid_rep_done_, destroy_wait_,
                 conn, alive, requests, serverVars>>

(* cancel: every pending call is made to fail, answered or not.            *)
cancel ==
  /\ ~destroy_wait_
  /\ Pending # {}
  /\ destroy_wait_' = TRUE
  /\ calls' = [x \in Xid |->
                 IF x \in Pending
                   THEN [calls[x] EXCEPT !.pc = "done", !.ret = "cancel_failure"]
                   ELSE calls[x]]
  /\ UNCHANGED <<xid_, srv_nonce_, xid_rep_window_, dup_req_, xid_rep_done_,
                 netVars, serverVars>>

-----------------------------------------------------------------------------
(* The network.                                                            *)
ConnDies ==
  /\ alive
  /\ alive' = FALSE
  /\ replies' = {}
  /\ UNCHANGED <<conn, requests, clientVars, serverVars>>

(* A reply written to connection c reaches the client's end of it.         *)
Send(c, x, ret) ==
  replies' = IF alive /\ c = conn
               THEN replies \cup {[xid |-> x, ret |-> ret, r |-> nonce_,
                                   conn |-> c]}
               ELSE replies

-----------------------------------------------------------------------------
(* The server: dispatch, up to the execution of a new request.             *)
ThisInstance(m) == m.srv = 0 \/ m.srv = nonce_

old_instance_ok(m) ==  \* mutant: rh.ret is not set
  /\ ~ThisInstance(m)
  /\ Send(m.conn, m.xid, "OK")
  /\ UNCHANGED <<reply_window_, conns_, running, executed, overtaken>>

old_instance(m) ==
  /\ ~ThisInstance(m)
  /\ Send(m.conn, m.xid, "oldsrv_failure")
  /\ UNCHANGED <<reply_window_, conns_, running, executed, overtaken>>

(* No copy of request x has arrived, but one still may.                    *)
MayComeFirst(x) ==
  /\ executed[x] = 0
  /\ calls[x].pc = "waiting" \/ \E m \in requests : m.xid = x

(* The "DONE?" case sends whatever the uninitialised b1 and sz1 hold: at   *)
(* best what an earlier dispatch on the same stack left there, a reply     *)
(* that has been sent before.                                              *)
checked(m) ==
  LET res == checkduplicate_and_update(reply_window_, m.xid) IN
  /\ ThisInstance(m)
  /\ overtaken' = (overtaken \/ \E x \in Xid : x < m.xid /\ MayComeFirst(x))
  /\ conns_' = IF m.conn > conns_ THEN m.conn ELSE conns_
  /\ reply_window_' = res.window
  /\ \/ /\ res.stat = "NEW"
        /\ running' = running \cup
                        {[xid |-> m.xid, conn |-> m.conn, pc |-> "fn"]}
        /\ executed' = [executed EXCEPT ![m.xid] = @ + 1]
        /\ UNCHANGED replies
     \/ /\ res.stat = "INPROGRESS"
        /\ UNCHANGED <<running, executed, replies>>
     \/ /\ res.stat = "DONE"
        /\ Send(m.conn, m.xid, "OK")
        /\ UNCHANGED <<running, executed>>
     \/ /\ res.stat = "FORGOTTEN"
        /\ Send(m.conn, m.xid, "atmostonce_failure")
        /\ UNCHANGED <<running, executed>>
     \/ /\ res.stat = "DONE?"
        /\ \E x \in {y \in Xid : executed[y] > 0} : Send(m.conn, x, "OK")
        /\ UNCHANGED <<running, executed>>

dispatch(m) ==
  /\ m \in requests
  /\ requests' = requests \ {m}
  /\ old_instance(m) \/ checked(m)
  /\ UNCHANGED <<clientVars, conn, alive, nonce_>>

(* The handler has returned and its reply is remembered; then it is sent,  *)
(* over the latest connection if the request's own one is found dead.      *)
remember(j) ==
  /\ j \in running /\ j.pc = "fn"
  /\ reply_window_' = add_reply(reply_window_, j.xid)
  /\ running' = (running \ {j}) \cup {[j EXCEPT !.pc = "send"]}
  /\ UNCHANGED <<clientVars, netVars, nonce_, conns_, executed, overtaken>>

answer(j) ==
  /\ j \in running /\ j.pc = "send"
  /\ running' = running \ {j}
  /\ \E c \in {j.conn} \cup (IF alive /\ j.conn = conn THEN {} ELSE {conns_}) :
       Send(c, j.xid, "OK")
  /\ UNCHANGED <<clientVars, conn, alive, requests, nonce_, reply_window_,
                 conns_, executed, overtaken>>

(* The server process dies, with all it remembers, and another one takes   *)
(* its place, under a new nonce.                                           *)
Restart ==
  /\ nonce_ <= MaxRestart
  /\ nonce_' = nonce_ + 1
  /\ reply_window_' = <<>>
  /\ conns_' = 0
  /\ running' = {}
  /\ alive' = FALSE
  /\ requests' = {}
  /\ replies' = {}
  /\ UNCHANGED <<clientVars, conn, executed, overtaken>>

Next ==
  \/ call1
  \/ \E x \in Xid : retransmit(x) \/ timeout(x) \/ call_return(x)
  \/ \E rep \in replies : got_pdu(rep)
  \/ cancel
  \/ ConnDies
  \/ \E m \in requests : dispatch(m)
  \/ \E j \in running : remember(j) \/ answer(j)
  \/ Restart

Spec == Init /\ [][Next]_vars

-----------------------------------------------------------------------------
(* "provide at most once semantics": no request is executed twice, however *)
(* often it is sent and in whatever order the copies arrive.  (bind, which *)
(* names no instance, is executed by each instance it reaches.)  It does   *)
(* not hold of this code once requests overtake each other: an entry put   *)
(* before the smaller neighbour leaves the window unsorted, and the scan   *)
(* for a duplicate stops in a gap before it reaches the entry.             *)
AtMostOnce == \A x \in Xid : calls[x].srv # 0 => executed[x] <= 1

(* What checkduplicate_and_update will say of a request on its way.        *)
Verdict(m) == checkduplicate_and_update(reply_window_, m.xid).stat

(* "DONE: seen this xid, previous reply returned in *b and *sz."  It does  *)
(* not hold either when requests overtake each other: the scan that drops  *)
(* the oldest entry does not look behind the next one.                     *)
DoneHasReply == \A m \in requests : ThisInstance(m) => Verdict(m) # "DONE?"

(* "checks to see if an RPC with xid from clt_nonce has already been       *)
(* received.  if not, remembers the request."                              *)
ForgottenWasReceived ==
  \A m \in requests :
    ThisInstance(m) /\ Verdict(m) = "FORGOTTEN" => executed[m.xid] > 0

(* All three hold as long as each call's first request arrives before      *)
(* those of the later calls, whatever duplicates, broken connections and   *)
(* restarts there are: what a client that makes one call at a time sees.   *)
AtMostOnceInOrder ==
  overtaken \/ (AtMostOnce /\ DoneHasReply /\ ForgottenWasReceived)

(* A call that returns OK has been executed: no reply, be it to an older   *)
(* copy or from an earlier instance, is mistaken for that of another call. *)
OkMeansExecuted == \A x \in Xid : calls[x].ret = "OK" => executed[x] > 0

(* The front of xid_rep_window_, which every request carries as xid_rep,   *)
(* is the last of the initial run of finished calls, although replies come *)
(* in any order and each call is entered up to twice (call1: "I don't      *)
(* think there's any harm in maybe doing it twice").  The window is never  *)
(* empty, and every variable keeps its type.                               *)
XidRepExact ==
  LET front == xid_rep_window_[1] IN
  /\ TypeOK
  /\ \A x \in 1..front : calls[x].pc \in {"done", "returned"}
  /\ \A n \in Xid :
       (\A x \in 1..n : calls[x].pc = "returned") => front >= n
=============================================================================
