------------------------------ MODULE RpcCall ------------------------------
(***************************************************************************)
(* One remote procedure call from stub to stub (rpc/rpc.h, rpc/rpc.cc):    *)
(* rpcc::call marshals the arguments, call1 sends the request and waits in *)
(* steps of a growing timeout until the deadline, rpcs::dispatch unpacks   *)
(* the arguments with the types of the registered method, and call_m       *)
(* unpacks the result.  Module Rpc has many calls and the duplicate        *)
(* suppression of both sides, over abstract messages; this one has the     *)
(* bytes, the clock and the channels of a single call.                     *)
(*                                                                         *)
(* The client holds chan_, the connection it shares between its calls, and *)
(* the calling thread holds ch, the connection on which it sent last.      *)
(* Connections are numbered as they are made; 0 is NULL.                   *)
(***************************************************************************)
EXTENDS Marshall, Timespec, FiniteSets

CONSTANTS Calls,      \* the calls: both signatures, arguments, result
          to_min,     \* the first wait of a call, in milliseconds
          MaxConn,    \* bound: connections made
          LastStart,  \* bound: the latest instant at which the call starts
          MaxTime     \* bound: the end of time

(* A call passes args of the types passed and wants a result of type got;  *)
(* the method was registered for arguments of the types taken, and returns *)
(* b and a result r of type given.  Every timeout in the programs is a     *)
(* whole number of seconds.                                                *)
ASSUME RpcCallAssumption ==
  /\ MaxConn \in Nat
  /\ to_min \in Nat \ {0} /\ to_min % MsPerSec = 0
  /\ \A c \in Calls : c.to \in Nat \ {0} /\ c.to % MsPerSec = 0 /\ c.b \in Nat
  /\ LastStart >= NsPerSec
  /\ \A c \in Calls : MaxTime >= LastStart + c.to * NsPerMs

(* rpc_const.                                                              *)
timeout_failure == -1
unmarshal_args_failure == -2
unmarshal_reply_failure == -3

VARIABLES
  call,        \* the call made, a member of Calls
  now,         \* the clock
  \* the calling thread, in call1
  pc, start, curr_to, nextdeadline, finaldeadline, transmit, ch,
  req,         \* its marshalled request
  ca,          \* struct caller: done, intret, and the reply taken in
  ret, res,    \* what call_m returned, and r (<< >> until then)
  \* the connections
  chan_, dead, made, sends,
  wire,        \* PDUs on their way: [conn, to, pdu]
  \* the server
  registered, stat, job, conns_, saved, runs,
  seen,        \* the connections the server knows to be dead
  lost         \* history: the server dropped the request or wrote its reply
               \* to a connection that was gone, and cannot have known better

caller == <<pc, start, curr_to, nextdeadline, finaldeadline, transmit, ch, req>>
outcome == <<ret, res>>
channels == <<chan_, dead, made>>
server == <<registered, stat, job, conns_, saved, runs, seen, lost>>
vars == <<call, now, caller, ca, outcome, channels, sends, wire, server>>

(* The header of this call's request.  A client's xids start at 1, and its *)
(* window of finished calls at 0; the numbers of the procedure and of the  *)
(* two instances are arbitrary.                                            *)
Header == [xid |-> 1, proc |-> 5, clt_nonce |-> 7, srv_nonce |-> 9, xid_rep |-> 0]

Conn == 1..MaxConn
Live(c) == c # 0 /\ c \notin dead
Pdu(c, side, b) == [conn |-> c, to |-> side, pdu |-> b]
NoJob == << >>

Init ==
  /\ call \in Calls
  /\ now = NsPerSec
  /\ pc = "idle" /\ start = 0 /\ curr_to = 0
  /\ nextdeadline = timespec(0, 0) /\ finaldeadline = timespec(0, 0)
  /\ transmit = FALSE /\ ch = 0 /\ req = << >>
  /\ ca = [done |-> FALSE, intret |-> 0, un |-> << >>]
  /\ ret = << >> /\ res = << >>
  /\ chan_ = 0 /\ dead = {} /\ made = 0 /\ sends = [c \in Conn |-> 0]
  /\ wire = {}
  /\ registered = FALSE /\ stat = "NEW" /\ job = NoJob
  /\ conns_ = 0 /\ saved = << >> /\ runs = << >> /\ seen = {} /\ lost = FALSE

-----------------------------------------------------------------------------
(* The caller.                                                             *)

(* rpcc::call: the stub marshals the arguments, call1 packs the header and *)
(* sets the final deadline.                                                *)
rpcc_call ==
  /\ pc = "idle" /\ now <= LastStart
  /\ req' = pack_req_header(Header, Content(call.passed, call.args))
  /\ start' = now
  /\ finaldeadline' = add_timespec(clock_gettime(now), call.to)
  /\ curr_to' = to_min
  /\ transmit' = TRUE /\ pc' = "loop"
  /\ UNCHANGED <<call, now, nextdeadline, ch, ca, outcome, channels, sends,
                 wire, server>>

(* get_refconn: the shared connection, made anew if it is dead.  If that   *)
(* fails, chan_ becomes NULL and the caller keeps the connection it had.   *)
get_refconn ==
  \/ /\ Live(chan_)
     /\ ch' = chan_ /\ UNCHANGED channels
  \/ /\ ~Live(chan_) /\ made < MaxConn
     /\ made' = made + 1 /\ chan_' = made' /\ ch' = made'
     /\ UNCHANGED dead
  \/ /\ ~Live(chan_)
     /\ chan_' = 0 /\ UNCHANGED <<ch, dead, made>>

(* A round of call1's loop starts with a connection, if there is something *)
(* to send.  Making one may take for ever: connect has no deadline.        *)
call1_connect ==
  /\ pc = "loop" /\ transmit
  /\ get_refconn
  /\ pc' = "send"
  /\ UNCHANGED <<call, now, start, curr_to, nextdeadline, finaldeadline,
                 transmit, req, ca, outcome, sends, wire, server>>

(* Then the request is sent.  connection::send waits until the bytes are   *)
(* written or the connection is dead, without a deadline; on a dead one it *)
(* does nothing.                                                           *)
call1_send ==
  /\ pc = "send"
  /\ IF Live(ch)
     THEN /\ sends' = [sends EXCEPT ![ch] = @ + 1]
          /\ wire' = wire \cup {Pdu(ch, "server", req)}
     ELSE UNCHANGED <<sends, wire>>
  /\ transmit' = FALSE /\ pc' = "loop"
  /\ UNCHANGED <<call, now, start, curr_to, nextdeadline, finaldeadline, ch,
                 req, ca, outcome, channels, server>>

(* Mutant: the wait is not cut short at the final deadline.                *)
SetDeadline_uncut ==
  LET next == add_timespec(clock_gettime(now), curr_to)
  IN /\ nextdeadline' = next
     /\ finaldeadline' = IF cmp_timespec(next, finaldeadline) > 0
                         THEN timespec(0, finaldeadline.tv_nsec)
                         ELSE finaldeadline

(* The end of the next wait.  tv_sec = 0 marks the last one.               *)
SetDeadline ==
  LET next == add_timespec(clock_gettime(now), curr_to)
  IN IF cmp_timespec(next, finaldeadline) > 0
     THEN /\ nextdeadline' = finaldeadline
          /\ finaldeadline' = timespec(0, finaldeadline.tv_nsec)
     ELSE /\ nextdeadline' = next
          /\ UNCHANGED finaldeadline

(* The rest of the round, up to the wait.                                  *)
call1_wait ==
  /\ pc = "loop" /\ ~transmit
  /\ IF finaldeadline.tv_sec = 0
     THEN /\ pc' = "end" /\ UNCHANGED <<nextdeadline, finaldeadline>>
     ELSE /\ SetDeadline /\ pc' = "wait"
  /\ UNCHANGED <<call, now, start, curr_to, transmit, ch, req, ca, outcome,
                 channels, sends, wire, server>>

(* Mutant: the request is sent again after every wait.                     *)
Resend_always == TRUE

(* After a wait the request is sent again only if its channel is gone.     *)
Resend == ~Live(ch)

(* Mutant: as long as its channel is up, a call waits without a deadline.  *)
TimedOut_down ==
  ~Live(ch) /\ IsDeadline(nextdeadline) /\ now >= Instant(nextdeadline)

(* pthread_cond_timedwait returns ETIMEDOUT once the deadline is past.     *)
TimedOut == IsDeadline(nextdeadline) /\ now >= Instant(nextdeadline)

call1_timeout ==
  /\ pc = "wait" /\ ~ca.done /\ TimedOut
  /\ transmit' = Resend
  /\ curr_to' = 2 * curr_to
  /\ pc' = "loop"
  /\ UNCHANGED <<call, now, start, nextdeadline, finaldeadline, ch, req, ca,
                 outcome, channels, sends, wire, server>>

call1_done ==
  /\ pc = "wait" /\ ca.done
  /\ pc' = "end"
  /\ UNCHANGED <<call, now, start, curr_to, nextdeadline, finaldeadline,
                 transmit, ch, req, ca, outcome, channels, sends, wire, server>>

(* Mutant: the result is not looked at to its end.                         *)
Result_prefix(intret, b, t) ==
  CASE intret < 0 -> [ret |-> <<intret>>, res |-> << >>]
    [] intret >= 0 /\ okdone_ok(b, <<t>>) -> [ret |-> <<intret>>, res |-> GetAll(b, <<t>>)]
    [] OTHER -> [ret |-> <<unmarshal_reply_failure>>, res |-> << >>]

(* What call_m makes of a reply.                                           *)
Result(intret, b, t) ==
  CASE intret < 0 -> [ret |-> <<intret>>, res |-> << >>]
    [] intret >= 0 /\ okdone(b, <<t>>) -> [ret |-> <<intret>>, res |-> GetAll(b, <<t>>)]
    [] OTHER -> [ret |-> <<unmarshal_reply_failure>>, res |-> << >>]

(* call1 takes itself out of calls_ and returns, and call_m unpacks.  A    *)
(* reply may come between the last wait and this step.                     *)
call_m ==
  /\ pc = "end"
  /\ LET intret == IF ca.done THEN ca.intret ELSE timeout_failure
         out == Result(intret, ca.un, call.got)
     IN ret' = out.ret /\ res' = out.res
  /\ pc' = "returned"
  /\ UNCHANGED <<call, now, start, curr_to, nextdeadline, finaldeadline,
                 transmit, ch, req, ca, channels, sends, wire, server>>

(* rpcc::got_pdu, in the poll thread.                                      *)
rpcc_got_pdu(p) ==
  LET h == unpack_reply_header(p.pdu)
  IN /\ p \in wire /\ p.to = "client"
     /\ wire' = wire \ {p}
     /\ ca' = IF /\ HeaderOk(p.pdu) /\ h.xid = Header.xid
                 /\ pc \in {"loop", "send", "wait", "end"} /\ ~ca.done
              THEN [done |-> TRUE, intret |-> h.ret, un |-> p.pdu]
              ELSE ca
     /\ UNCHANGED <<call, now, caller, outcome, channels, sends, server>>

-----------------------------------------------------------------------------
(* The server.                                                             *)

(* reg and reg1.                                                           *)
reg ==
  /\ ~registered /\ registered' = TRUE
  /\ UNCHANGED <<call, now, caller, ca, outcome, channels, sends, wire,
                 stat, job, conns_, saved, runs, seen, lost>>

(* h1::fn: the arguments are unpacked by the types of the method; it runs  *)
(* if they used up the request exactly.                                    *)
fn(b) ==
  IF okdone(b, call.taken)
  THEN [runs |-> <<GetAll(b, call.taken)>>, ret |-> call.b,
        rep |-> Content(<<call.given>>, <<call.r>>)]
  ELSE [runs |-> << >>, ret |-> unmarshal_args_failure, rep |-> << >>]

(* rpcs::dispatch up to and including the method.  A request for a         *)
(* procedure that is not registered is dropped without an answer.  conns_  *)
(* keeps the latest connection of the client.                              *)
dispatch(p) ==
  LET h == unpack_req_header(p.pdu)
      f == fn(p.pdu)
      known == HeaderOk(p.pdu) /\ h.proc = Header.proc /\ registered
  IN /\ p \in wire /\ p.to = "server"
     /\ wire' = (wire \ {p}) \cup
          IF known /\ stat = "DONE" /\ Live(p.conn)
          THEN {Pdu(p.conn, "client", saved)} ELSE {}
     /\ conns_' = IF known /\ conns_ < p.conn THEN p.conn ELSE conns_
     /\ IF known /\ stat = "NEW"
        THEN /\ stat' = "INPROGRESS"
             /\ runs' = runs \o f.runs
             /\ job' = <<[conn |-> p.conn,
                          rep |-> pack_reply_header(
                                    [xid |-> h.xid, ret |-> f.ret], f.rep)]>>
        ELSE UNCHANGED <<stat, runs, job>>
     /\ lost' = (lost \/ ~known)
     /\ UNCHANGED <<call, now, caller, ca, outcome, channels, sends,
                    registered, saved, seen>>

(* Where dispatch sends the reply: to the request's connection or, if that *)
(* is known to be dead, to the client's latest.                            *)
ReplyConn_first(j) == j.conn  \* mutant: the request's, dead or not

ReplyConn(j) == IF j.conn \in seen THEN conns_ ELSE j.conn

(* The rest of dispatch: the reply is saved and sent.                      *)
dispatch_reply ==
  /\ job # NoJob
  /\ LET j == job[1]
         c == ReplyConn(j)
     IN /\ saved' = j.rep
        /\ wire' = wire \cup
             IF Live(c) THEN {Pdu(c, "client", j.rep)} ELSE {}
        /\ lost' = (lost \/ c \in dead \ seen)
  /\ stat' = "DONE" /\ job' = NoJob
  /\ UNCHANGED <<call, now, caller, ca, outcome, channels, sends, registered,
                 conns_, runs, seen>>

(* The server's read or write on a broken connection fails, after it has   *)
(* read what had arrived (tcp connections set dead_ in read_cb, writepdu). *)
NoticeDead ==
  /\ \E c \in dead \ seen :
       /\ \A p \in wire : p.conn # c
       /\ seen' = seen \cup {c}
  /\ UNCHANGED <<call, now, caller, ca, outcome, channels, sends, wire,
                 registered, stat, job, conns_, saved, runs, lost>>

-----------------------------------------------------------------------------
(* The environment.                                                        *)

(* A connection breaks: the client knows, the server not yet.  What was on *)
(* it is lost, except for a request that has reached the server's host.    *)
Break ==
  /\ \E c \in 1..made :
       /\ c \notin dead /\ dead' = dead \cup {c}
       /\ wire' \in {{p \in wire : p.conn # c},
                    {p \in wire : p.conn = c => p.to = "server"}}
  /\ UNCHANGED <<call, now, caller, ca, outcome, chan_, made, sends, server>>

(* Another call of the same client renews the shared connection.           *)
OtherCall ==
  /\ ~Live(chan_) /\ made < MaxConn
  /\ made' = made + 1 /\ chan_' = made'
  /\ UNCHANGED <<call, now, caller, ca, outcome, dead, sends, wire, server>>

Tick ==
  /\ now < MaxTime /\ now' = now + 1
  /\ UNCHANGED <<call, caller, ca, outcome, channels, sends, wire, server>>

Prompt == rpcc_call \/ call1_wait \/ call1_timeout \/ call1_done \/ call_m
CallStep == Prompt \/ call1_connect \/ call1_send
ServerStep == (\E p \in wire : dispatch(p)) \/ dispatch_reply \/ NoticeDead
Next ==
  \/ CallStep \/ ServerStep \/ reg
  \/ \E p \in wire : rpcc_got_pdu(p)
  \/ Break \/ OtherCall \/ Tick

Spec == Init /\ [][Next]_vars

(* The scheduler runs the calling thread, and the clock goes on.  A live   *)
(* connection is taken at once, and send on a dead one returns; nothing    *)
(* makes a connect or a send on a live connection end.                     *)
FairSpec ==
  /\ Spec /\ WF_vars(Prompt) /\ WF_vars(Tick)
  /\ WF_vars(Live(chan_) /\ call1_connect) /\ WF_vars(~Live(ch) /\ call1_send)

-----------------------------------------------------------------------------
(* Properties.                                                             *)

Code == {timeout_failure, unmarshal_args_failure, unmarshal_reply_failure}

(* Type invariant, with the buffers: no write of the two stubs goes past   *)
(* the allocation (marshall::rawbyte, marshall::rawbytes).                 *)
TypeOK ==
  /\ call \in Calls /\ now \in NsPerSec..MaxTime
  /\ pc \in {"idle", "loop", "send", "wait", "end", "returned"}
  /\ ch \in 0..made /\ chan_ \in 0..made /\ dead \subseteq 1..made
  /\ made \in 0..MaxConn /\ conns_ \in 0..made
  /\ stat \in {"NEW", "INPROGRESS", "DONE"} /\ registered \in BOOLEAN
  /\ seen \subseteq dead /\ lost \in BOOLEAN
  /\ ret # << >> => ret[1] \in Code \cup {call.b}
  /\ \A p \in wire : p.conn \in 1..made /\ p.to \in {"client", "server"}
  /\ req # << >> => marshall(call.passed, call.args).fits
  /\ runs # << >> => marshall(<<call.given>>, <<call.r>>).fits

(* The method runs at most once, and only with arguments that marshal to   *)
(* the very bytes of the request: a request shorter or longer than the     *)
(* method's arguments never reaches it (h1::fn, okdone; rpctest.cc,        *)
(* simple_tests).  With matching signatures they are the arguments of the  *)
(* caller.  Types do not go over the wire: a method of other types whose   *)
(* bytes come out the same runs, on arguments nobody passed.               *)
ArgsExact ==
  /\ Len(runs) <= 1
  /\ \A i \in 1..Len(runs) :
       /\ Content(call.taken, runs[i]) = Content(call.passed, call.args)
       /\ call.taken = call.passed => runs[i] = call.args

(* A call returns a value of the method only if the method ran, with its   *)
(* own return value and its own result; with matching signatures it fails  *)
(* in no other way than by a timeout (call_m, got_pdu).                    *)
ReplyExact ==
  \A i \in 1..Len(ret) :
    /\ ret[i] >= 0 =>
         /\ Len(runs) = 1 /\ ret[i] = call.b
         /\ Content(<<call.got>>, res) = Content(<<call.given>>, <<call.r>>)
         /\ call.got = call.given => res = <<call.r>>
    /\ call.passed = call.taken /\ call.got = call.given =>
         ret[i] \in {call.b, timeout_failure}

(* Every deadline the caller waits for is one that pthread_cond_timedwait  *)
(* accepts, not after the final deadline; and a call gives up without a    *)
(* reply not before its timeout is over (call1, add_timespec,              *)
(* cmp_timespec).                                                          *)
DeadlinesKept ==
  /\ pc = "wait" => /\ IsDeadline(nextdeadline)
                    /\ Instant(nextdeadline) <= start + call.to * NsPerMs
  /\ pc \in {"end", "returned"} /\ ~ca.done => now >= start + call.to * NsPerMs

(* The request goes at most once over a given channel, however many waits  *)
(* and reconnections there are (call1: "only send once on a given          *)
(* channel").                                                              *)
OncePerChannel == \A c \in Conn : sends[c] <= 1

(* No call waits in vain on a live channel: as long as the caller's        *)
(* channel is up, the request is on its way over it, the method is at      *)
(* work, or the reply is on its way back over it.  A copy of the request   *)
(* that arrives while the method works is dropped (INPROGRESS), although   *)
(* the request the method works for came over a channel that is gone: then *)
(* the reply goes to conns_, which is the copy's.  There are two           *)
(* exceptions, after which only the timeout ends the call: a request that  *)
(* came before its procedure was registered, and a reply written to a      *)
(* channel the client had given up unknown to the server.                  *)
NotStranded ==
  pc = "wait" /\ Live(ch) /\ ~ca.done /\ ~lost =>
    job # NoJob \/ \E p \in wire : p.conn = ch

(* Every call returns, whatever the server does and however often its      *)
(* connection breaks, unless from some moment on it hangs in the connect   *)
(* of get_refconn or in send on a connection that stays up: to these two   *)
(* the timeout of the call does not apply (call1, connection::send).       *)
Hangs == (pc = "loop" /\ transmit /\ ~Live(chan_)) \/ (pc = "send" /\ Live(ch))
CallEnds == ((pc = "loop") ~> (pc = "returned")) \/ <>[]Hangs
=============================================================================
