------------------------------ MODULE RpcWindow ------------------------------
(***************************************************************************)
(* The two windows of the RPC layer (rpc/rpc.cc), as operators: the        *)
(* server's list of remembered requests of one client, and the client's    *)
(* list of finished calls.                                                 *)
(***************************************************************************)
EXTENDS Naturals, Sequences
LOCAL INSTANCE SequencesExt
LOCAL INSTANCE FiniteSetsExt

(* reply_t, without the buffer itself.                                     *)
reply_t(xid, cb_present) == [xid |-> xid, cb_present |-> cb_present]

Result(stat, window) == [stat |-> stat, window |-> window]

(* The inner while of checkduplicate_and_update drops the oldest entry if  *)
(* it is answered and the next entry has the next xid.  It drops at most   *)
(* one: afterwards reply_iter and reply_iter_after are the same entry.  In *)
(* a list of one entry reply_iter_after is end(), whose xid is read; with  *)
(* libstdc++ this is the list's length, 1, which is the successor of no    *)
(* entry that can be alone in the list.                                    *)
Slides(w) == Len(w) > 1 /\ w[1].cb_present /\ w[2].xid = w[1].xid + 1

(* The place where a scan for xid stops: at its own entry, or between two  *)
(* neighbours.  After a slide the first entry is its own neighbour.        *)
StopsAt(w, slid, xid) ==
  {i \in 1..Len(w) :
     \/ w[i].xid = xid
     \/ /\ i < Len(w)
        /\ ~(slid /\ i = 1)
        /\ w[i].xid < xid /\ xid < w[i+1].xid}

(* The loop of checkduplicate_and_update over the window w, after a slide  *)
(* or not.  A new entry goes before the smaller neighbour.  "DONE?" is the *)
(* DONE that is left over when the scan runs off the end: no reply has     *)
(* been stored in *b and *sz.                                              *)
Scan(w, slid, xid) ==
  LET stops == StopsAt(w, slid, xid)
      i == Min(stops)
  IN CASE xid < w[1].xid -> Result("FORGOTTEN", w)
       [] xid >= w[1].xid /\ stops = {} -> Result("DONE?", w)
       [] xid >= w[1].xid /\ stops # {} ->
            IF w[i].xid # xid
              THEN Result("NEW", InsertAt(w, i, reply_t(xid, FALSE)))
              ELSE Result(IF w[i].cb_present THEN "DONE" ELSE "INPROGRESS", w)

Newest_again(w, xid) == xid >= Last(w).xid  \* mutant: ">=" for ">"

Newest(w, xid) == xid > Last(w).xid

checkduplicate_and_update(window, xid) ==
  LET w == IF window = <<>> THEN <<reply_t(0, TRUE)>> ELSE window
      slid == Slides(w)
  IN CASE Newest(w, xid) -> Result("NEW", Append(w, reply_t(xid, FALSE)))
       [] ~Newest(w, xid) /\ xid < w[1].xid -> Result("FORGOTTEN", w)
       [] ~Newest(w, xid) /\ xid >= w[1].xid ->
            Scan(IF slid THEN Tail(w) ELSE w, slid, xid)

add_reply(window, xid) ==
  [i \in DOMAIN window |->
     IF window[i].xid = xid THEN reply_t(xid, TRUE) ELSE window[i]]

-----------------------------------------------------------------------------
(* rpcc::update_xid_rep: xid is put before the first larger entry; then,   *)
(* for each entry e but the first, in order, the front is popped as long   *)
(* as it is e - 1.                                                         *)
Inserted(w, xid) ==
  LET larger == {i \in 1..Len(w) : w[i] > xid}
  IN IF larger = {} THEN Append(w, xid) ELSE InsertAt(w, Min(larger), xid)

PopWhile(w, v) ==
  SubSeq(w, Min({i \in 1..Len(w) : w[i] # v} \cup {Len(w) + 1}), Len(w))

Compressed_gap(w) ==  \* mutant: a gap before e is not noticed
  FoldLeft(LAMBDA v, e : IF v[1] < e THEN PopWhile(v, v[1]) ELSE v, w, Tail(w))

Compressed(w) ==
  FoldLeft(LAMBDA v, e : IF v[1] + 1 = e THEN PopWhile(v, v[1]) ELSE v,
           w, Tail(w))

update_xid_rep(w, xid) ==
  IF xid <= w[1] THEN w ELSE Compressed(Inserted(w, xid))
=============================================================================
