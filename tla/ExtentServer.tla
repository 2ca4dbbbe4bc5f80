---------------------------- MODULE ExtentServer ----------------------------
(***************************************************************************)
(* The extent server (extent_server.cc).  store_table maps an extent's id  *)
(* to its bytes and attributes; every handler runs under                   *)
(* extent_server_mutex, so each is one step, given here as the table it    *)
(* leaves.  The bytes of a directory are kept as the sequence of its       *)
(* lines.  Of the attributes only size is kept; the times play no part.    *)
(***************************************************************************)
EXTENDS Integers, Sequences

(* std::string::resize: cut off, or filled up with zero bytes.             *)
Resized(b, n) == [i \in 1..n |-> IF i <= Len(b) THEN b[i] ELSE 0]

Stored(st, id) == id \in DOMAIN st

(* Mutant: the size of an extent that is there already is left alone.      *)
put_oldsize(st, id, b) ==
  [i \in DOMAIN st \cup {id} |->
     IF i # id THEN st[i]
     ELSE [buf |-> b, size |-> IF Stored(st, id) THEN st[id].size ELSE Len(b)]]

put(st, id, b) ==
  [i \in DOMAIN st \cup {id} |->
     IF i = id THEN [buf |-> b, size |-> Len(b)] ELSE st[i]]

get(st, id) == st[id].buf

getattr(st, id) == st[id].size

remove(st, id) == [i \in DOMAIN st \ {id} |-> st[i]]

(* IOERR unless off lies within the extent.                                *)
Readable(st, id, off) == off < Len(st[id].buf)

getbuf(st, id, ask_size, off) ==
  LET len == Len(st[id].buf)
      allowsize == IF len - off > ask_size THEN ask_size ELSE len - off
  IN SubSeq(st[id].buf, off + 1, off + allowsize)

(* Mutant: the string is not made longer, so bytes past its end are lost.  *)
putbuf_cut(st, id, off, b) ==
  LET old == st[id].buf
      new == [i \in 1..Len(old) |->
                IF i > off /\ i <= off + Len(b) THEN b[i - off] ELSE old[i]]
  IN [st EXCEPT ![id] = [buf |-> new, size |-> Len(new)]]

putbuf(st, id, off, b) ==
  LET len == Len(st[id].buf)
      end == off + Len(b)
      wide == IF end > len THEN Resized(st[id].buf, end) ELSE st[id].buf
      new == [i \in 1..Len(wide) |->
                IF i > off /\ i <= end THEN b[i - off] ELSE wide[i]]
  IN [st EXCEPT ![id] = [buf |-> new, size |-> Len(new)]]
=============================================================================
