-------------------------- MODULE YfsClientProofs --------------------------
(***************************************************************************)
(* Proofs about the file system, for any number of processes, files, names *)
(* and failing calls.                                                      *)
(***************************************************************************)
EXTENDS YfsClient, TLAPS

Fields == {"pc", "m", "req", "tgt", "buf", "ino", "r", "val", "reply"}
DirOp == {"create", "mkadir", "lookup", "remove"}

(* p holds a copy of the directory it is going to change.                  *)
Editing(p) ==
  \/ p.m \in {"create", "mkadir"} /\ p.pc \in {"new", "put"}
  \/ p.m = "remove" /\ p.pc \in {"acquire_ent", "erase", "put"}

(* p.ino is an i-number: it was found, or has been made.                   *)
Named(p) ==
  \/ p.m = "remove" /\ p.pc \in {"acquire_ent", "erase", "put", "release_ent"}
  \/ p.m \in {"create", "mkadir"} /\ p.pc = "put"
  \/ /\ p.m \in {"create", "mkadir", "lookup"} /\ p.pc \in {"release", "return"}
     /\ p.r \in {"OK", "EXIST"}
  \/ p.m = "getattr" /\ p.req.op \in {"create", "mkdir", "lookup"}

(* A process is in a step its operation has, with what that step needs.    *)
ProcOK(p) ==
  /\ DOMAIN p = Fields
  /\ p.pc # "idle" =>
       /\ p.req \in Request /\ p.req.op # "open" /\ p.tgt \in Inum
       /\ p.m = First[p.req.op] \/ p.m \in {"getattr", "read"}
       /\ p.m \in DirOp => p.tgt \in Dir /\ p.req.name \in Name
       /\ p.m \in {"resize", "write"} => p.tgt \in File
       /\ p.m \in {"read", "readir"} => p.pc \in {"locked", "return"}
       /\ p.m = "read" => p.req.op = "read"
       /\ p.pc \in {"acquire_ent", "erase", "release_ent"} => p.m = "remove"
       /\ p.pc \in {"acquire", "locked", "new", "put", "acquire_ent", "erase",
                    "release_ent", "release", "return"}
       /\ Editing(p) => p.buf \in Seq(Line)
       /\ Named(p) => p.ino \in Inum
       /\ p.m = "remove" /\ p.pc \in {"erase", "put", "release_ent"} => p.ino # p.tgt

(* The locks a process holds in each step of an operation.                 *)
Holds(p) ==
  {i \in Inum :
     \/ /\ i = p.tgt /\ p.m \notin {"read", "readir"}
        /\ p.pc \in {"locked", "new", "put", "acquire_ent", "erase",
                     "release_ent", "release"}
     \/ /\ i = p.ino /\ p.m = "remove"
        /\ p.pc \in {"erase", "put", "release_ent"}}

(* The extent of a directory is a sequence of lines.                       *)
StoreOK(st) ==
  /\ DOMAIN st \subseteq Inum
  /\ \A d \in Dir \cap DOMAIN st : get(st, d) \in Seq(Line)

(* A call that changes an extent gives a directory lines, and putbuf is    *)
(* called for files alone.                                                 *)
UpdateOK(u) ==
  /\ u.id \in Inum /\ u.op \in {"put", "remove", "putbuf"}
  /\ u.op = "put" /\ u.id \in Dir => u.buf \in Seq(Line)
  /\ u.op = "putbuf" => u.id \in File

LockInv ==
  /\ DOMAIN cl = Client /\ \A c \in Client : ProcOK(cl[c])
  /\ StoreOK(store_table) /\ \A u \in late : UpdateOK(u)
  /\ owner \in [Inum -> Client \cup {None}]
  /\ known \in [Client -> SUBSET Inum]
  /\ \A c \in Client, i \in Inum : owner[i] = c <=> i \in Holds(cl[c])

-----------------------------------------------------------------------------
LEMMA IdleProc ==
  ASSUME NEW reply
  PROVE /\ DOMAIN Idle(reply) = Fields /\ Idle(reply).pc = "idle"
        /\ Idle(reply).m = "none" /\ Idle(reply).ino = None
        /\ ProcOK(Idle(reply)) /\ Holds(Idle(reply)) = {}
BY Zenon DEF Idle, Fields, ProcOK, Holds

(* What Begin makes of p.                                                  *)
LEMMA BeginProc ==
  ASSUME NEW p, DOMAIN p = Fields, NEW m, NEW i
  PROVE /\ DOMAIN Begin(p, m, i) = Fields
        /\ Begin(p, m, i).m = m /\ Begin(p, m, i).tgt = i
        /\ Begin(p, m, i).req = p.req /\ Begin(p, m, i).ino = p.ino
        /\ m \in {"read", "readir"} => Begin(p, m, i).pc = "locked"
        /\ m \notin {"read", "readir"} => Begin(p, m, i).pc = "acquire"
BY Zenon DEF Begin, Fields

LEMMA EnterProc ==
  ASSUME NEW q \in Request
  PROVE /\ ProcOK(Enter(q)) /\ Holds(Enter(q)) = {}
        /\ \/ Enter(q).pc = "idle"
           \/ /\ Enter(q).tgt = q.ino /\ Enter(q).pc \in {"acquire", "locked"}
              /\ ~Editing(Enter(q)) /\ ~Named(Enter(q))
<1>. DEFINE p == [Idle("none") EXCEPT !.req = q]
            b == Begin(p, First[q.op], q.ino)
<1>0. /\ q.op \in {"getattr", "setattr", "read", "write", "create", "lookup",
                   "readdir", "open", "mkdir", "unlink"}
      /\ q.ino \in Inum
      /\ q.op \in {"create", "lookup", "mkdir", "unlink"} =>
           q.ino \in Dir /\ q.name \in Name
  BY YfsAssumption, Zenon DEF Inum
<1>1. DOMAIN p = Fields /\ p.req = q
  BY Zenon DEF Idle, Fields
<1>. HIDE DEF p
<1>2. CASE Enter(q) = b /\ q.op # "open"
           /\ (q.op \in {"setattr", "read", "write"} => isfile(q.ino))
           /\ (q.op = "readdir" => ~isfile(q.ino))
  <2>1. /\ DOMAIN b = Fields /\ b.m = First[q.op] /\ b.tgt = q.ino /\ b.req = q
        /\ b.m \in {"read", "readir"} => b.pc = "locked"
        /\ b.m \notin {"read", "readir"} => b.pc = "acquire"
    BY <1>1, BeginProc
  <2>. HIDE DEF b
  <2>2. /\ b.m \in DirOp => q.op \in {"create", "lookup", "mkdir", "unlink"}
        /\ b.m \in {"resize", "write"} => q.op \in {"setattr", "write"}
        /\ b.m = "getattr" => q.op \in {"getattr", "read"}
        /\ b.m # "read"
    BY <1>0, <1>2, <2>1 DEF First, DirOp
  <2>3. ProcOK(b)
    BY <1>0, <1>2, <2>1, <2>2, Zenon DEF ProcOK, isfile, Editing, Named
  <2>4. Holds(b) = {}
    BY <2>1, Zenon DEF Holds
  <2>5. ~Editing(b) /\ ~Named(b)
    BY <2>1, <2>2, Zenon DEF Editing, Named
  <2>. QED
    BY <1>2, <2>1, <2>3, <2>4, <2>5, Zenon
<1>3. CASE \E reply : Enter(q) = Idle(reply)
  BY <1>3, IdleProc, Zenon
<1>. QED
  BY <1>0, <1>2, <1>3, Zenon DEF Enter, p

(* What the extent server's operations make of the table.                  *)
LEMMA PutOK ==
  ASSUME NEW st, StoreOK(st), NEW i \in Inum, NEW b, i \in Dir => b \in Seq(Line)
  PROVE StoreOK(put(st, i, b))
BY Zenon DEF StoreOK, put, get

LEMMA RemoveOK ==
  ASSUME NEW st, StoreOK(st), NEW i
  PROVE StoreOK(remove(st, i))
BY Zenon DEF StoreOK, remove, get

LEMMA PutbufOK ==
  ASSUME NEW st, StoreOK(st), NEW i \in File, NEW off, NEW b
  PROVE /\ StoreOK(putbuf(st, i, off, b))
        /\ DOMAIN putbuf(st, i, off, b) = DOMAIN st
        /\ \A j \in DOMAIN st : j # i => putbuf(st, i, off, b)[j] = st[j]
<1>1. PICK x : putbuf(st, i, off, b) = [st EXCEPT ![i] = x]
  BY Zenon DEF putbuf
<1>2. i \notin Dir
  BY YfsAssumption, Zenon
<1>. QED
  BY <1>1, <1>2, Zenon DEF StoreOK, get

LEMMA CallFields ==
  ASSUME NEW i, NEW off, NEW b
  PROVE /\ PutCall(i, b).op = "put" /\ PutCall(i, b).id = i /\ PutCall(i, b).buf = b
        /\ RemoveCall(i).op = "remove" /\ RemoveCall(i).id = i
        /\ PutbufCall(i, off, b).op = "putbuf" /\ PutbufCall(i, off, b).id = i
BY Zenon DEF PutCall, RemoveCall, PutbufCall

LEMMA UpdateCalls ==
  ASSUME NEW i \in Inum, NEW off, NEW b
  PROVE /\ (i \in Dir => b \in Seq(Line)) => UpdateOK(PutCall(i, b))
        /\ UpdateOK(RemoveCall(i))
        /\ i \in File => UpdateOK(PutbufCall(i, off, b))
<1>1. /\ PutCall(i, b).op = "put" /\ PutCall(i, b).id = i /\ PutCall(i, b).buf = b
      /\ RemoveCall(i).op = "remove" /\ RemoveCall(i).id = i
      /\ PutbufCall(i, off, b).op = "putbuf" /\ PutbufCall(i, off, b).id = i
  BY Zenon DEF PutCall, RemoveCall, PutbufCall
<1>. QED
  BY <1>1 DEF UpdateOK

(* A call changes no extent but its own, and stores no directory but with  *)
(* a put.                                                                  *)
DirPut(u) == u.op = "put" /\ u.id \in Dir
Effect(u) ==
  /\ DOMAIN store_table' \subseteq DOMAIN store_table \cup {u.id}
  /\ \A j \in Inum : j # u.id => Extent(j)' = Extent(j)
  /\ \A d \in Dir \cap DOMAIN store_table' :
       \/ d \in DOMAIN store_table /\ get(store_table', d) = get(store_table, d)
       \/ DirPut(u) /\ d = u.id /\ get(store_table', d) = u.buf
  /\ late' \subseteq late \cup {u}

LEMMA ExecuteEffect ==
  ASSUME StoreOK(store_table), NEW u, UpdateOK(u), late' \subseteq late \cup {u},
         store_table' \in {store_table, Execute(store_table, u)}
  PROVE StoreOK(store_table') /\ Effect(u)
<1>. DEFINE st == store_table
<1>0. CASE store_table' = store_table
  BY <1>0, Zenon DEF Effect, Extent
<1>1. CASE u.op = "put" /\ store_table' = put(st, u.id, u.buf)
  <2>1. StoreOK(store_table')
    BY <1>1, PutOK, Zenon DEF UpdateOK
  <2>2. /\ DOMAIN store_table' \subseteq DOMAIN st \cup {u.id}
        /\ \A d \in Dir \cap DOMAIN store_table' :
             \/ d \in DOMAIN st /\ get(store_table', d) = get(st, d)
             \/ DirPut(u) /\ d = u.id /\ get(store_table', d) = u.buf
    BY <1>1, Zenon DEF put, get, DirPut
  <2>3. \A j \in Inum : j # u.id => Extent(j)' = Extent(j)
    BY <1>1, Zenon DEF put, Extent, Stored
  <2>. QED
    BY <2>1, <2>2, <2>3, Zenon DEF Effect
<1>2. CASE u.op = "remove" /\ store_table' = remove(st, u.id)
  <2>1. StoreOK(store_table')
    BY <1>2, RemoveOK, Zenon
  <2>2. /\ DOMAIN store_table' \subseteq DOMAIN st \cup {u.id}
        /\ \A d \in Dir \cap DOMAIN store_table' :
             d \in DOMAIN st /\ get(store_table', d) = get(st, d)
    BY <1>2, Zenon DEF remove, get
  <2>3. \A j \in Inum : j # u.id => Extent(j)' = Extent(j)
    BY <1>2, Zenon DEF remove, Extent, Stored
  <2>. QED
    BY <2>1, <2>2, <2>3, Zenon DEF Effect
<1>3. CASE u.op = "putbuf" /\ store_table' = putbuf(st, u.id, u.off, u.buf)
  <2>0. u.id \in File /\ u.id \notin Dir
    BY <1>3, YfsAssumption, Zenon DEF UpdateOK
  <2>1. /\ StoreOK(store_table') /\ DOMAIN store_table' = DOMAIN st
        /\ \A j \in DOMAIN st : j # u.id => store_table'[j] = st[j]
    <3>1. /\ StoreOK(putbuf(st, u.id, u.off, u.buf))
          /\ DOMAIN putbuf(st, u.id, u.off, u.buf) = DOMAIN st
          /\ \A j \in DOMAIN st : j # u.id => putbuf(st, u.id, u.off, u.buf)[j] = st[j]
      BY <2>0, PutbufOK
    <3>. QED
      BY <1>3, <3>1, Zenon
  <2>2. \A d \in Dir \cap DOMAIN store_table' :
          d \in DOMAIN st /\ get(store_table', d) = get(st, d)
    BY <2>0, <2>1, Zenon DEF get
  <2>3. \A j \in Inum : j # u.id => Extent(j)' = Extent(j)
    BY <2>1, Zenon DEF Extent, Stored
  <2>. QED
    BY <2>1, <2>2, <2>3, Zenon DEF Effect
<1>. QED
  BY <1>0, <1>1, <1>2, <1>3, Zenon DEF Execute, UpdateOK

(* The calls a step may make: none that changes the server, or one.        *)
Calls ==
  \/ UNCHANGED <<store_table, late>>
  \/ \E o, u : UpdateOK(u) /\ Carried(o, u)

LEMMA CallsOK ==
  ASSUME LockInv, Calls
  PROVE StoreOK(store_table') /\ \A u \in late' : UpdateOK(u)
<1>0. StoreOK(store_table) /\ \A u \in late : UpdateOK(u)
  BY Zenon DEF LockInv
<1>1. CASE UNCHANGED <<store_table, late>>
  BY <1>0, <1>1, Zenon
<1>2. ASSUME NEW o, NEW u, UpdateOK(u), Carried(o, u)
      PROVE StoreOK(store_table') /\ \A w \in late' : UpdateOK(w)
  <2>1. /\ store_table' \in {store_table, Execute(store_table, u)}
        /\ late' \subseteq late \cup {u}
    BY <1>2, Zenon DEF Carried
  <2>. QED
    BY <1>0, <1>2, <2>1, ExecuteEffect, Zenon
<1>. QED
  BY <1>1, <1>2, Zenon DEF Calls

LEMMA Lines_ ==
  ASSUME NEW b \in Seq(Line), NEW i \in Lines(b)
  PROVE /\ b[i] \in Name \X Inum /\ i \in 1..Len(b)
        /\ ent_read(b[i]).name = b[i][1] /\ ent_read(b[i]).inum = b[i][2]
        /\ b[i][2] \in Inum
BY DEF Lines, Line, ent_read

LEMMA ErasedLine ==
  ASSUME NEW b \in Seq(Line), NEW i
  PROVE /\ [b EXCEPT ![i] = <<>>] \in Seq(Line)
        /\ Len([b EXCEPT ![i] = <<>>]) = Len(b)
<1>. DEFINE e == [b EXCEPT ![i] = <<>>]
<1>1. <<>> \in Line
  BY Zenon DEF Line
<1>2. Len(b) \in Nat /\ b \in [1..Len(b) -> Line]
  OBVIOUS
<1>3. e \in [1..Len(b) -> Line]
  BY <1>1, <1>2, Zenon
<1>. HIDE DEF e
<1>4. e \in Seq(Line) /\ Len(e) = Len(b)
  BY <1>2, <1>3
<1>. QED
  BY <1>4, Zenon DEF e

(* A step of c alone that neither takes nor returns a lock.                *)
LEMMA KeepsLocks ==
  ASSUME LockInv, NEW c \in Client, NEW q, cl' = [cl EXCEPT ![c] = q],
         ProcOK(q), Holds(q) = Holds(cl[c]), UNCHANGED owner,
         known' \in [Client -> SUBSET Inum], Calls
  PROVE LockInv'
<1>1. \A d \in Client : cl'[d] = IF d = c THEN q ELSE cl[d]
  BY Zenon DEF LockInv
<1>2. DOMAIN cl' = Client /\ \A d \in Client : ProcOK(cl'[d])
  BY <1>1, Zenon DEF LockInv
<1>3. \A d \in Client, i \in Inum : owner'[i] = d <=> i \in Holds(cl'[d])
  BY <1>1, Zenon DEF LockInv
<1>. QED
  BY <1>2, <1>3, CallsOK, Zenon DEF LockInv

(* Taking a lock and returning one.                                        *)
LEMMA TakesLock ==
  ASSUME LockInv, NEW c \in Client, NEW i \in Inum, NEW pc, Locked(c, i, pc),
         NEW q, q = [cl[c] EXCEPT !.pc = pc], ProcOK(q),
         Holds(q) = Holds(cl[c]) \cup {i}
  PROVE LockInv'
<1>1. \A d \in Client : cl'[d] = IF d = c THEN q ELSE cl[d]
  BY Zenon DEF LockInv, Locked, Goto
<1>2. DOMAIN cl' = Client /\ \A d \in Client : ProcOK(cl'[d])
  BY <1>1, Zenon DEF LockInv, Locked, Goto
<1>3. /\ owner[i] = None /\ owner' = [owner EXCEPT ![i] = c]
      /\ UNCHANGED <<store_table, known, late>>
  BY Zenon DEF Locked
<1>4. None \notin Client
  BY YfsAssumption, Zenon
<1>5. \A d \in Client, j \in Inum : owner'[j] = d <=> j \in Holds(cl'[d])
  BY <1>1, <1>3, <1>4 DEF LockInv
<1>. QED
  BY <1>2, <1>3, <1>5, Zenon DEF LockInv

LEMMA ReturnsLock ==
  ASSUME LockInv, NEW c \in Client, NEW i \in Inum, NEW pc, Unlocked(c, i, pc),
         NEW q, q = [cl[c] EXCEPT !.pc = pc], ProcOK(q),
         i \in Holds(cl[c]), Holds(q) = Holds(cl[c]) \ {i}
  PROVE LockInv'
<1>1. \A d \in Client : cl'[d] = IF d = c THEN q ELSE cl[d]
  BY Zenon DEF LockInv, Unlocked, Goto
<1>2. DOMAIN cl' = Client /\ \A d \in Client : ProcOK(cl'[d])
  BY <1>1, Zenon DEF LockInv, Unlocked, Goto
<1>3. owner' = [owner EXCEPT ![i] = None] /\ UNCHANGED <<store_table, known, late>>
  BY Zenon DEF Unlocked
<1>4. None \notin Client /\ owner[i] = c
  BY YfsAssumption, Zenon DEF LockInv
<1>5. \A d \in Client, j \in Inum : owner'[j] = d <=> j \in Holds(cl'[d])
  BY <1>1, <1>3, <1>4 DEF LockInv
<1>. QED
  BY <1>2, <1>3, <1>5, Zenon DEF LockInv

(* The directory is read and searched: what Search leaves the process.     *)
Searched(c, hit, miss, q) ==
  /\ cl' = [cl EXCEPT ![c] = q] /\ DOMAIN q = Fields
  /\ q.m = cl[c].m /\ q.req = cl[c].req /\ q.tgt = cl[c].tgt
  /\ UNCHANGED <<store_table, owner, known, used, late>>
  /\ \/ q.pc = "release" /\ q.r \in {"NOENT", "RPCERR"}
     \/ /\ cl[c].tgt \in DOMAIN store_table
        /\ q.buf = get(store_table, cl[c].tgt) /\ q.buf \in Seq(Line)
        /\ \/ /\ q.pc = hit.pc /\ q.r = hit.r
              /\ \E i \in Lines(q.buf) : q.ino = q.buf[i][2]
           \/ /\ q.pc = miss.pc /\ q.r = miss.r
              /\ dir_find(q.buf, q.req.name) = {}

(* There is such a process record after every search.                      *)
LEMMA SearchProc ==
  ASSUME LockInv, NEW c \in Client, NEW hit, NEW miss, Search(c, hit, miss),
         cl[c].tgt \in Dir
  PROVE \E q : Searched(c, hit, miss, q)
<1>. DEFINE p == cl[c]
<1>1. PICK o \in Outcome :
        LET ext == Status(o, Found(p.tgt))
            b == IF ext = "OK" THEN get(store_table, p.tgt) ELSE <<>>
            lines == dir_find(b, p.req.name)
            to == IF ext # "OK" THEN [pc |-> "release", r |-> ext]
                  ELSE IF lines # {} THEN hit ELSE miss
        IN /\ Asked(o)
           /\ Goto(c, [p EXCEPT !.pc = to.pc, !.r = to.r, !.buf = b,
                !.ino = IF lines = {} THEN None
                        ELSE ent_read(b[CHOOSE i \in lines : TRUE]).inum])
           /\ UNCHANGED <<owner, known, used>>
  BY Zenon DEF Search
<1>. DEFINE ext == Status(o, Found(p.tgt))
            b == IF ext = "OK" THEN get(store_table, p.tgt) ELSE <<>>
            lines == dir_find(b, p.req.name)
            to == IF ext # "OK" THEN [pc |-> "release", r |-> ext]
                  ELSE IF lines # {} THEN hit ELSE miss
            ino == IF lines = {} THEN None
                   ELSE ent_read(b[CHOOSE i \in lines : TRUE]).inum
            q == [p EXCEPT !.pc = to.pc, !.r = to.r, !.buf = b, !.ino = ino]
<1>2. DOMAIN p = Fields
  BY Zenon DEF LockInv, ProcOK
<1>3. cl' = [cl EXCEPT ![c] = q] /\ UNCHANGED <<store_table, owner, known, used, late>>
  BY <1>1, Zenon DEF Goto, Asked
<1>4. /\ DOMAIN q = Fields /\ q.m = p.m /\ q.req = p.req /\ q.tgt = p.tgt
      /\ q.pc = to.pc /\ q.r = to.r /\ q.buf = b /\ q.ino = ino
  <2>. HIDE DEF p, to, b, ino
  <2>. QED
    BY <1>2, Zenon DEF Fields
<1>5. /\ ext \in {"OK", "NOENT", "RPCERR"}
      /\ ext = "OK" => p.tgt \in DOMAIN store_table /\ b = get(store_table, p.tgt)
  BY Zenon DEF Status, Found, Stored
<1>6. ext = "OK" => b \in Seq(Line)
  BY <1>5, Zenon DEF LockInv, StoreOK
<1>. HIDE DEF q, p, ext, b
<1>7. CASE ext # "OK"
  BY <1>3, <1>4, <1>5, <1>7, Zenon DEF p, Searched
<1>8. CASE ext = "OK" /\ lines = {}
  BY <1>3, <1>4, <1>5, <1>6, <1>8, Zenon DEF p, Searched
<1>9. CASE ext = "OK" /\ lines # {}
  <2>. DEFINE i == CHOOSE i \in lines : TRUE
  <2>1. i \in lines
    BY <1>9, Zenon
  <2>2. i \in Lines(b)
    BY <2>1, Zenon DEF dir_find
  <2>3. ino = b[i][2]
    BY <1>6, <1>9, <2>2, Lines_, Zenon
  <2>. HIDE DEF i, lines, ino
  <2>4. q.pc = hit.pc /\ q.r = hit.r
    BY <1>4, <1>9, Zenon
  <2>. QED
    BY <1>3, <1>4, <1>5, <1>6, <1>9, <2>2, <2>3, <2>4, Zenon DEF p, Searched
<1>. QED
  BY <1>7, <1>8, <1>9, Zenon

-----------------------------------------------------------------------------
(* Updates of a process that stay within an operation.                     *)
LEMMA MoveProc ==
  ASSUME NEW p, DOMAIN p = Fields, NEW x, NEW y, NEW z
  PROVE /\ LET q == [p EXCEPT !.pc = x]
           IN /\ DOMAIN q = Fields /\ q.pc = x /\ q.m = p.m /\ q.req = p.req
              /\ q.tgt = p.tgt /\ q.buf = p.buf /\ q.ino = p.ino /\ q.r = p.r
        /\ LET q == [p EXCEPT !.pc = x, !.r = y]
           IN /\ DOMAIN q = Fields /\ q.pc = x /\ q.m = p.m /\ q.req = p.req
              /\ q.tgt = p.tgt /\ q.buf = p.buf /\ q.ino = p.ino /\ q.r = y
        /\ LET q == [p EXCEPT !.pc = x, !.r = y, !.val = z]
           IN /\ DOMAIN q = Fields /\ q.pc = x /\ q.m = p.m /\ q.req = p.req
              /\ q.tgt = p.tgt /\ q.buf = p.buf /\ q.ino = p.ino /\ q.r = y
        /\ LET q == [p EXCEPT !.pc = x, !.r = y, !.buf = z]
           IN /\ DOMAIN q = Fields /\ q.pc = x /\ q.m = p.m /\ q.req = p.req
              /\ q.tgt = p.tgt /\ q.buf = z /\ q.ino = p.ino /\ q.r = y
        /\ LET q == [p EXCEPT !.pc = x, !.ino = y]
           IN /\ DOMAIN q = Fields /\ q.pc = x /\ q.m = p.m /\ q.req = p.req
              /\ q.tgt = p.tgt /\ q.buf = p.buf /\ q.ino = y /\ q.r = p.r
        /\ LET q == [p EXCEPT !.pc = x, !.buf = y]
           IN /\ DOMAIN q = Fields /\ q.pc = x /\ q.m = p.m /\ q.req = p.req
              /\ q.tgt = p.tgt /\ q.buf = y /\ q.ino = p.ino /\ q.r = p.r
BY Zenon DEF Fields

LEMMA LockInit == Init => LockInv
<1>. SUFFICES ASSUME Init PROVE LockInv
  OBVIOUS
<1>1. DOMAIN cl = Client /\ \A c \in Client : cl[c] = Idle("none")
  BY Zenon DEF Init
<1>2. StoreOK(store_table)
  <2>1. StoreOK(<<>>)
    BY DEF StoreOK
  <2>2. <<>> \in Seq(Line) /\ Root \in Inum
    BY YfsAssumption DEF Inum
  <2>. QED
    BY <2>1, <2>2, PutOK, Zenon DEF Init
<1>3. /\ owner \in [Inum -> Client \cup {None}] /\ known \in [Client -> SUBSET Inum]
      /\ \A i \in Inum : owner[i] = None
  BY YfsAssumption, Zenon DEF Init, Inum
<1>. QED
  BY <1>1, <1>2, <1>3, IdleProc, YfsAssumption DEF LockInv, Init

(* A step of an operation that makes at most one call.                     *)
LEMMA WithinOp ==
  ASSUME LockInv, NEW c \in Client, NEW q, cl' = [cl EXCEPT ![c] = q],
         DOMAIN q = Fields, cl[c].pc # "idle", q.pc # "idle",
         q.m = cl[c].m, q.req = cl[c].req, q.tgt = cl[c].tgt,
         q.m \in {"read", "readir"} => q.pc \in {"locked", "return"},
         q.pc \in {"acquire_ent", "erase", "release_ent"} => q.m = "remove",
         q.pc \in {"acquire", "locked", "new", "put", "acquire_ent", "erase",
                   "release_ent", "release", "return"},
         Editing(q) => q.buf \in Seq(Line), Named(q) => q.ino \in Inum,
         q.m = "remove" /\ q.pc \in {"erase", "put", "release_ent"} => q.ino # q.tgt,
         Holds(q) = Holds(cl[c]), UNCHANGED <<owner, known>>, Calls
  PROVE LockInv'
<1>1. ProcOK(cl[c])
  BY Zenon DEF LockInv
<1>2. ProcOK(q)
  BY <1>1, Zenon DEF ProcOK
<1>3. known' \in [Client -> SUBSET Inum]
  BY Zenon DEF LockInv
<1>. QED
  BY <1>2, <1>3, KeepsLocks, Zenon

LEMMA FollowProc ==
  ASSUME NEW p, ProcOK(p), p.pc = "return", NEW f \in Follow(p)
  PROVE LET q == Begin(p, f[1], f[2])
        IN /\ ProcOK(q) /\ Holds(q) = {} /\ q.pc \in {"acquire", "locked"}
           /\ q.m \in {"getattr", "read"} /\ ~Editing(q)
           /\ q.tgt \in {p.ino, p.tgt} /\ q.ino = p.ino
           /\ q.tgt # p.tgt \/ Named(q) => Named(p)
<1>. DEFINE q == Begin(p, f[1], f[2])
<1>1. \/ /\ f = <<"getattr", p.ino>>
         /\ \/ p.m = "create" /\ p.r \in {"OK", "EXIST"}
            \/ p.m \in {"lookup", "mkadir"} /\ p.r = "OK"
      \/ f = <<"getattr", p.tgt>> /\ p.m = "resize"
      \/ f = <<"read", p.tgt>> /\ p.req.op = "read"
  BY Zenon DEF Follow
<1>2. /\ f[1] \in {"getattr", "read"} /\ f[2] \in {p.ino, p.tgt}
      /\ f[1] = "read" => p.req.op = "read"
  BY <1>1
<1>3. /\ DOMAIN q = Fields /\ q.m = f[1] /\ q.tgt = f[2] /\ q.req = p.req
      /\ q.ino = p.ino
      /\ f[1] = "read" => q.pc = "locked"
      /\ f[1] = "getattr" => q.pc = "acquire"
  BY <1>2, BeginProc DEF ProcOK
<1>4. f[2] # p.tgt => Named(p)
  BY <1>1 DEF Named
<1>5. Named(q) => Named(p)
  <2>0. /\ p.req \in Request
        /\ p.m = First[p.req.op] \/ p.m \in {"getattr", "read"}
    BY Zenon DEF ProcOK
  <2>1. p.m = "resize" => p.req.op = "setattr"
    BY <2>0, YfsAssumption DEF First, ProcOK
  <2>. QED
    BY <1>1, <1>3, <2>1 DEF Named
<1>. HIDE DEF q
<1>6. ProcOK(q)
  <2>1. p.ino \in Inum \/ f[2] = p.tgt
    BY <1>2, <1>4, Zenon DEF ProcOK
  <2>2. ~Editing(q)
    BY <1>2, <1>3, Zenon DEF Editing
  <2>3. Named(q) => q.ino \in Inum
    BY <1>3, <1>5, Zenon DEF ProcOK
  <2>. QED
    BY <1>2, <1>3, <2>1, <2>2, <2>3, Zenon DEF ProcOK, DirOp
<1>7. Holds(q) = {} /\ ~Editing(q)
  BY <1>2, <1>3, Zenon DEF Holds, Editing
<1>. QED
  BY <1>2, <1>3, <1>4, <1>5, <1>6, <1>7, Zenon DEF q

LEMMA LockStep == LockInv /\ [Next]_vars => LockInv'
<1>. SUFFICES ASSUME LockInv, [Next]_vars PROVE LockInv'
  OBVIOUS
<1>1. CASE UNCHANGED vars
  BY <1>1, Zenon DEF LockInv, vars
<1>2. ASSUME NEW c \in Client, request(c) PROVE LockInv'
  <2>1. PICK q \in Request : Goto(c, Enter(q))
    BY <1>2, Zenon DEF request
  <2>2. cl[c].pc = "idle" /\ UNCHANGED <<store_table, owner, known, late>>
    BY <1>2, Zenon DEF request
  <2>3. Holds(cl[c]) = {}
    BY <2>2, Zenon DEF Holds
  <2>. QED
    BY <2>1, <2>2, <2>3, EnterProc, KeepsLocks, Zenon DEF Goto, LockInv, Calls
<1>3. ASSUME NEW c \in Client, Step(c) PROVE LockInv'
  <2>. DEFINE p == cl[c]
  <2>0. ProcOK(p) /\ DOMAIN p = Fields
    BY Zenon DEF LockInv, ProcOK
  <2>. HIDE DEF p
  <2>1. CASE handle(c)
    <3>1. p.pc = "return" /\ UNCHANGED <<store_table, owner, late>>
      BY <2>1, Zenon DEF handle, p
    <3>2. Holds(p) = {}
      BY <3>1, Zenon DEF Holds
    <3>3. CASE \E f \in Follow(p) : Goto(c, Begin(p, f[1], f[2])) /\ UNCHANGED known
      <4>1. PICK f \in Follow(p) : Goto(c, Begin(p, f[1], f[2])) /\ UNCHANGED known
        BY <3>3, Zenon
      <4>. QED
        BY <2>0, <3>1, <3>2, <4>1, FollowProc, KeepsLocks, Zenon DEF Goto,
           LockInv, Calls, p
    <3>4. CASE /\ Follow(p) = {} /\ Goto(c, Idle(Reply(p)))
               /\ known' = [known EXCEPT ![c] = @ \cup
                    IF Reply(p) = "OK" /\ p.req.op \in {"create", "lookup", "mkdir"}
                      THEN {p.ino} ELSE {}]
      <4>1. Reply(p) = "OK" /\ p.req.op \in {"create", "lookup", "mkdir"} => Named(p)
        <5>1. p.req.op \in {"create", "lookup", "mkdir"} =>
                p.m \in {"create", "lookup", "mkadir", "getattr", "read"}
          BY <2>0, <3>1 DEF ProcOK, First
        <5>2. p.m = "read" => p.req.op = "read"
          BY <2>0, <3>1, SMTT(60) DEF ProcOK, First
        <5>. QED
          BY <3>1, <3>4, <5>1, <5>2, Zenon DEF Reply, Follow, Named
      <4>2. known' \in [Client -> SUBSET Inum]
        BY <2>0, <3>1, <3>4, <4>1 DEF LockInv, ProcOK
      <4>. QED
        BY <3>1, <3>2, <3>4, <4>2, IdleProc, KeepsLocks, Zenon DEF Goto, Calls, p
    <3>. QED
      BY <2>1, <3>3, <3>4, Zenon DEF handle, p
  <2>2. CASE acquire(c)
    <3>. DEFINE q == [p EXCEPT !.pc = "locked"]
    <3>1. p.pc = "acquire" /\ Locked(c, p.tgt, "locked")
      BY <2>2, Zenon DEF acquire, p
    <3>2. /\ DOMAIN q = Fields /\ q.pc = "locked" /\ q.m = p.m /\ q.req = p.req
          /\ q.tgt = p.tgt /\ q.buf = p.buf /\ q.ino = p.ino
      BY <2>0, MoveProc
    <3>. HIDE DEF q
    <3>3. ProcOK(q) /\ p.tgt \in Inum /\ p.m \notin {"read", "readir"}
      BY <2>0, <3>1, <3>2, Zenon DEF ProcOK, Editing, Named
    <3>4. Holds(q) = Holds(p) \cup {p.tgt}
      BY <3>1, <3>2, <3>3, Zenon DEF Holds
    <3>. QED
      BY <3>1, <3>3, <3>4, TakesLock, Zenon DEF p, q
  <2>3. CASE release(c)
    <3>. DEFINE q == [p EXCEPT !.pc = "return"]
    <3>1. p.pc = "release" /\ Unlocked(c, p.tgt, "return")
      BY <2>3, Zenon DEF release, p
    <3>2. /\ DOMAIN q = Fields /\ q.pc = "return" /\ q.m = p.m /\ q.req = p.req
          /\ q.tgt = p.tgt /\ q.buf = p.buf /\ q.ino = p.ino /\ q.r = p.r
      BY <2>0, MoveProc
    <3>. HIDE DEF q
    <3>3. ProcOK(q) /\ p.tgt \in Inum /\ p.m \notin {"read", "readir"}
      BY <2>0, <3>1, <3>2, Zenon DEF ProcOK, Editing, Named
    <3>4. Holds(q) = Holds(p) \ {p.tgt} /\ p.tgt \in Holds(p)
      BY <3>1, <3>2, <3>3, Zenon DEF Holds
    <3>. QED
      BY <3>1, <3>3, <3>4, ReturnsLock, Zenon DEF p, q
  <2>4. CASE remove_acquire(c)
    <3>. DEFINE q == [p EXCEPT !.pc = "erase"]
    <3>1. p.pc = "acquire_ent" /\ Locked(c, p.ino, "erase")
      BY <2>4, Zenon DEF remove_acquire, p
    <3>2. /\ DOMAIN q = Fields /\ q.pc = "erase" /\ q.m = p.m /\ q.req = p.req
          /\ q.tgt = p.tgt /\ q.buf = p.buf /\ q.ino = p.ino
      BY <2>0, MoveProc
    <3>. HIDE DEF q
    <3>0. p.ino # p.tgt
      <4>1. p.tgt \in Holds(p)
        BY <2>0, <3>1, Zenon DEF Holds, ProcOK
      <4>2. owner[p.ino] = None /\ owner[p.tgt] = c /\ None \notin Client
        BY <2>0, <3>1, <4>1, YfsAssumption, Zenon DEF LockInv, Locked, p, Holds
      <4>. QED
        BY <4>2, Zenon
    <3>3. ProcOK(q) /\ p.ino \in Inum /\ p.m = "remove"
      BY <2>0, <3>0, <3>1, <3>2, Zenon DEF ProcOK, Editing, Named
    <3>4. Holds(q) = Holds(p) \cup {p.ino}
      BY <3>1, <3>2, <3>3, Zenon DEF Holds
    <3>. QED
      BY <3>1, <3>3, <3>4, TakesLock, Zenon DEF p, q
  <2>5. CASE remove_release(c)
    <3>. DEFINE q == [p EXCEPT !.pc = "release"]
    <3>1. p.pc = "release_ent" /\ Unlocked(c, p.ino, "release")
      BY <2>5, Zenon DEF remove_release, p
    <3>2. /\ DOMAIN q = Fields /\ q.pc = "release" /\ q.m = p.m /\ q.req = p.req
          /\ q.tgt = p.tgt /\ q.buf = p.buf /\ q.ino = p.ino
      BY <2>0, MoveProc
    <3>. HIDE DEF q
    <3>3. ProcOK(q) /\ p.ino \in Inum /\ p.m = "remove" /\ p.ino # p.tgt
      BY <2>0, <3>1, <3>2, Zenon DEF ProcOK, Editing, Named
    <3>4. Holds(q) = Holds(p) \ {p.ino} /\ p.ino \in Holds(p)
      BY <3>1, <3>2, <3>3, Zenon DEF Holds
    <3>. QED
      BY <3>1, <3>3, <3>4, ReturnsLock, Zenon DEF p, q
  <2>6. CASE getfile(c)
    <3>1. PICK x, y, o : /\ Goto(c, [p EXCEPT !.pc = "release", !.r = x, !.val = y])
                         /\ Asked(o)
      BY <2>6, Zenon DEF getfile, p
    <3>. DEFINE q == [p EXCEPT !.pc = "release", !.r = x, !.val = y]
    <3>2. /\ DOMAIN q = Fields /\ q.pc = "release" /\ q.m = p.m /\ q.req = p.req
          /\ q.tgt = p.tgt /\ q.buf = p.buf /\ q.ino = p.ino
      BY <2>0, MoveProc
    <3>3. p.m = "getattr" /\ p.pc = "locked" /\ UNCHANGED <<owner, known>>
      BY <2>6, Zenon DEF getfile, At, p
    <3>4. cl' = [cl EXCEPT ![c] = q] /\ Calls
      BY <3>1, Zenon DEF Goto, Asked, Calls
    <3>. HIDE DEF q
    <3>5. /\ Holds(q) = Holds(p) /\ ~Editing(q) /\ (Named(q) => Named(p))
          /\ p.ino \in Inum \/ ~Named(p)
      BY <2>0, <3>2, <3>3, Zenon DEF Holds, Editing, Named, ProcOK
    <3>. QED
      BY <3>2, <3>3, <3>4, <3>5, WithinOp, Zenon DEF p
  <2>7. CASE lookup(c)
    <3>1. /\ p.m = "lookup" /\ p.pc = "locked" /\ p.tgt \in Dir
          /\ Search(c, [pc |-> "release", r |-> "OK"], [pc |-> "release", r |-> "NOENT"])
      BY <2>0, <2>7, Zenon DEF lookup, At, p, ProcOK, DirOp
    <3>s. PICK q : Searched(c, [pc |-> "release", r |-> "OK"], [pc |-> "release", r |->
    "NOENT"], q)
      BY <3>1, SearchProc, Zenon DEF p
    <3>2. /\ cl' = [cl EXCEPT ![c] = q] /\ DOMAIN q = Fields
          /\ q.m = p.m /\ q.req = p.req /\ q.tgt = p.tgt
          /\ UNCHANGED <<owner, known>> /\ Calls /\ q.pc = "release"
          /\ \/ q.r \in {"NOENT", "RPCERR"}
             \/ q.buf \in Seq(Line) /\ \E i \in Lines(q.buf) : q.ino = q.buf[i][2]
      BY <3>s, Zenon DEF Searched, Calls, p
    <3>3. /\ Holds(q) = Holds(p) /\ ~Editing(q) /\ (Named(q) => q.ino \in Inum)
      BY <3>1, <3>2, Lines_, SMTT(60) DEF Holds, Editing, Named
    <3>. QED
      BY <3>1, <3>2, <3>3, WithinOp, Zenon DEF p
  <2>8. CASE dir_add_entry(c)
    <3>1. /\ p.m \in {"create", "mkadir"} /\ p.pc = "locked" /\ p.tgt \in Dir
          /\ Search(c, [pc |-> "release", r |-> "EXIST"], [pc |-> "new", r |-> "OK"])
      BY <2>0, <2>8, SMTT(60) DEF dir_add_entry, At, p, ProcOK, DirOp
    <3>s. PICK q : Searched(c, [pc |-> "release", r |-> "EXIST"], [pc |-> "new", r |->
    "OK"], q)
      BY <3>1, SearchProc, Zenon DEF p
    <3>2. /\ cl' = [cl EXCEPT ![c] = q] /\ DOMAIN q = Fields
          /\ q.m = p.m /\ q.req = p.req /\ q.tgt = p.tgt
          /\ UNCHANGED <<owner, known>> /\ Calls
          /\ \/ q.pc = "release" /\ q.r \in {"NOENT", "RPCERR"}
             \/ /\ q.buf \in Seq(Line)
                /\ \/ /\ q.pc = "release"
                      /\ \E i \in Lines(q.buf) : q.ino = q.buf[i][2]
                   \/ q.pc = "new"
      BY <3>s, SMTT(60) DEF Searched, Calls, p
    <3>3. /\ Holds(q) = Holds(p) /\ (Editing(q) => q.buf \in Seq(Line))
          /\ (Named(q) => q.ino \in Inum)
      BY <3>1, <3>2, Lines_, SMTT(60) DEF Holds, Editing, Named
    <3>. QED
      BY <3>1, <3>2, <3>3, WithinOp, Zenon DEF p
  <2>9. CASE dir_add_entry_new(c)
    <3>1. PICK o \in Outcome, i \in new_inum(p.tgt, p.m = "create") :
            /\ Carried(o, PutCall(i, <<>>))
            /\ Goto(c, [p EXCEPT !.pc = "put", !.ino = i])
      BY <2>9, Zenon DEF dir_add_entry_new, p
    <3>. DEFINE q == [p EXCEPT !.pc = "put", !.ino = i]
    <3>2. /\ DOMAIN q = Fields /\ q.pc = "put" /\ q.m = p.m /\ q.req = p.req
          /\ q.tgt = p.tgt /\ q.buf = p.buf /\ q.ino = i
      BY <2>0, MoveProc
    <3>3. /\ p.m \in {"create", "mkadir"} /\ p.pc = "new" /\ i \in Inum
          /\ UNCHANGED <<owner, known>>
      BY <2>9, Zenon DEF dir_add_entry_new, At, p, new_inum, Inum
    <3>4. cl' = [cl EXCEPT ![c] = q]
      BY <3>1, Zenon DEF Goto
    <3>5. Calls
      <4>1. <<>> \in Seq(Line)
        OBVIOUS
      <4>2. UpdateOK(PutCall(i, <<>>))
        BY <3>3, <4>1, UpdateCalls, Zenon
      <4>. QED
        BY <3>1, <4>2, Zenon DEF Calls
    <3>. HIDE DEF q
    <3>6. /\ Holds(q) = Holds(p) /\ (Editing(q) => q.buf \in Seq(Line))
      BY <2>0, <3>2, <3>3, Zenon DEF Holds, Editing, ProcOK
    <3>. QED
      BY <3>2, <3>3, <3>4, <3>5, <3>6, WithinOp, Zenon DEF p
  <2>10. CASE dir_add_entry_put(c)
    <3>. DEFINE b == Append(p.buf, <<p.req.name, p.ino>>)
                q == [p EXCEPT !.pc = "release"]
    <3>1. PICK o : Carried(o, PutCall(p.tgt, b))
      BY <2>10, Zenon DEF dir_add_entry_put, p
    <3>2. /\ DOMAIN q = Fields /\ q.pc = "release" /\ q.m = p.m /\ q.req = p.req
          /\ q.tgt = p.tgt /\ q.buf = p.buf /\ q.ino = p.ino
      BY <2>0, MoveProc
    <3>3. /\ p.m \in {"create", "mkadir"} /\ p.pc = "put" /\ UNCHANGED <<owner, known>>
          /\ cl' = [cl EXCEPT ![c] = q]
      BY <2>10, Zenon DEF dir_add_entry_put, At, p, Goto
    <3>4. b \in Seq(Line) /\ p.tgt \in Inum /\ p.ino \in Inum
      BY <2>0, <3>3 DEF ProcOK, Editing, Named, DirOp, Line
    <3>. HIDE DEF b, q
    <3>5. Calls
      <4>1. UpdateOK(PutCall(p.tgt, b))
        BY <3>4, UpdateCalls, Zenon
      <4>. QED
        BY <3>1, <4>1, Zenon DEF Calls
    <3>6. Holds(q) = Holds(p) /\ ~Editing(q)
      BY <3>2, <3>3, Zenon DEF Holds, Editing
    <3>. QED
      BY <3>2, <3>3, <3>4, <3>5, <3>6, WithinOp, Zenon DEF p
  <2>11. CASE remove_find(c)
    <3>1. /\ p.m = "remove" /\ p.pc = "locked" /\ p.tgt \in Dir
          /\ Search(c, [pc |-> "acquire_ent", r |-> "IOERR"], [pc |-> "release", r |-> "IOERR"])
      BY <2>0, <2>11, SMTT(60) DEF remove_find, At, p, ProcOK, DirOp
    <3>s. PICK q : Searched(c, [pc |-> "acquire_ent", r |-> "IOERR"], [pc |-> "release",
    r |-> "IOERR"], q)
      BY <3>1, SearchProc, Zenon DEF p
    <3>2. /\ cl' = [cl EXCEPT ![c] = q] /\ DOMAIN q = Fields
          /\ q.m = p.m /\ q.req = p.req /\ q.tgt = p.tgt
          /\ UNCHANGED <<owner, known>> /\ Calls
          /\ \/ q.pc = "release"
             \/ /\ q.pc = "acquire_ent" /\ q.buf \in Seq(Line)
                /\ \E i \in Lines(q.buf) : q.ino = q.buf[i][2]
      BY <3>s, Zenon DEF Searched, Calls, p
    <3>3. /\ Holds(q) = Holds(p) /\ (Editing(q) => q.buf \in Seq(Line))
          /\ (Named(q) => q.ino \in Inum)
      BY <3>1, <3>2, Lines_, SMTT(60) DEF Holds, Editing, Named
    <3>. QED
      BY <3>1, <3>2, <3>3, WithinOp, Zenon DEF p
  <2>12. CASE remove_erase(c)
    <3>1. PICK o \in Outcome :
            LET ext == Status(o, Found(p.ino))
            IN /\ Carried(o, RemoveCall(p.ino))
               /\ Goto(c, [p EXCEPT !.pc = IF ext = "OK" THEN "put" ELSE "release_ent",
                                    !.r = stat2yfs("OK", ext)])
      BY <2>12, Zenon DEF remove_erase, p
    <3>. DEFINE ext == Status(o, Found(p.ino))
                x == IF ext = "OK" THEN "put" ELSE "release_ent"
                y == stat2yfs("OK", ext)
                q == [p EXCEPT !.pc = x, !.r = y]
    <3>0. x \in {"put", "release_ent"}
      OBVIOUS
    <3>. HIDE DEF ext, x, y
    <3>2. /\ DOMAIN q = Fields /\ q.pc = x /\ q.m = p.m /\ q.req = p.req
          /\ q.tgt = p.tgt /\ q.buf = p.buf /\ q.ino = p.ino
      BY <2>0, MoveProc
    <3>3. p.m = "remove" /\ p.pc = "erase" /\ UNCHANGED <<owner, known>>
      BY <2>12, Zenon DEF remove_erase, At, p
    <3>4. cl' = [cl EXCEPT ![c] = q] /\ Calls
      <4>1. p.ino \in Inum
        BY <2>0, <3>3, Zenon DEF ProcOK, Named
      <4>2. UpdateOK(RemoveCall(p.ino))
        BY <4>1, UpdateCalls, Zenon
      <4>. QED
        BY <3>1, <4>2, Zenon DEF Goto, Calls, ext, x, y
    <3>. HIDE DEF q
    <3>5. /\ Holds(q) = Holds(p) /\ (Editing(q) => q.buf \in Seq(Line))
          /\ q.ino \in Inum /\ q.ino # q.tgt
      BY <2>0, <3>0, <3>2, <3>3, Zenon DEF Holds, Editing, Named, ProcOK
    <3>. QED
      BY <3>0, <3>2, <3>3, <3>4, <3>5, WithinOp, Zenon DEF p
  <2>13. CASE remove_put(c)
    <3>. DEFINE line == CHOOSE i \in dir_find(p.buf, p.req.name) : TRUE
                b == [p.buf EXCEPT ![line] = <<>>]
                q == [p EXCEPT !.pc = "release_ent"]
    <3>1. PICK o : Carried(o, PutCall(p.tgt, b))
      BY <2>13, Zenon DEF remove_put, p
    <3>2. /\ DOMAIN q = Fields /\ q.pc = "release_ent" /\ q.m = p.m /\ q.req = p.req
          /\ q.tgt = p.tgt /\ q.buf = p.buf /\ q.ino = p.ino
      BY <2>0, MoveProc
    <3>3. /\ p.m = "remove" /\ p.pc = "put" /\ UNCHANGED <<owner, known>>
          /\ cl' = [cl EXCEPT ![c] = q]
      BY <2>13, Zenon DEF remove_put, At, p, Goto
    <3>. HIDE DEF line
    <3>4. b \in Seq(Line) /\ p.tgt \in Inum
      BY <2>0, <3>3, ErasedLine, Zenon DEF ProcOK, Editing
    <3>. HIDE DEF b, q
    <3>5. Calls
      <4>1. UpdateOK(PutCall(p.tgt, b))
        BY <3>4, UpdateCalls, Zenon
      <4>. QED
        BY <3>1, <4>1, Zenon DEF Calls
    <3>6. /\ Holds(q) = Holds(p) /\ ~Editing(q) /\ q.ino \in Inum /\ q.ino # q.tgt
      BY <2>0, <3>2, <3>3, Zenon DEF Holds, Editing, Named, ProcOK
    <3>. QED
      BY <3>2, <3>3, <3>4, <3>5, <3>6, WithinOp, Zenon DEF p
  <2>14. CASE resize_get(c)
    <3>1. PICK o, q, x, z : /\ Asked(o) /\ Goto(c, q)
                      /\ \/ q = [p EXCEPT !.pc = "release", !.r = x]
                         \/ q = [p EXCEPT !.pc = "put", !.buf = z]
      BY <2>14, Zenon DEF resize_get, p
    <3>2. /\ DOMAIN q = Fields /\ q.pc \in {"release", "put"} /\ q.m = p.m
          /\ q.req = p.req /\ q.tgt = p.tgt
      BY <2>0, <3>1, Zenon DEF Fields
    <3>3. p.m = "resize" /\ p.pc = "locked" /\ UNCHANGED <<owner, known>>
      BY <2>14, Zenon DEF resize_get, At, p
    <3>4. cl' = [cl EXCEPT ![c] = q] /\ Calls
      BY <3>1, Zenon DEF Goto, Asked, Calls
    <3>5. Holds(q) = Holds(p) /\ ~Editing(q) /\ ~Named(q)
      BY <3>2, <3>3, Zenon DEF Holds, Editing, Named
    <3>. QED
      BY <3>2, <3>3, <3>4, <3>5, WithinOp, Zenon DEF p
  <2>15. CASE resize_put(c)
    <3>. DEFINE b == Resized(p.buf, p.req.size)
                q == [p EXCEPT !.pc = "release"]
    <3>1. PICK o : Carried(o, PutCall(p.tgt, b))
      BY <2>15, Zenon DEF resize_put, p
    <3>2. /\ DOMAIN q = Fields /\ q.pc = "release" /\ q.m = p.m /\ q.req = p.req
          /\ q.tgt = p.tgt /\ q.buf = p.buf /\ q.ino = p.ino
      BY <2>0, MoveProc
    <3>3. /\ p.m = "resize" /\ p.pc = "put" /\ UNCHANGED <<owner, known>>
          /\ cl' = [cl EXCEPT ![c] = q]
      BY <2>15, Zenon DEF resize_put, At, p, Goto
    <3>4. p.tgt \in Inum /\ p.tgt \notin Dir
      BY <2>0, <3>3, YfsAssumption, Zenon DEF ProcOK
    <3>. HIDE DEF b, q
    <3>5. Calls
      <4>1. UpdateOK(PutCall(p.tgt, b))
        BY <3>4, UpdateCalls, Zenon
      <4>. QED
        BY <3>1, <4>1, Zenon DEF Calls
    <3>6. Holds(q) = Holds(p) /\ ~Editing(q) /\ ~Named(q)
      BY <3>2, <3>3, Zenon DEF Holds, Editing, Named
    <3>. QED
      BY <3>2, <3>3, <3>5, <3>6, WithinOp, ZenonT(60) DEF p
  <2>16. CASE write(c)
    <3>. DEFINE tmp == [i \in 1..p.req.size |-> p.req.byte]
                u == PutbufCall(p.tgt, p.req.off, tmp)
    <3>1. PICK o, y : Carried(o, u) /\ Goto(c, [p EXCEPT !.pc = "release", !.r = y])
      BY <2>16, Zenon DEF write, p
    <3>. DEFINE q == [p EXCEPT !.pc = "release", !.r = y]
    <3>2. /\ DOMAIN q = Fields /\ q.pc = "release" /\ q.m = p.m /\ q.req = p.req
          /\ q.tgt = p.tgt
      BY <2>0, MoveProc
    <3>3. p.m = "write" /\ p.pc = "locked" /\ UNCHANGED <<owner, known>>
      BY <2>16, Zenon DEF write, At, p
    <3>4. p.tgt \in File
      BY <2>0, <3>3, Zenon DEF ProcOK
    <3>. HIDE DEF tmp, q
    <3>5. Calls /\ cl' = [cl EXCEPT ![c] = q]
      <4>1. UpdateOK(u)
        BY <3>4, UpdateCalls, Zenon DEF Inum
      <4>. QED
        BY <3>1, <4>1, Zenon DEF Calls, Goto, q
    <3>6. Holds(q) = Holds(p) /\ ~Editing(q) /\ ~Named(q)
      BY <3>2, <3>3, Zenon DEF Holds, Editing, Named
    <3>. QED
      BY <3>2, <3>3, <3>5, <3>6, WithinOp, Zenon DEF p
  <2>17. CASE read(c)
    <3>1. PICK o, x, y : /\ Asked(o)
                         /\ Goto(c, [p EXCEPT !.pc = "return", !.r = x, !.val = y])
      BY <2>17, Zenon DEF read, p
    <3>. DEFINE q == [p EXCEPT !.pc = "return", !.r = x, !.val = y]
    <3>2. /\ DOMAIN q = Fields /\ q.pc = "return" /\ q.m = p.m /\ q.req = p.req
          /\ q.tgt = p.tgt
      BY <2>0, MoveProc
    <3>3. p.m = "read" /\ p.pc = "locked" /\ UNCHANGED <<owner, known>>
      BY <2>17, Zenon DEF read, At, p
    <3>4. cl' = [cl EXCEPT ![c] = q] /\ Calls
      BY <3>1, Zenon DEF Goto, Asked, Calls
    <3>. HIDE DEF q
    <3>5. Holds(q) = Holds(p) /\ ~Editing(q) /\ ~Named(q)
      BY <3>2, <3>3, Zenon DEF Holds, Editing, Named
    <3>. QED
      BY <3>2, <3>3, <3>4, <3>5, WithinOp, Zenon DEF p
  <2>18. CASE readir(c)
    <3>1. PICK o, x, y : /\ Asked(o)
                         /\ Goto(c, [p EXCEPT !.pc = "return", !.r = x, !.buf = y])
      BY <2>18, Zenon DEF readir, p
    <3>. DEFINE q == [p EXCEPT !.pc = "return", !.r = x, !.buf = y]
    <3>2. /\ DOMAIN q = Fields /\ q.pc = "return" /\ q.m = p.m /\ q.req = p.req
          /\ q.tgt = p.tgt
      BY <2>0, MoveProc
    <3>3. p.m = "readir" /\ p.pc = "locked" /\ UNCHANGED <<owner, known>>
      BY <2>18, Zenon DEF readir, At, p
    <3>4. cl' = [cl EXCEPT ![c] = q] /\ Calls
      BY <3>1, Zenon DEF Goto, Asked, Calls
    <3>. HIDE DEF q
    <3>5. Holds(q) = Holds(p) /\ ~Editing(q) /\ ~Named(q)
      BY <3>2, <3>3, Zenon DEF Holds, Editing, Named
    <3>. QED
      BY <3>2, <3>3, <3>4, <3>5, WithinOp, Zenon DEF p
  <2>. QED
    BY SMTT(60), <1>3, <2>1, <2>2, <2>3, <2>4, <2>5, <2>6, <2>7, <2>8, <2>9, <2>10,
       <2>11, <2>12, <2>13, <2>14, <2>15, <2>16, <2>17, <2>18 DEF Step
<1>4. ASSUME NEW u \in late, LateCall(u) PROVE LockInv'
  <2>1. /\ late' \subseteq late \cup {u} /\ late' \subseteq late
        /\ store_table' = Execute(store_table, u)
        /\ UNCHANGED <<owner, cl, known>>
    BY <1>4, Zenon DEF LateCall
  <2>2. StoreOK(store_table) /\ \A w \in late : UpdateOK(w)
    BY Zenon DEF LockInv
  <2>3. StoreOK(store_table')
    BY <2>1, <2>2, ExecuteEffect, Zenon
  <2>. QED
    BY <2>1, <2>2, <2>3, Zenon DEF LockInv
<1>. QED
  BY <1>1, <1>2, <1>3, <1>4, Zenon DEF Next

(* A process holds exactly the locks its step of an operation says: every  *)
(* way out of an operation, after whatever failed calls, has returned them *)
(* (the acquire and release calls of yfs_client.cc).                       *)
THEOREM LocksAlwaysReturned == Spec => []LocksReturned
<1>1. LockInv => LocksReturned
  BY Zenon DEF LockInv, LocksReturned, Holds
<1>. QED
  BY <1>1, LockInit, LockStep, PTL DEF Spec

-----------------------------------------------------------------------------
(* p adds a name to its directory; p has made the file and is about to.    *)
Adding(p) == p.m \in {"create", "mkadir"} /\ p.pc \in {"new", "put"}
Making(p) == p.m \in {"create", "mkadir"} /\ p.pc = "put"

(* The steps that add no line to a directory and search none leave the     *)
(* process Simple-ly changed, and make at most one call, which changes an  *)
(* extent under its lock and stores no directory.                          *)
Simple(p, q) ==
  /\ q.m = p.m /\ q.req = p.req /\ q.tgt = p.tgt /\ q.ino = p.ino
  /\ Editing(q) => Editing(p) /\ q.buf = p.buf
  /\ Named(q) => Named(p)
  /\ ~Adding(q) /\ q.pc # p.pc /\ p.pc # "idle"

Under(c, dirs) ==
  \/ UNCHANGED <<store_table, late>>
  \/ \E u : Effect(u) /\ u.id \in Holds(cl[c]) /\ (DirPut(u) => dirs)

(* No version of a directory is stored, now or later, by the step.         *)
DirsKept ==
  /\ \A d \in Dir \cap DOMAIN store_table' :
       d \in DOMAIN store_table /\ get(store_table', d) = get(store_table, d)
  /\ \A u \in late' : DirPut(u) => u \in late

LEMMA UnderKeeps ==
  ASSUME NEW c, Under(c, FALSE)
  PROVE DirsKept
<1>1. CASE UNCHANGED <<store_table, late>>
  BY <1>1, Zenon DEF DirsKept
<1>2. ASSUME NEW u, Effect(u), ~DirPut(u) PROVE DirsKept
  BY <1>2, Zenon DEF DirsKept, Effect
<1>. QED
  BY <1>1, <1>2, Zenon DEF Under

(* A call that a process makes with the lock.                              *)
LEMMA CarriedUnder ==
  ASSUME LockInv, NEW c, NEW o, NEW u, Carried(o, u), UpdateOK(u),
         u.id \in Holds(cl[c]), NEW dirs, DirPut(u) => dirs
  PROVE Under(c, dirs)
<1>1. /\ store_table' \in {store_table, Execute(store_table, u)}
      /\ late' \subseteq late \cup {u}
  BY Zenon DEF Carried
<1>2. StoreOK(store_table)
  BY Zenon DEF LockInv
<1>3. Effect(u)
  BY <1>1, <1>2, ExecuteEffect, Zenon
<1>. QED
  BY <1>3, Zenon DEF Under

SimpleStep(c) ==
  \/ acquire(c) \/ release(c) \/ remove_acquire(c) \/ remove_release(c)
  \/ getfile(c) \/ remove_erase(c) \/ resize_get(c) \/ resize_put(c)
  \/ write(c) \/ read(c) \/ readir(c)

LEMMA SimpleEffect ==
  ASSUME LockInv, NEW c \in Client, SimpleStep(c)
  PROVE /\ \E q : cl' = [cl EXCEPT ![c] = q] /\ Simple(cl[c], q)
        /\ UNCHANGED <<known, used>> /\ Under(c, FALSE)
<1>. DEFINE p == cl[c]
            Goal == /\ \E q : cl' = [cl EXCEPT ![c] = q] /\ Simple(p, q)
                    /\ UNCHANGED <<known, used>> /\ Under(c, FALSE)
<1>. SUFFICES Goal
  BY Zenon
<1>0. ProcOK(p) /\ DOMAIN p = Fields
  BY Zenon DEF LockInv, ProcOK
<1>1. ASSUME NEW pc, NEW i, Locked(c, i, pc) \/ Unlocked(c, i, pc),
             p.pc \in {"acquire", "release", "acquire_ent", "release_ent"},
             pc \in {"locked", "return", "erase", "release"}, pc # p.pc,
             pc = "return" => p.pc = "release", pc = "release" => p.pc = "release_ent",
             pc = "erase" => p.pc = "acquire_ent"
      PROVE Goal
  <2>. DEFINE q == [p EXCEPT !.pc = pc]
  <2>1. cl' = [cl EXCEPT ![c] = q] /\ UNCHANGED <<store_table, known, used, late>>
    BY <1>1, Zenon DEF Locked, Unlocked, Goto
  <2>. HIDE DEF p
  <2>2. /\ q.pc = pc /\ q.m = p.m /\ q.req = p.req
        /\ q.tgt = p.tgt /\ q.buf = p.buf /\ q.ino = p.ino /\ q.r = p.r
    BY <1>0, MoveProc, SMTT(60)
  <2>. HIDE DEF q
  <2>3. Simple(p, q)
    BY <1>0, <1>1, <2>2, Zenon DEF Simple, Editing, Named, Adding, ProcOK
  <2>. QED
    BY <2>1, <2>3, Zenon DEF p, Under
<1>. HIDE DEF Goal
<1>2. CASE acquire(c) \/ release(c) \/ remove_acquire(c) \/ remove_release(c)
  <2>1. CASE acquire(c)
    BY <1>1, <2>1, Zenon DEF acquire
  <2>2. CASE release(c)
    BY <1>1, <2>2, Zenon DEF release
  <2>3. CASE remove_acquire(c)
    BY <1>1, <2>3, Zenon DEF remove_acquire
  <2>4. CASE remove_release(c)
    BY <1>1, <2>4, Zenon DEF remove_release
  <2>. QED
    BY <1>2, <2>1, <2>2, <2>3, <2>4, Zenon
<1>3. CASE getfile(c) \/ read(c)
  <2>1. PICK o, pc, x, y : /\ Asked(o) /\ pc \in {"release", "return"}
                           /\ Goto(c, [p EXCEPT !.pc = pc, !.r = x, !.val = y])
    BY <1>3, ZenonT(60) DEF getfile, read
  <2>. DEFINE q == [p EXCEPT !.pc = pc, !.r = x, !.val = y]
  <2>2. /\ p.m \in {"getattr", "read"} /\ p.pc = "locked" /\ UNCHANGED <<known, used>>
    BY <1>3, Zenon DEF getfile, read, At
  <2>3. cl' = [cl EXCEPT ![c] = q] /\ UNCHANGED <<store_table, late>>
    BY <2>1, Zenon DEF Goto, Asked
  <2>. HIDE DEF p
  <2>4. /\ q.pc = pc /\ q.m = p.m /\ q.req = p.req
        /\ q.tgt = p.tgt /\ q.buf = p.buf /\ q.ino = p.ino
    BY <1>0, MoveProc
  <2>. HIDE DEF q
  <2>5. Simple(p, q)
    BY <2>1, <2>2, <2>4, Zenon DEF Simple, Editing, Named, Adding
  <2>. QED
    BY <2>2, <2>3, <2>5, Zenon DEF Goal, p, Under
<1>4. CASE readir(c)
  <2>1. PICK o, x, y : /\ Asked(o)
                       /\ Goto(c, [p EXCEPT !.pc = "return", !.r = x, !.buf = y])
    BY <1>4, Zenon DEF readir
  <2>. DEFINE q == [p EXCEPT !.pc = "return", !.r = x, !.buf = y]
  <2>2. /\ p.m = "readir" /\ p.pc = "locked" /\ UNCHANGED <<known, used>>
    BY <1>4, Zenon DEF readir, At
  <2>3. cl' = [cl EXCEPT ![c] = q] /\ UNCHANGED <<store_table, late>>
    BY <2>1, Zenon DEF Goto, Asked
  <2>. HIDE DEF p
  <2>4. /\ q.pc = "return" /\ q.m = p.m /\ q.req = p.req /\ q.tgt = p.tgt /\ q.ino = p.ino
    BY <1>0, MoveProc
  <2>. HIDE DEF q
  <2>5. Simple(p, q)
    BY <2>2, <2>4, Zenon DEF Simple, Editing, Named, Adding
  <2>. QED
    BY <2>2, <2>3, <2>5, Zenon DEF Goal, p, Under
<1>5. CASE resize_get(c)
  <2>1. PICK o, q, x, z : /\ Asked(o) /\ Goto(c, q)
                          /\ \/ q = [p EXCEPT !.pc = "release", !.r = x]
                             \/ q = [p EXCEPT !.pc = "put", !.buf = z]
    BY <1>5, Zenon DEF resize_get
  <2>2. /\ p.m = "resize" /\ p.pc = "locked" /\ UNCHANGED <<known, used>>
    BY <1>5, Zenon DEF resize_get, At
  <2>3. cl' = [cl EXCEPT ![c] = q] /\ UNCHANGED <<store_table, late>>
    BY <2>1, Zenon DEF Goto, Asked
  <2>. HIDE DEF p
  <2>4. /\ q.pc \in {"release", "put"} /\ q.m = p.m /\ q.req = p.req /\ q.tgt = p.tgt
        /\ q.ino = p.ino
    BY <1>0, <2>1, Zenon DEF Fields
  <2>5. Simple(p, q)
    BY <2>2, <2>4, Zenon DEF Simple, Editing, Named, Adding
  <2>. QED
    BY <2>2, <2>3, <2>5, Zenon DEF Goal, p, Under
<1>6. CASE resize_put(c)
  <2>. DEFINE q == [p EXCEPT !.pc = "release"]
              b == Resized(p.buf, p.req.size)
  <2>1. PICK o : Carried(o, PutCall(p.tgt, b))
    BY <1>6, Zenon DEF resize_put
  <2>2. /\ p.m = "resize" /\ p.pc = "put" /\ UNCHANGED <<known, used>>
        /\ cl' = [cl EXCEPT ![c] = q]
    BY <1>6, Zenon DEF resize_put, At, Goto
  <2>. HIDE DEF p, b
  <2>4. /\ q.pc = "release" /\ q.m = p.m /\ q.req = p.req /\ q.tgt = p.tgt
        /\ q.ino = p.ino
    BY <1>0, MoveProc
  <2>. HIDE DEF q
  <2>5. Simple(p, q)
    BY <2>2, <2>4, SMTT(60) DEF Simple, Editing, Named, Adding
  <2>6. p.tgt \in Inum /\ p.tgt \notin Dir /\ p.tgt \in Holds(p)
    BY <1>0, <2>2, YfsAssumption, Zenon DEF ProcOK, Holds
  <2>7. Under(c, FALSE)
    <3>. DEFINE u == PutCall(p.tgt, b)
    <3>1. UpdateOK(u) /\ u.id = p.tgt
      BY <2>6, UpdateCalls, CallFields, Zenon
    <3>. HIDE DEF u
    <3>2. Carried(o, u) /\ u.id \in Holds(cl[c]) /\ ~DirPut(u)
      BY <2>1, <2>6, <3>1, Zenon DEF DirPut, p, u
    <3>. QED
      BY <3>1, <3>2, CarriedUnder, Zenon
  <2>. QED
    BY <2>2, <2>5, <2>7, Zenon DEF Goal, p
<1>7. CASE write(c)
  <2>. DEFINE tmp == [i \in 1..p.req.size |-> p.req.byte]
              u == PutbufCall(p.tgt, p.req.off, tmp)
  <2>1. PICK o, y : Carried(o, u) /\ Goto(c, [p EXCEPT !.pc = "release", !.r = y])
    BY <1>7, Zenon DEF write
  <2>. DEFINE q == [p EXCEPT !.pc = "release", !.r = y]
  <2>2. /\ p.m = "write" /\ p.pc = "locked" /\ UNCHANGED <<known, used>>
        /\ cl' = [cl EXCEPT ![c] = q]
    BY <1>7, <2>1, Zenon DEF write, At, Goto
  <2>. HIDE DEF p, tmp
  <2>3. p.tgt \in File /\ p.tgt \in Inum /\ p.tgt \in Holds(p) /\ p.tgt \notin Dir
    BY <1>0, <2>2, YfsAssumption, Zenon DEF ProcOK, Holds
  <2>4. UpdateOK(u) /\ u.id = p.tgt
    <3>1. UpdateOK(u)
      BY <2>3, UpdateCalls, Zenon
    <3>2. u.id = p.tgt
      BY Zenon DEF PutbufCall
    <3>. QED
      BY <3>1, <3>2, Zenon
  <2>5. /\ q.pc = "release" /\ q.m = p.m /\ q.req = p.req /\ q.tgt = p.tgt
        /\ q.ino = p.ino
    BY <1>0, MoveProc
  <2>. HIDE DEF q, u
  <2>6. Simple(p, q)
    BY <2>2, <2>5, Zenon DEF Simple, Editing, Named, Adding
  <2>7. u.id \in Holds(cl[c]) /\ ~DirPut(u)
    BY <2>3, <2>4, Zenon DEF DirPut, p
  <2>8. Under(c, FALSE)
    BY <2>1, <2>4, <2>7, CarriedUnder, Zenon
  <2>. QED
    BY <2>2, <2>6, <2>8, Zenon DEF Goal, p
<1>8. CASE remove_erase(c)
  <2>1. PICK o \in Outcome :
          LET ext == Status(o, Found(p.ino))
          IN /\ Carried(o, RemoveCall(p.ino))
             /\ Goto(c, [p EXCEPT !.pc = IF ext = "OK" THEN "put" ELSE "release_ent",
                                  !.r = stat2yfs("OK", ext)])
    BY <1>8, Zenon DEF remove_erase
  <2>. DEFINE ext == Status(o, Found(p.ino))
              x == IF ext = "OK" THEN "put" ELSE "release_ent"
              y == stat2yfs("OK", ext)
              q == [p EXCEPT !.pc = x, !.r = y]
              u == RemoveCall(p.ino)
  <2>2. /\ p.m = "remove" /\ p.pc = "erase" /\ UNCHANGED <<known, used>>
        /\ cl' = [cl EXCEPT ![c] = q] /\ x \in {"put", "release_ent"}
        /\ Carried(o, u)
    BY <1>8, <2>1, Zenon DEF remove_erase, At, Goto
  <2>. HIDE DEF p, x, y
  <2>3. /\ q.pc = x /\ q.m = p.m /\ q.req = p.req /\ q.tgt = p.tgt
        /\ q.buf = p.buf /\ q.ino = p.ino
    BY <1>0, MoveProc, SMTT(60)
  <2>. HIDE DEF q
  <2>4. Simple(p, q) /\ p.ino \in Holds(p) /\ p.ino \in Inum
    BY <1>0, <2>2, <2>3, Zenon DEF Simple, Editing, Named, Adding, Holds, ProcOK
  <2>5. UpdateOK(u) /\ u.id = p.ino /\ u.op = "remove"
    BY <2>4, UpdateCalls, CallFields, Zenon
  <2>. HIDE DEF u
  <2>6. u.id \in Holds(cl[c]) /\ ~DirPut(u)
    BY <2>4, <2>5, Zenon DEF DirPut, p
  <2>7. Under(c, FALSE)
    BY <2>2, <2>5, <2>6, CarriedUnder, Zenon
  <2>. QED
    BY <2>2, <2>4, <2>7, Zenon DEF Goal, p
<1>. QED
  BY <1>2, <1>3, <1>4, <1>5, <1>6, <1>7, <1>8, Zenon DEF SimpleStep, Goal

-----------------------------------------------------------------------------
(* Every version of a directory that may still be stored: the extent       *)
(* server's, the copies of processes that are going to change it, and the  *)
(* ones in calls the server may still carry out.                           *)
Versions ==
  {<<d, get(store_table, d)>> : d \in Dir \cap DOMAIN store_table}
  \cup {<<cl[c].tgt, cl[c].buf>> : c \in {c \in Client : Editing(cl[c])}}
  \cup {<<u.id, u.buf>> : u \in {u \in late : DirPut(u)}}

InumsOf(b) == {b[i][2] : i \in Lines(b)}
Unique(b) ==
  \A i, j \in Lines(b) : i # j => b[i][1] # b[j][1] /\ b[i][2] # b[j][2]

(* No version has a name or an i-number twice; versions of different       *)
(* directories have no i-number in common; an i-number that is about to    *)
(* get its name is in no version, and nobody else's.  All of them have     *)
(* come from new_inum, which gives none out twice unless random() does.    *)
VersionsOK ==
  /\ \A v \in Versions : v[2] \in Seq(Line) /\ Unique(v[2]) /\ InumsOf(v[2]) \subseteq used
  /\ \A v, w \in Versions : v[1] # w[1] => InumsOf(v[2]) \cap InumsOf(w[2]) = {}
  /\ \A c \in Client : Making(cl[c]) =>
       /\ cl[c].ino \in used
       /\ \A v \in Versions : cl[c].ino \notin InumsOf(v[2])
       /\ \A d \in Client : Making(cl[d]) /\ d # c => cl[d].ino # cl[c].ino

ProcFresh(p, u) ==
  /\ Adding(p) => \A i \in Lines(p.buf) : p.buf[i][1] # p.req.name
  /\ Named(p) => p.ino \in u
  /\ p.pc # "idle" => p.tgt \in u \cup {Root}

FreshInv ==
  /\ ~Collide /\ VersionsOK
  /\ \A c \in Client : ProcFresh(cl[c], used) /\ known[c] \subseteq used \cup {Root}

(* If a step adds one version, in which nothing is twice, the rest stays.  *)
LEMMA OneVersion ==
  ASSUME VersionsOK, NEW x, NEW b \in Seq(Line), used \subseteq used',
         Versions' \subseteq Versions \cup {<<x, b>>}, Unique(b),
         InumsOf(b) \subseteq used',
         \A v \in Versions : v[1] # x => InumsOf(v[2]) \cap InumsOf(b) = {},
         \A c \in Client : Making(cl'[c]) =>
           /\ cl'[c].ino \in used' /\ cl'[c].ino \notin InumsOf(b)
           /\ \A v \in Versions : cl'[c].ino \notin InumsOf(v[2])
           /\ \A d \in Client : Making(cl'[d]) /\ d # c => cl'[d].ino # cl'[c].ino
  PROVE VersionsOK'
<1>0. <<x, b>>[1] = x /\ <<x, b>>[2] = b
  OBVIOUS
<1>. DEFINE new == <<x, b>>
<1>1. new[1] = x /\ new[2] = b
  OBVIOUS
<1>. HIDE DEF new
<1>2. \A v \in Versions' : v \in Versions \/ v = new
  BY Zenon DEF new
<1>. DEFINE V == Versions
            W == Versions'
<1>3. \A v \in W : v \in V \/ v = new
  BY <1>2, Zenon
<1>4. /\ \A v \in V : v[2] \in Seq(Line) /\ Unique(v[2]) /\ InumsOf(v[2]) \subseteq used
      /\ \A v, w \in V : v[1] # w[1] => InumsOf(v[2]) \cap InumsOf(w[2]) = {}
      /\ \A v \in V : v[1] # x => InumsOf(v[2]) \cap InumsOf(b) = {}
  BY Zenon DEF VersionsOK
<1>5. \A c \in Client : Making(cl'[c]) =>
           /\ cl'[c].ino \in used' /\ cl'[c].ino \notin InumsOf(b)
           /\ \A v \in V : cl'[c].ino \notin InumsOf(v[2])
           /\ \A d \in Client : Making(cl'[d]) /\ d # c => cl'[d].ino # cl'[c].ino
  OBVIOUS
<1>. HIDE DEF V, W
<1>6. \A v \in W : v[2] \in Seq(Line) /\ Unique(v[2]) /\ InumsOf(v[2]) \subseteq used'
  BY <1>1, <1>3, <1>4, Zenon
<1>7. \A v, w \in W : v[1] # w[1] => InumsOf(v[2]) \cap InumsOf(w[2]) = {}
  BY <1>1, <1>3, <1>4, Zenon
<1>8. \A c \in Client : Making(cl'[c]) => \A v \in W : cl'[c].ino \notin InumsOf(v[2])
  BY <1>1, <1>3, <1>5, SMTT(60)
<1>. QED
  BY <1>5, <1>6, <1>7, <1>8, Zenon DEF VersionsOK, W

(* What becomes of the versions when c moves to q and stores b at most.    *)
LEMMA VersionsStep ==
  ASSUME LockInv, NEW c \in Client, NEW q, cl' = [cl EXCEPT ![c] = q],
         NEW x, NEW b,
         \A d \in Dir \cap DOMAIN store_table' :
           \/ d \in DOMAIN store_table /\ get(store_table', d) = get(store_table, d)
           \/ d = x /\ get(store_table', d) = b,
         \A u \in late' : DirPut(u) => u \in late \/ (u.id = x /\ u.buf = b),
         Editing(q) => <<q.tgt, q.buf>> \in Versions
  PROVE Versions' \subseteq Versions \cup {<<x, b>>}
<1>1. \A d \in Client : cl'[d] = IF d = c THEN q ELSE cl[d]
  BY Zenon DEF LockInv
<1>2. SUFFICES ASSUME NEW v \in Versions' PROVE v \in Versions \cup {<<x, b>>}
  OBVIOUS
<1>3. CASE \E d \in Dir \cap DOMAIN store_table' : v = <<d, get(store_table', d)>>
  BY <1>3, Zenon DEF Versions
<1>4. CASE \E d \in Client : Editing(cl'[d]) /\ v = <<cl'[d].tgt, cl'[d].buf>>
  <2>1. PICK d \in Client : Editing(cl'[d]) /\ v = <<cl'[d].tgt, cl'[d].buf>>
    BY <1>4, Zenon
  <2>2. CASE d = c
    BY <1>1, <2>1, <2>2, SMTT(60)
  <2>3. CASE d # c
    <3>1. cl'[d] = cl[d]
      BY <1>1, <2>3, Zenon
    <3>. QED
      BY <2>1, <3>1, Zenon DEF Versions
  <2>. QED
    BY <2>2, <2>3, Zenon
<1>5. CASE \E u \in late' : DirPut(u) /\ v = <<u.id, u.buf>>
  <2>1. PICK u \in late' : DirPut(u) /\ v = <<u.id, u.buf>>
    BY <1>5, Zenon
  <2>2. CASE u \in late
    BY <2>1, <2>2, Zenon DEF Versions
  <2>3. CASE u.id = x /\ u.buf = b
    BY <2>1, <2>3, Zenon
  <2>. QED
    BY <2>1, <2>2, <2>3, Zenon
<1>. QED
  BY <1>2, <1>3, <1>4, <1>5, Zenon DEF Versions, DirPut

(* A step that makes no i-number and stores no new version.                *)
LEMMA NothingNew ==
  ASSUME LockInv, FreshInv, NEW c \in Client, NEW q, cl' = [cl EXCEPT ![c] = q],
         DirsKept, UNCHANGED used,
         Editing(q) => <<q.tgt, q.buf>> \in Versions,
         ~Making(q), ProcFresh(q, used),
         \A d \in Client : known'[d] \subseteq used \cup {Root}
  PROVE FreshInv'
<1>1. \A d \in Client : cl'[d] = IF d = c THEN q ELSE cl[d]
  BY Zenon DEF LockInv
<1>2. Versions' \subseteq Versions \cup {<<Root, <<>> >>}
  BY VersionsStep, Zenon DEF DirsKept
<1>3. <<>> \in Seq(Line) /\ Unique(<<>>) /\ InumsOf(<<>>) = {}
  BY DEF Unique, InumsOf, Lines
<1>4. VersionsOK'
  <2>1. \A d \in Client : Making(cl'[d]) => d # c /\ Making(cl[d]) /\ cl'[d] = cl[d]
    BY <1>1, SMTT(60)
  <2>2. \A d \in Client : Making(cl'[d]) =>
           /\ cl'[d].ino \in used' /\ cl'[d].ino \notin InumsOf(<<>>)
           /\ \A v \in Versions : cl'[d].ino \notin InumsOf(v[2])
           /\ \A e \in Client : Making(cl'[e]) /\ e # d => cl'[e].ino # cl'[d].ino
    BY <1>3, <2>1 DEF FreshInv, VersionsOK
  <2>3. VersionsOK
    BY Zenon DEF FreshInv
  <2>. QED
    BY <1>2, <1>3, <2>2, <2>3, OneVersion, Zenon
<1>5. \A d \in Client : ProcFresh(cl'[d], used')
  BY <1>1, Zenon DEF FreshInv
<1>. QED
  BY <1>4, <1>5, Zenon DEF FreshInv

(* In a directory without duplicates dir_find misses no name.              *)
LEMMA FindsName ==
  ASSUME NEW b \in Seq(Line), Unique(b), NEW n, dir_find(b, n) = {}
  PROVE \A i \in Lines(b) : b[i][1] # n
<1>. SUFFICES ASSUME NEW i \in Lines(b), b[i][1] = n PROVE FALSE
  OBVIOUS
<1>1. \A j \in Lines(b) : ent_read(b[j]).name = b[j][1]
  BY Lines_, Zenon
<1>2. \A j \in Lines(b) : j < i => b[j][1] # n
  BY DEF Unique, Lines
<1>3. i \in dir_find(b, n)
  BY <1>1, <1>2, Zenon DEF dir_find
<1>. QED
  BY <1>3, Zenon

LEMMA FreshInit == Init /\ ~Collide => FreshInv
<1>. SUFFICES ASSUME Init, ~Collide PROVE FreshInv
  OBVIOUS
<1>1. /\ \A c \in Client : cl[c] = Idle("none") /\ known[c] = {Root}
      /\ used = {}
  BY Zenon DEF Init
<1>2. \A c \in Client : cl[c].pc = "idle" /\ cl[c].m = "none"
  BY <1>1, IdleProc, Zenon
<1>3. \A c \in Client : ~Editing(cl[c]) /\ ~Making(cl[c]) /\ ~Adding(cl[c]) /\ ~Named(cl[c])
  BY <1>2, Zenon DEF Editing, Making, Adding, Named
<1>4. \A v \in Versions : v[2] = <<>>
  <2>1. \A d \in DOMAIN store_table : get(store_table, d) = <<>>
    BY DEF Init, put, get
  <2>. QED
    BY <1>3, <2>1 DEF Versions, Init
<1>5. <<>> \in Seq(Line) /\ Unique(<<>>) /\ InumsOf(<<>>) = {}
  BY DEF Unique, InumsOf, Lines
<1>6. VersionsOK
  BY <1>3, <1>4, <1>5, Zenon DEF VersionsOK
<1>. QED
  BY <1>1, <1>2, <1>3, <1>6, Zenon DEF FreshInv, ProcFresh

(* Reading and searching a directory.                                      *)
LEMMA FreshSearch ==
  ASSUME LockInv, FreshInv, NEW c \in Client, cl[c].pc = "locked",
         lookup(c) \/ dir_add_entry(c) \/ remove_find(c)
  PROVE FreshInv' /\ UNCHANGED <<store_table, late, used>>
<1>. DEFINE p == cl[c]
<1>1. /\ p.tgt \in Dir /\ p.m \in {"lookup", "create", "mkadir", "remove"}
      /\ p.tgt \in used \cup {Root}
  <2>1. p.m \in {"lookup", "create", "mkadir", "remove"}
    BY SMTT(60) DEF lookup, dir_add_entry, remove_find, At
  <2>. QED
    BY <2>1, SMTT(60) DEF LockInv, ProcOK, DirOp, FreshInv, ProcFresh
<1>2. PICK hit, miss : /\ Search(c, hit, miss)
                       /\ \/ /\ p.m = "lookup" /\ hit.pc = "release" /\ miss.pc = "release"
                             /\ miss.r = "NOENT"
                          \/ /\ p.m \in {"create", "mkadir"} /\ hit.pc = "release"
                             /\ miss.pc = "new"
                          \/ /\ p.m = "remove" /\ hit.pc = "acquire_ent"
                             /\ miss.pc = "release"
  <2>1. CASE lookup(c)
    BY <2>1 DEF lookup, At
  <2>2. CASE dir_add_entry(c)
    BY <2>2 DEF dir_add_entry, At
  <2>3. CASE remove_find(c)
    BY <2>3, SMTT(60) DEF remove_find, At
  <2>. QED
    BY <2>1, <2>2, <2>3, Zenon
<1>s. PICK q : Searched(c, hit, miss, q)
  BY <1>1, <1>2, SearchProc, Zenon
<1>3. /\ cl' = [cl EXCEPT ![c] = q] /\ DOMAIN q = Fields
      /\ q.m = p.m /\ q.req = p.req /\ q.tgt = p.tgt
      /\ UNCHANGED <<store_table, owner, known, used, late>>
      /\ \/ q.pc = "release" /\ q.r \in {"NOENT", "RPCERR"}
         \/ /\ p.tgt \in DOMAIN store_table
            /\ q.buf = get(store_table, p.tgt) /\ q.buf \in Seq(Line)
            /\ \/ /\ q.pc = hit.pc /\ q.r = hit.r
                  /\ \E i \in Lines(q.buf) : q.ino = q.buf[i][2]
               \/ /\ q.pc = miss.pc /\ q.r = miss.r
                  /\ dir_find(q.buf, q.req.name) = {}
  BY <1>s, SMTT(60) DEF Searched
<1>. HIDE DEF p
<1>4. p.tgt \in DOMAIN store_table => <<p.tgt, get(store_table, p.tgt)>> \in Versions
  BY <1>1, SMTT(60) DEF Versions
<1>5. q.buf = get(store_table, p.tgt) /\ p.tgt \in DOMAIN store_table =>
        Unique(q.buf) /\ InumsOf(q.buf) \subseteq used
  BY <1>4, SMTT(60) DEF FreshInv, VersionsOK
<1>6. ~Making(q) /\ (Editing(q) => <<q.tgt, q.buf>> \in Versions)
  BY <1>1, <1>2, <1>3, <1>4, SMTT(60) DEF Making, Editing
<1>7. ProcFresh(q, used)
  <2>1. Adding(q) => \A i \in Lines(q.buf) : q.buf[i][1] # q.req.name
    BY <1>1, <1>2, <1>3, <1>5, FindsName, SMTT(60) DEF Adding
  <2>2. Named(q) => q.ino \in used
    <3>1. Named(q) => \E i \in Lines(q.buf) : q.ino = q.buf[i][2]
      BY <1>1, <1>2, <1>3, SMTT(60) DEF Named
    <3>2. Named(q) => p.tgt \in DOMAIN store_table /\ q.buf = get(store_table, p.tgt)
      BY <1>1, <1>2, <1>3, SMTT(60) DEF Named
    <3>. QED
      BY <1>5, <3>1, <3>2, Zenon DEF InumsOf
  <2>3. q.tgt = p.tgt
    BY <1>3, Zenon
  <2>4. q.tgt \in used \cup {Root}
    BY <1>1, <2>3, SMTT(60)
  <2>. QED
    BY <2>1, <2>2, <2>4, Zenon DEF ProcFresh
<1>8. DirsKept /\ \A d \in Client : known'[d] \subseteq used \cup {Root}
  BY <1>3, SMTT(60) DEF DirsKept, FreshInv
<1>. QED
  BY <1>3, <1>6, <1>7, <1>8, NothingNew, ZenonT(60)

(* The line at the end of a directory, and a line taken out of one.        *)
LEMMA AppendedLine ==
  ASSUME NEW b \in Seq(Line), Unique(b), NEW n \in Name, NEW i \in Inum,
         i \notin InumsOf(b), \A j \in Lines(b) : b[j][1] # n
  PROVE LET e == Append(b, <<n, i>>)
        IN e \in Seq(Line) /\ Unique(e) /\ InumsOf(e) \subseteq InumsOf(b) \cup {i}
<1>. DEFINE e == Append(b, <<n, i>>)
<1>1. <<n, i>> \in Line
  BY Zenon DEF Line
<1>2. /\ e \in Seq(Line) /\ Len(e) = Len(b) + 1 /\ Len(b) \in Nat
      /\ \A j \in 1..Len(b) : e[j] = b[j]
      /\ e[Len(b) + 1] = <<n, i>>
  BY <1>1
<1>. HIDE DEF e
<1>3. \A j \in Lines(e) : \/ j \in Lines(b) /\ e[j] = b[j]
                          \/ j = Len(b) + 1 /\ e[j][1] = n /\ e[j][2] = i
  BY <1>2 DEF Lines
<1>4. Unique(e)
  BY <1>3 DEF Unique, InumsOf
<1>5. InumsOf(e) \subseteq InumsOf(b) \cup {i}
  BY <1>3, Zenon DEF InumsOf
<1>. QED
  BY <1>2, <1>4, <1>5, Zenon DEF e

LEMMA TakenLine ==
  ASSUME NEW b \in Seq(Line), Unique(b), NEW k
  PROVE LET e == [b EXCEPT ![k] = <<>>]
        IN e \in Seq(Line) /\ Unique(e) /\ InumsOf(e) \subseteq InumsOf(b)
<1>. DEFINE e == [b EXCEPT ![k] = <<>>]
<1>1. e \in Seq(Line) /\ Len(e) = Len(b)
  BY ErasedLine, Zenon
<1>2. \A j \in 1..Len(b) : e[j] = <<>> \/ e[j] = b[j]
  OBVIOUS
<1>. HIDE DEF e
<1>3. \A j \in Lines(e) : j \in Lines(b) /\ e[j] = b[j]
  BY <1>1, <1>2 DEF Lines
<1>4. Unique(e) /\ InumsOf(e) \subseteq InumsOf(b)
  BY <1>3 DEF Unique, InumsOf
<1>. QED
  BY <1>1, <1>4, Zenon DEF e

(* A new i-number.                                                         *)
LEMMA FreshNew ==
  ASSUME LockInv, FreshInv, NEW c \in Client, dir_add_entry_new(c)
  PROVE /\ FreshInv'
        /\ \E u : /\ Effect(u) /\ u.id \notin used \cup {Root}
                  /\ used' = used \cup {u.id} /\ UNCHANGED owner
<1>. DEFINE p == cl[c]
<1>0. ProcOK(p) /\ DOMAIN p = Fields /\ ProcFresh(p, used)
  BY ZenonT(60) DEF LockInv, ProcOK, FreshInv
<1>1. PICK o \in Outcome, i \in new_inum(p.tgt, p.m = "create") :
        /\ Carried(o, PutCall(i, <<>>)) /\ used' = used \cup {i}
        /\ Goto(c, [p EXCEPT !.pc = "put", !.ino = i])
  BY Zenon DEF dir_add_entry_new
<1>. DEFINE q == [p EXCEPT !.pc = "put", !.ino = i]
<1>2. /\ p.m \in {"create", "mkadir"} /\ p.pc = "new" /\ UNCHANGED <<owner, known>>
      /\ cl' = [cl EXCEPT ![c] = q]
  BY <1>1, Zenon DEF dir_add_entry_new, At, Goto
<1>3. i \in Inum /\ i \notin used /\ i # Root
  BY <1>1, YfsAssumption, Zenon DEF new_inum, FreshInv, Inum
<1>4. \A d \in Client : cl'[d] = IF d = c THEN q ELSE cl[d]
  BY <1>2, Zenon DEF LockInv
<1>5. /\ q.pc = "put" /\ q.m = p.m /\ q.req = p.req /\ q.tgt = p.tgt
      /\ q.buf = p.buf /\ q.ino = i
  <2>. HIDE DEF p
  <2>. QED
    BY <1>0, MoveProc
<1>6. <<p.tgt, p.buf>> \in Versions
  BY <1>2, Zenon DEF Versions, Editing
<1>. HIDE DEF p, q
<1>. DEFINE u == PutCall(i, <<>>)
<1>7. Effect(u) /\ u.id = i /\ u.buf = <<>>
  <2>1. <<>> \in Seq(Line)
    OBVIOUS
  <2>2. UpdateOK(u)
    BY <1>3, <2>1, UpdateCalls, Zenon
  <2>3. u.id = i /\ u.buf = <<>>
    BY Zenon DEF PutCall
  <2>4. /\ store_table' \in {store_table, Execute(store_table, u)}
        /\ late' \subseteq late \cup {u} /\ StoreOK(store_table)
    BY <1>1, Zenon DEF Carried, LockInv
  <2>. QED
    BY <2>2, <2>3, <2>4, ExecuteEffect, Zenon
<1>. HIDE DEF u
<1>7a. /\ \A d \in Dir \cap DOMAIN store_table' :
            \/ d \in DOMAIN store_table /\ get(store_table', d) = get(store_table, d)
            \/ d = i /\ get(store_table', d) = <<>>
       /\ \A w \in late' : DirPut(w) => w \in late \/ (w.id = i /\ w.buf = <<>>)
  BY <1>7, Zenon DEF Effect
<1>8. Versions' \subseteq Versions \cup {<<i, <<>> >>}
  BY <1>2, <1>5, <1>6, <1>7a, VersionsStep, Zenon
<1>9. <<>> \in Seq(Line) /\ Unique(<<>>) /\ InumsOf(<<>>) = {}
  BY DEF Unique, InumsOf, Lines
<1>10. VersionsOK
  BY Zenon DEF FreshInv
<1>11. \A d \in Client : Making(cl'[d]) =>
         /\ cl'[d].ino \in used' /\ cl'[d].ino \notin InumsOf(<<>>)
         /\ \A v \in Versions : cl'[d].ino \notin InumsOf(v[2])
         /\ \A e \in Client : Making(cl'[e]) /\ e # d => cl'[e].ino # cl'[d].ino
  <2>1. \A v \in Versions : i \notin InumsOf(v[2])
    BY <1>3, <1>10, Zenon DEF VersionsOK
  <2>2. \A d \in Client : Making(cl[d]) => cl[d].ino # i
    BY <1>3, <1>10, Zenon DEF VersionsOK
  <2>. QED
    BY <1>1, <1>4, <1>5, <1>9, <1>10, <2>1, <2>2, SMTT(60) DEF VersionsOK
<1>12. VersionsOK'
  BY <1>1, <1>8, <1>9, <1>10, <1>11, OneVersion, Zenon
<1>13. ProcFresh(q, used')
  <2>1. Adding(p)
    BY <1>2, SMTT(60) DEF Adding
  <2>. QED
    BY <1>0, <1>1, <1>2, <1>5, <2>1, Zenon DEF ProcFresh
<1>14. \A d \in Client : ProcFresh(cl'[d], used')
  <2>1. \A d \in Client : ProcFresh(cl[d], used) => ProcFresh(cl[d], used')
    BY <1>1, Zenon DEF ProcFresh
  <2>. QED
    BY <1>4, <1>13, <2>1, Zenon DEF FreshInv
<1>15. \A d \in Client : known'[d] \subseteq used' \cup {Root}
  BY <1>1, <1>2, Zenon DEF FreshInv
<1>17. FreshInv'
  BY <1>12, <1>14, <1>15, SMTT(60) DEF FreshInv
<1>. QED
  BY <1>1, <1>2, <1>3, <1>7, <1>17, Zenon

(* The directory is stored with a line more, or a line less.               *)
LEMMA FreshStore ==
  ASSUME LockInv, FreshInv, NEW c \in Client, dir_add_entry_put(c) \/ remove_put(c)
  PROVE /\ FreshInv'
        /\ Under(c, TRUE) /\ UNCHANGED used /\ cl'[c] # cl[c]
<1>. DEFINE p == cl[c]
<1>0. ProcOK(p) /\ DOMAIN p = Fields /\ ProcFresh(p, used) /\ VersionsOK
  BY Zenon DEF LockInv, ProcOK, FreshInv
<1>1. Editing(p) /\ p.m \in {"create", "mkadir", "remove"} /\ p.pc = "put"
  BY SMTT(60) DEF dir_add_entry_put, remove_put, At, Editing
<1>2. <<p.tgt, p.buf>> \in Versions
  BY <1>1, SMTT(60) DEF Versions
<1>3. /\ p.buf \in Seq(Line) /\ Unique(p.buf) /\ InumsOf(p.buf) \subseteq used
      /\ p.tgt \in Dir /\ p.ino \in Inum /\ p.req.name \in Name
      /\ \A v \in Versions : v[1] # p.tgt => InumsOf(v[2]) \cap InumsOf(p.buf) = {}
  <2>1. Named(p)
    BY <1>1, Zenon DEF Named
  <2>. QED
    BY <1>0, <1>1, <1>2, <2>1, ZenonT(60) DEF VersionsOK, ProcOK, DirOp
<1>4. PICK b, o, x :
        /\ x \in {"release", "release_ent"} /\ Carried(o, PutCall(p.tgt, b))
        /\ Goto(c, [p EXCEPT !.pc = x]) /\ UNCHANGED <<known, used>>
        /\ b \in Seq(Line) /\ Unique(b)
        /\ InumsOf(b) \subseteq InumsOf(p.buf) \cup (IF Making(p) THEN {p.ino} ELSE {})
  <2>1. CASE dir_add_entry_put(c)
    <3>. DEFINE b == Append(p.buf, <<p.req.name, p.ino>>)
    <3>1. PICK o : Carried(o, PutCall(p.tgt, b))
      BY <2>1, Zenon DEF dir_add_entry_put
    <3>2. Goto(c, [p EXCEPT !.pc = "release"]) /\ UNCHANGED <<known, used>>
      BY <2>1, Zenon DEF dir_add_entry_put
    <3>3. Making(p) /\ Adding(p)
      BY <2>1, SMTT(60) DEF dir_add_entry_put, At, Making, Adding
    <3>4. p.ino \notin InumsOf(p.buf) /\ \A j \in Lines(p.buf) : p.buf[j][1] # p.req.name
      BY <1>0, <1>2, <3>3, ZenonT(60) DEF VersionsOK, ProcFresh
    <3>. HIDE DEF p
    <3>5. b \in Seq(Line) /\ Unique(b) /\ InumsOf(b) \subseteq InumsOf(p.buf) \cup {p.ino}
      BY <1>3, <3>4, AppendedLine
    <3>. HIDE DEF b
    <3>6. InumsOf(b) \subseteq InumsOf(p.buf) \cup (IF Making(p) THEN {p.ino} ELSE {})
      BY <3>3, <3>5, Zenon
    <3>. QED
      BY <3>1, <3>2, <3>5, <3>6, Zenon
  <2>2. CASE remove_put(c)
    <3>. DEFINE line == CHOOSE i \in dir_find(p.buf, p.req.name) : TRUE
                b == [p.buf EXCEPT ![line] = <<>>]
    <3>1. PICK o : Carried(o, PutCall(p.tgt, b))
      BY <2>2, Zenon DEF remove_put
    <3>2. Goto(c, [p EXCEPT !.pc = "release_ent"]) /\ UNCHANGED <<known, used>>
      BY <2>2, Zenon DEF remove_put
    <3>. HIDE DEF p, line
    <3>3. b \in Seq(Line) /\ Unique(b) /\ InumsOf(b) \subseteq InumsOf(p.buf)
      BY <1>3, TakenLine, ZenonT(60)
    <3>. HIDE DEF b
    <3>4. InumsOf(b) \subseteq InumsOf(p.buf) \cup (IF Making(p) THEN {p.ino} ELSE {})
      BY <3>3, Zenon
    <3>. QED
      BY <3>1, <3>2, <3>3, <3>4, Zenon
  <2>. QED
    BY <2>1, <2>2, Zenon
<1>. DEFINE q == [p EXCEPT !.pc = x]
<1>5. cl' = [cl EXCEPT ![c] = q]
  BY <1>4, Zenon DEF Goto
<1>6. \A d \in Client : cl'[d] = IF d = c THEN q ELSE cl[d]
  BY <1>5, Zenon DEF LockInv
<1>7. /\ q.pc = x /\ q.m = p.m /\ q.req = p.req /\ q.tgt = p.tgt
      /\ q.buf = p.buf /\ q.ino = p.ino /\ q.r = p.r
  <2>. HIDE DEF p
  <2>. QED
    BY <1>0, MoveProc
<1>8. /\ Making(p) => p.ino \in used
      /\ Making(p) => \A v \in Versions : p.ino \notin InumsOf(v[2])
      /\ Making(p) => \A d \in Client : Making(cl[d]) /\ d # c => cl[d].ino # p.ino
  BY <1>0, Zenon DEF VersionsOK
<1>. HIDE DEF p, q
<1>9. ~Editing(q) /\ ~Making(q) /\ ~Adding(q) /\ (Named(q) => Named(p))
  BY <1>1, <1>4, <1>7, SMTT(60) DEF Editing, Making, Adding, Named
<1>. DEFINE u == PutCall(p.tgt, b)
<1>u. UpdateOK(u) /\ u.id = p.tgt /\ u.buf = b /\ Carried(o, u)
  <2>1. p.tgt \in Inum
    BY <1>3, Zenon DEF Inum
  <2>2. UpdateOK(u)
    BY <1>4, <2>1, UpdateCalls, Zenon
  <2>3. u.id = p.tgt /\ u.buf = b
    BY Zenon DEF PutCall
  <2>. QED
    BY <1>4, <2>2, <2>3, Zenon
<1>. HIDE DEF u
<1>10. /\ \A d \in Dir \cap DOMAIN store_table' :
            \/ d \in DOMAIN store_table /\ get(store_table', d) = get(store_table, d)
            \/ d = p.tgt /\ get(store_table', d) = b
       /\ \A w \in late' : DirPut(w) => w \in late \/ (w.id = p.tgt /\ w.buf = b)
  <2>1. /\ store_table' \in {store_table, Execute(store_table, u)}
        /\ late' \subseteq late \cup {u} /\ StoreOK(store_table)
    BY <1>u, Zenon DEF Carried, LockInv
  <2>2. Effect(u)
    BY <1>u, <2>1, ExecuteEffect, Zenon
  <2>. QED
    BY <1>u, <2>2, Zenon DEF Effect
<1>11. Versions' \subseteq Versions \cup {<<p.tgt, b>>}
  BY <1>5, <1>9, <1>10, VersionsStep, ZenonT(60)
<1>12. /\ InumsOf(b) \subseteq used'
       /\ \A v \in Versions : v[1] # p.tgt => InumsOf(v[2]) \cap InumsOf(b) = {}
  BY <1>3, <1>4, <1>8, Zenon
<1>13. \A d \in Client : Making(cl'[d]) =>
         /\ cl'[d].ino \in used' /\ cl'[d].ino \notin InumsOf(b)
         /\ \A v \in Versions : cl'[d].ino \notin InumsOf(v[2])
         /\ \A e \in Client : Making(cl'[e]) /\ e # d => cl'[e].ino # cl'[d].ino
  <2>1. \A d \in Client : Making(cl'[d]) => d # c /\ Making(cl[d]) /\ cl'[d] = cl[d]
    BY <1>6, <1>9, Zenon
  <2>2. \A d \in Client : Making(cl[d]) /\ d # c => cl[d].ino \notin InumsOf(b)
    <3>1. \A d \in Client : Making(cl[d]) => cl[d].ino \notin InumsOf(p.buf)
      BY <1>0, <1>2, Zenon DEF VersionsOK
    <3>. QED
      BY <1>4, <1>8, <3>1, SMTT(60)
  <2>. QED
    BY <1>0, <1>4, <2>1, <2>2, Zenon DEF VersionsOK
<1>14. VersionsOK'
  BY <1>0, <1>4, <1>11, <1>12, <1>13, OneVersion, SMTT(60)
<1>15. ProcFresh(q, used) /\ q # p
  BY <1>0, <1>1, <1>4, <1>7, <1>9, Zenon DEF ProcFresh
<1>16. FreshInv'
  BY <1>4, <1>6, <1>14, <1>15, SMTT(60) DEF FreshInv
<1>17. Under(c, TRUE)
  <2>1. p.tgt \in Holds(p)
    BY <1>0, <1>1, Zenon DEF Holds, ProcOK
  <2>2. u.id \in Holds(cl[c])
    BY <1>u, <2>1, Zenon DEF p
  <2>. QED
    BY <1>u, <2>2, CarriedUnder, Zenon
<1>18. cl'[c] # cl[c]
  BY <1>6, <1>15, Zenon DEF p
<1>. QED
  BY <1>4, <1>16, <1>17, <1>18, Zenon

(* What a step does to the extents: nothing; or it changes one whose lock  *)
(* the process holds; or it makes one; or it carries out a late call.      *)
Changes ==
  \/ UNCHANGED <<store_table, late, used>>
  \/ \E c \in Client : Under(c, TRUE) /\ UNCHANGED used /\ cl'[c] # cl[c]
  \/ \E u : /\ Effect(u) /\ u.id \notin used \cup {Root}
            /\ used' = used \cup {u.id}
  \/ \E u \in late : LateCall(u)

LEMMA FreshStep ==
  LockInv /\ FreshInv /\ [Next]_vars => FreshInv' /\ Changes
<1>. SUFFICES ASSUME LockInv, FreshInv, [Next]_vars PROVE FreshInv' /\ Changes
  OBVIOUS
<1>0. UNCHANGED <<store_table, late, used>> => Changes /\ DirsKept
  BY Zenon DEF Changes, DirsKept
<1>1. CASE UNCHANGED vars
  <2>1. Versions' = Versions
    BY <1>1, SMTT(60) DEF vars, Versions
  <2>2. VersionsOK'
    BY <1>1, <2>1, Zenon DEF vars, VersionsOK, FreshInv
  <2>. QED
    BY <1>0, <1>1, <2>2, Zenon DEF FreshInv, vars
<1>2. ASSUME NEW c \in Client, request(c) PROVE FreshInv' /\ Changes
  <2>1. PICK r \in Request : r.ino \in known[c] /\ Goto(c, Enter(r))
    BY <1>2, Zenon DEF request
  <2>. DEFINE q == Enter(r)
  <2>2. /\ cl' = [cl EXCEPT ![c] = q]
        /\ UNCHANGED <<store_table, known, used, late>>
    BY <1>2, <2>1, Zenon DEF request, Goto
  <2>3. /\ \/ q.pc = "idle"
           \/ q.tgt = r.ino /\ q.pc \in {"acquire", "locked"} /\ ~Editing(q) /\ ~Named(q)
    BY <2>1, EnterProc, Zenon
  <2>4. q.pc = "idle" => ~Editing(q) /\ ~Named(q)
    <3>1. ASSUME q.pc = "idle" PROVE q.m = "none"
      <4>1. CASE \E reply : q = Idle(reply)
        BY <4>1, IdleProc, Zenon
      <4>2. CASE q = Begin([Idle("none") EXCEPT !.req = r], First[r.op], r.ino)
        <5>1. DOMAIN [Idle("none") EXCEPT !.req = r] = Fields
          BY Zenon DEF Idle, Fields
        <5>. QED
          BY <3>1, <4>2, <5>1, BeginProc
      <4>. QED
        BY <4>1, <4>2, Zenon DEF Enter
    <3>. QED
      BY <3>1, Zenon DEF Editing, Named
  <2>. HIDE DEF q
  <2>5. ~Making(q) /\ ~Adding(q) /\ ~Editing(q) /\ ~Named(q)
    BY <2>3, <2>4, SMTT(60) DEF Making, Adding, Editing
  <2>6. ProcFresh(q, used)
    BY <2>1, <2>3, <2>5, Zenon DEF ProcFresh, FreshInv
  <2>7. DirsKept /\ \A d \in Client : known'[d] \subseteq used \cup {Root}
    BY <1>0, <2>2, SMTT(60) DEF FreshInv
  <2>8. FreshInv'
    BY <2>2, <2>5, <2>6, <2>7, NothingNew, ZenonT(60)
  <2>. QED
    BY <1>0, <2>2, <2>8, Zenon
<1>3. ASSUME NEW c \in Client, handle(c) PROVE FreshInv' /\ Changes
  <2>. DEFINE p == cl[c]
  <2>0. ProcOK(p) /\ ProcFresh(p, used) /\ known[c] \subseteq used \cup {Root}
    BY Zenon DEF LockInv, FreshInv
  <2>1. p.pc = "return" /\ UNCHANGED <<store_table, used, late>> /\ DirsKept
    BY <1>0, <1>3, SMTT(60) DEF handle
  <2>2. CASE \E f \in Follow(p) : Goto(c, Begin(p, f[1], f[2])) /\ UNCHANGED known
    <3>1. PICK f \in Follow(p) : Goto(c, Begin(p, f[1], f[2])) /\ UNCHANGED known
      BY <2>2, Zenon
    <3>. DEFINE q == Begin(p, f[1], f[2])
    <3>2. cl' = [cl EXCEPT ![c] = q] /\ UNCHANGED known
      BY <3>1, Zenon DEF Goto
    <3>. HIDE DEF p
    <3>3. /\ q.m \in {"getattr", "read"} /\ ~Editing(q)
          /\ q.tgt \in {p.ino, p.tgt} /\ q.ino = p.ino
          /\ q.tgt # p.tgt \/ Named(q) => Named(p)
      BY <2>0, <2>1, FollowProc, ZenonT(60)
    <3>. HIDE DEF q
    <3>4. ~Making(q) /\ ProcFresh(q, used)
      BY <2>0, <2>1, <3>3, ZenonT(60) DEF Making, ProcFresh, Adding
    <3>5. \A d \in Client : known'[d] \subseteq used \cup {Root}
      BY <3>2, ZenonT(60) DEF FreshInv
    <3>. QED
      BY <1>0, <2>1, <3>2, <3>3, <3>4, <3>5, NothingNew, Zenon
  <2>3. CASE /\ Follow(p) = {} /\ Goto(c, Idle(Reply(p)))
             /\ known' = [known EXCEPT ![c] = @ \cup
                  IF Reply(p) = "OK" /\ p.req.op \in {"create", "lookup", "mkdir"}
                    THEN {p.ino} ELSE {}]
    <3>. DEFINE q == Idle(Reply(p))
    <3>1. cl' = [cl EXCEPT ![c] = q]
      BY <2>3, Zenon DEF Goto
    <3>. HIDE DEF p
    <3>2. q.pc = "idle" /\ q.m = "none"
      BY IdleProc, Zenon
    <3>. HIDE DEF q
    <3>3. ~Making(q) /\ ~Editing(q) /\ ProcFresh(q, used)
      BY <3>2, Zenon DEF Making, Editing, ProcFresh, Adding, Named
    <3>4. Reply(p) = "OK" /\ p.req.op \in {"create", "lookup", "mkdir"} => Named(p)
      <4>1. p.req.op \in {"create", "lookup", "mkdir"} =>
              p.m \in {"create", "lookup", "mkadir", "getattr", "read"}
        BY <2>0, <2>1, SMTT(60) DEF ProcOK, First
      <4>2. p.m = "read" => p.req.op = "read"
        BY <2>0, <2>1, SMTT(60) DEF ProcOK
      <4>. QED
        BY <2>1, <2>3, <4>1, <4>2, SMTT(60) DEF Reply, Follow, Named
    <3>5. \A d \in Client : known'[d] \subseteq used \cup {Root}
      BY <2>0, <2>3, <3>4, ZenonT(60) DEF FreshInv, ProcFresh, LockInv
    <3>. QED
      BY <1>0, <2>1, <3>1, <3>3, <3>5, NothingNew, Zenon
  <2>. QED
    BY <1>3, <2>2, <2>3, Zenon DEF handle
<1>4. ASSUME NEW c \in Client, SimpleStep(c) PROVE FreshInv' /\ Changes
  <2>. DEFINE p == cl[c]
  <2>1. PICK q : cl' = [cl EXCEPT ![c] = q] /\ Simple(p, q)
    BY <1>4, SimpleEffect, Zenon
  <2>2. UNCHANGED <<known, used>> /\ Under(c, FALSE) /\ DirsKept
    BY <1>4, SimpleEffect, UnderKeeps, Zenon
  <2>3. ~Making(q) /\ (Editing(q) => <<q.tgt, q.buf>> \in Versions)
    BY <2>1, SMTT(60) DEF Simple, Making, Adding, Versions
  <2>4. ProcFresh(q, used)
    BY <2>1, Zenon DEF Simple, ProcFresh, FreshInv
  <2>5. \A d \in Client : known'[d] \subseteq used \cup {Root}
    BY <2>2, SMTT(60) DEF FreshInv
  <2>6. FreshInv'
    BY <2>1, <2>2, <2>3, <2>4, <2>5, NothingNew, ZenonT(60)
  <2>7. cl'[c] # cl[c]
    BY <2>1, Zenon DEF Simple, LockInv
  <2>8. Under(c, TRUE)
    BY <2>2, Zenon DEF Under
  <2>. QED
    BY <2>2, <2>6, <2>7, <2>8, Zenon DEF Changes
<1>5. ASSUME NEW c \in Client, lookup(c) \/ dir_add_entry(c) \/ remove_find(c)
      PROVE FreshInv' /\ Changes
  <2>1. cl[c].pc = "locked"
    BY <1>5, SMTT(60) DEF lookup, dir_add_entry, remove_find, At
  <2>. QED
    BY <1>0, <1>5, <2>1, FreshSearch, SMTT(60)
<1>6. ASSUME NEW c \in Client, dir_add_entry_new(c) PROVE FreshInv' /\ Changes
  BY <1>6, FreshNew, Zenon DEF Changes
<1>7. ASSUME NEW c \in Client, dir_add_entry_put(c) \/ remove_put(c)
      PROVE FreshInv' /\ Changes
  BY <1>7, FreshStore, Zenon DEF Changes
<1>8. ASSUME NEW u \in late, LateCall(u) PROVE FreshInv' /\ Changes
  <2>0. /\ store_table' = Execute(store_table, u) /\ late' \subseteq late
        /\ UNCHANGED <<cl, known, used>>
    BY <1>8, Zenon DEF LateCall
  <2>1. UpdateOK(u) /\ StoreOK(store_table)
    BY Zenon DEF LockInv
  <2>2. Effect(u)
    BY <2>0, <2>1, ExecuteEffect, Zenon
  <2>3. \A d \in Dir \cap DOMAIN store_table' : <<d, get(store_table', d)>> \in Versions
    BY <2>2, Zenon DEF Effect, Versions
  <2>4. Versions' \subseteq Versions
    BY <2>0, <2>3, Zenon DEF Versions, DirPut
  <2>5. VersionsOK'
    <3>1. VersionsOK
      BY Zenon DEF FreshInv
    <3>. QED
      BY <2>0, <2>4, <3>1, Zenon DEF VersionsOK
  <2>6. FreshInv'
    BY <2>0, <2>5, Zenon DEF FreshInv
  <2>. QED
    BY <1>8, <2>6, Zenon DEF Changes
<1>. QED
  BY <1>1, <1>2, <1>3, <1>4, <1>5, <1>6, <1>7, <1>8 DEF Next, Step, SimpleStep

(* The locks a process holds are of i-numbers that have been made.         *)
LEMMA HoldsUsed ==
  ASSUME FreshInv, NEW c \in Client, NEW i \in Holds(cl[c])
  PROVE i \in used \cup {Root}
<1>. DEFINE p == cl[c]
<1>0. i \in Holds(p)
  OBVIOUS
<1>. HIDE DEF p
<1>1. p.pc # "idle"
  BY <1>0, Zenon DEF Holds
<1>2. CASE i = p.tgt
  BY <1>1, <1>2, SMTT(60) DEF FreshInv, ProcFresh, p
<1>3. CASE i # p.tgt
  <2>1. i = p.ino /\ p.m = "remove" /\ p.pc \in {"erase", "put", "release_ent"}
    BY <1>0, <1>3, Zenon DEF Holds
  <2>2. Named(p)
    BY <2>1, SMTT(60) DEF Named
  <2>. QED
    BY <2>1, <2>2, Zenon DEF FreshInv, ProcFresh, p
<1>. QED
  BY <1>2, <1>3, Zenon

(* The extent server has no extent, and will have none from a late call,   *)
(* whose i-number new_inum has not given out.                              *)
UsedInv ==
  /\ DOMAIN store_table \subseteq used \cup {Root}
  /\ \A u \in late : u.id \in used \cup {Root}

OwnerChange ==
  \A i \in Inum : Extent(i)' # Extent(i) =>
    \/ owner[i] # None /\ cl'[owner[i]] # cl[owner[i]]
    \/ ~Stored(store_table, i) /\ i \in used' \ used
    \/ \E u \in late \ late' : u.id = i

LEMMA UsedStep ==
  ASSUME LockInv, FreshInv, UsedInv, Changes
  PROVE UsedInv' /\ OwnerChange
<1>1. CASE UNCHANGED <<store_table, late, used>>
  <2>1. \A i \in Inum : Extent(i)' = Extent(i)
    BY <1>1, Zenon DEF Extent
  <2>2. UsedInv'
    BY <1>1, Zenon DEF UsedInv
  <2>. QED
    BY <2>1, <2>2, Zenon DEF OwnerChange
<1>2. ASSUME NEW u, Effect(u), used \subseteq used', u.id \in used' \cup {Root}
      PROVE UsedInv'
  <2>1. DOMAIN store_table' \subseteq used' \cup {Root}
    BY <1>2, Zenon DEF Effect, UsedInv
  <2>2. \A w \in late' : w.id \in used' \cup {Root}
    <3>. SUFFICES ASSUME NEW w \in late' PROVE w.id \in used' \cup {Root}
      OBVIOUS
    <3>1. CASE w \in late
      BY <1>2, <3>1, Zenon DEF UsedInv
    <3>2. CASE w = u
      BY <1>2, <3>2
    <3>. QED
      BY <1>2, <3>1, <3>2, Zenon DEF Effect
  <2>. QED
    BY <2>1, <2>2, Zenon DEF UsedInv
<1>3. ASSUME NEW c \in Client, NEW u, Effect(u), u.id \in Holds(cl[c]),
             UNCHANGED used, cl'[c] # cl[c]
      PROVE UsedInv' /\ OwnerChange
  <2>1. u.id \in used \cup {Root} /\ u.id \in Inum
    BY <1>3, HoldsUsed, Zenon DEF Holds
  <2>2. UsedInv'
    BY <1>2, <1>3, <2>1, Zenon
  <2>3. owner[u.id] = c /\ c # None
    BY <1>3, <2>1, YfsAssumption, Zenon DEF LockInv
  <2>4. OwnerChange
    <3>. SUFFICES ASSUME NEW i \in Inum, Extent(i)' # Extent(i)
                  PROVE owner[i] # None /\ cl'[owner[i]] # cl[owner[i]]
      BY Zenon DEF OwnerChange
    <3>1. i = u.id
      BY <1>3, Zenon DEF Effect
    <3>. QED
      BY <1>3, <2>3, <3>1
  <2>. QED
    BY <2>2, <2>4, Zenon
<1>4. ASSUME NEW u, Effect(u), u.id \notin used \cup {Root}, used' = used \cup {u.id}
      PROVE UsedInv' /\ OwnerChange
  <2>1. UsedInv'
    BY <1>2, <1>4, Zenon
  <2>2. ~Stored(store_table, u.id) /\ u.id \in used' \ used
    BY <1>4, Zenon DEF UsedInv, Stored
  <2>3. OwnerChange
    <3>. SUFFICES ASSUME NEW i \in Inum, Extent(i)' # Extent(i)
                  PROVE ~Stored(store_table, i) /\ i \in used' \ used
      BY Zenon DEF OwnerChange
    <3>1. i = u.id
      BY <1>4, Zenon DEF Effect
    <3>. QED
      BY <2>2, <3>1, Zenon
  <2>. QED
    BY <2>1, <2>3, Zenon
<1>5. ASSUME NEW u \in late, LateCall(u) PROVE UsedInv' /\ OwnerChange
  <2>0. /\ store_table' = Execute(store_table, u) /\ late' = late \ {u}
        /\ late' \subseteq late \cup {u} /\ UNCHANGED used
    BY <1>5, Zenon DEF LateCall
  <2>1. UpdateOK(u) /\ StoreOK(store_table) /\ u.id \in used \cup {Root}
    BY Zenon DEF LockInv, UsedInv
  <2>2. Effect(u)
    BY <2>0, <2>1, ExecuteEffect, Zenon
  <2>3. UsedInv'
    BY <1>2, <2>0, <2>1, <2>2, Zenon
  <2>4. OwnerChange
    <3>. SUFFICES ASSUME NEW i \in Inum, Extent(i)' # Extent(i)
                  PROVE \E w \in late \ late' : w.id = i
      BY Zenon DEF OwnerChange
    <3>1. i = u.id
      BY <2>2, Zenon DEF Effect
    <3>2. u \in late \ late'
      BY <2>0, Zenon
    <3>. QED
      BY <3>1, <3>2, Zenon
  <2>. QED
    BY <2>3, <2>4, Zenon
<1>6. CASE \E c \in Client : Under(c, TRUE) /\ UNCHANGED used /\ cl'[c] # cl[c]
  BY <1>1, <1>3, <1>6, Zenon DEF Under
<1>. QED
  BY <1>1, <1>4, <1>5, <1>6, Zenon DEF Changes

LEMMA UsedInit == Init => UsedInv
<1>. SUFFICES ASSUME Init PROVE UsedInv
  OBVIOUS
<1>1. DOMAIN store_table \subseteq {Root}
  BY DEF Init, put
<1>. QED
  BY <1>1 DEF Init, UsedInv

(* create, mkadir: as long as random() gives no i-number out twice, no     *)
(* directory has a name twice and no file two names, whatever calls to the *)
(* extent server fail and however the processes interleave.                *)
THEOREM NamesAlwaysUnique == Spec /\ ~Collide => []NamesUnique
<1>1. FreshInv => NamesUnique
  <2>. SUFFICES ASSUME FreshInv,
                       NEW d \in Dir \cap DOMAIN store_table,
                       NEW e \in Dir \cap DOMAIN store_table
                PROVE LET b == get(store_table, d)
                          g == get(store_table, e)
                      IN \A i \in Lines(b), j \in Lines(g) :
                           <<d, i>> # <<e, j>> => /\ b[i][2] # g[j][2]
                                                  /\ d = e => b[i][1] # g[j][1]
    BY SMTT(60) DEF NamesUnique
  <2>. DEFINE b == get(store_table, d)
              g == get(store_table, e)
  <2>1. <<d, b>> \in Versions /\ <<e, g>> \in Versions
    BY SMTT(60) DEF Versions
  <2>2. Unique(b) /\ (d # e => InumsOf(b) \cap InumsOf(g) = {}) /\ (d = e => b = g)
    BY <2>1, Zenon DEF FreshInv, VersionsOK
  <2>. HIDE DEF b, g
  <2>3. ASSUME NEW i \in Lines(b), NEW j \in Lines(g), <<d, i>> # <<e, j>>
        PROVE b[i][2] # g[j][2] /\ (d = e => b[i][1] # g[j][1])
    <3>1. CASE d = e
      BY <2>2, <2>3, <3>1, SMTT(60) DEF Unique
    <3>2. CASE d # e
      BY <2>2, <3>2, Zenon DEF InumsOf
    <3>. QED
      BY <3>1, <3>2, Zenon
  <2>. QED
    BY <2>3, Zenon DEF b, g
<1>. QED
  BY <1>1, LockInit, LockStep, FreshInit, FreshStep, PTL DEF Spec

(* The callers of the extent client hold the extent's lock: under the same *)
(* condition an extent changes only by a step of the process that holds    *)
(* its lock, when it is made, or when the server carries out a call whose  *)
(* process has given it up.                                                *)
THEOREM OwnerAlwaysChanges == Spec /\ ~Collide => OwnerChanges
<1>1. LockInv /\ FreshInv /\ UsedInv /\ [Next]_vars => UsedInv' /\ [OwnerChange]_vars
  BY FreshStep, UsedStep, Zenon
<1>. QED
  BY <1>1, LockInit, LockStep, FreshInit, FreshStep, UsedInit, PTL
  DEF Spec, OwnerChanges, OwnerChange
=============================================================================
