------------------------------ MODULE YfsClient ------------------------------
(***************************************************************************)
(* The file system: yfs_client processes (fuse.cc, yfs_client.cc) that     *)
(* share one extent server and one lock server.                            *)
(*                                                                         *)
(* fuse_session_loop serves one kernel request at a time, so a process is  *)
(* at one place in one handler.  A handler calls one or two operations of  *)
(* yfs_client; an operation takes a lock with lock_client_cache::acquire,  *)
(* makes calls to the extent server and releases the lock.  The lock is    *)
(* the one the lock service means to provide: held by one process at a     *)
(* time.  acquire returns only OK (lock_client_cache.cc:108).              *)
(*                                                                         *)
(* A directory's extent is a sequence of lines <<name, inum>>; remove      *)
(* leaves an empty line.  Names contain neither ':' nor a line end.        *)
(***************************************************************************)
EXTENDS ExtentServer, FiniteSets

CONSTANTS
  Client,    \* yfs_client processes
  File,      \* i-numbers with the file bit
  Dir,       \* i-numbers without it
  Root,      \* the root directory, i-number 1
  Name,      \* file names
  Request,   \* requests the kernel may make; it looks names up in directories
  Collide,   \* random() may return the i-number of an existing file
  MaxLines,  \* bound: lines in a directory when a name is added to it
  MaxFail,   \* bound: calls to the extent server that fail
  None

ASSUME YfsAssumption ==
  /\ Root \in Dir /\ File \cap Dir = {} /\ None \notin File \cup Dir \cup Client
  /\ Request \subseteq [op : {"getattr", "setattr", "read", "write", "create",
                              "lookup", "readdir", "open", "mkdir", "unlink"},
                        ino : File \cup Dir, name : Name \cup {None}, size : Nat,
                        off : Nat, byte : Nat]
  /\ \A q \in Request : q.op \in {"create", "lookup", "mkdir", "unlink"} =>
                         q.ino \in Dir /\ q.name \in Name
  /\ Collide \in BOOLEAN /\ MaxLines \in Nat /\ MaxFail \in Nat

VARIABLES
  store_table,  \* the extent server's table
  owner,        \* the process that holds each lock, or None
  cl,           \* what each process is doing
  known,        \* the i-numbers each kernel has been given
  used,         \* i-numbers handed out by new_inum so far
  fails,        \* calls to the extent server that have failed
  late          \* those of them the server may still carry out

vars == <<store_table, owner, cl, known, used, fails, late>>

Inum == File \cup Dir
isfile(i) == i \in File

(* m is the operation of yfs_client in progress, on the extent tgt; pc its *)
(* next step; buf its copy of the extent; ino the i-number it found or     *)
(* made; r and val its result.  reply is the handler's last reply.         *)
Idle(reply) ==
  [pc |-> "idle", m |-> "none", req |-> None, tgt |-> None, buf |-> <<>>,
   ino |-> None, r |-> "OK", val |-> <<>>, reply |-> reply]

Init ==
  /\ store_table = put(<<>>, Root, <<>>)
  /\ owner = [i \in Inum |-> None]
  /\ cl = [c \in Client |-> Idle("none")]
  /\ known = [c \in Client |-> {Root}]
  /\ used = {}
  /\ fails = 0
  /\ late = {}

-----------------------------------------------------------------------------
(* Calls to the extent server that change it, and what they do there.      *)
(* call tells two calls that failed apart.                                 *)
PutCall(i, b) == [op |-> "put", id |-> i, off |-> 0, buf |-> b, call |-> fails]
RemoveCall(i) == [op |-> "remove", id |-> i, off |-> 0, buf |-> <<>>, call |-> fails]
PutbufCall(i, off, b) ==
  [op |-> "putbuf", id |-> i, off |-> off, buf |-> b, call |-> fails]

Execute(st, u) ==
  CASE u.op = "put" -> put(st, u.id, u.buf)
    [] u.op = "remove" -> remove(st, u.id)
    [] u.op = "putbuf" /\ Stored(st, u.id) -> putbuf(st, u.id, u.off, u.buf)
    [] OTHER -> st

(* A call may fail (the connection is lost, the deadline passes) after the *)
(* server has carried it out, or before.  In the second case the caller    *)
(* has gone on when the request arrives, if it arrives at all: the server  *)
(* does not learn that the call was given up.                              *)
Outcome == {"done"} \cup (IF fails < MaxFail THEN {"unserved", "unheard"} ELSE {})

Failed(o) == fails' = IF o = "done" THEN fails ELSE fails + 1

Carried(o, u) ==
  /\ store_table' = IF o = "unserved" THEN store_table ELSE Execute(store_table, u)
  /\ late' = IF o = "unserved" THEN late \cup {u} ELSE late
  /\ Failed(o)

(* A call that changes nothing there.                                      *)
Asked(o) == Failed(o) /\ UNCHANGED <<store_table, late>>

(* The server comes to a call its caller has given up.                     *)
LateCall(u) ==
  /\ store_table' = Execute(store_table, u)
  /\ late' = late \ {u}
  /\ UNCHANGED <<owner, cl, known, used, fails>>

(* The status the caller sees, when the server's own would be r.           *)
Status(o, r) == IF o = "done" THEN r ELSE "RPCERR"
Found(i) == IF Stored(store_table, i) THEN "OK" ELSE "NOENT"

(* A line of a directory is split at its ':'; empty lines are skipped.     *)
ent_read(line) == [name |-> line[1], inum |-> line[2]]
Lines(b) == {i \in DOMAIN b : b[i] # <<>>}

(* dir_find: the first line with this name.                                *)
dir_find(b, n) ==
  {i \in Lines(b) : /\ ent_read(b[i]).name = n
                    /\ \A j \in Lines(b) : j < i => ent_read(b[j]).name # n}

(* random(), with the file bit set or cleared; never the parent, 0 or 1.   *)
new_inum(parent, f) ==
  (IF f THEN File ELSE Dir \ {Root}) \ ({parent} \cup IF Collide THEN {} ELSE used)

Goto(c, upd) == cl' = [cl EXCEPT ![c] = upd]

At(c, m, p) == cl[c].m \in m /\ cl[c].pc = p

(* Mutant: create and mkadir take no lock either.                          *)
Begin_unlocked(p, m, i) ==
  [p EXCEPT !.m = m, !.tgt = i, !.r = "OK", !.val = <<>>, !.buf = <<>>,
            !.pc = IF m \in {"read", "readir", "create", "mkadir"}
                     THEN "locked" ELSE "acquire"]

(* The start of an operation.  read and readir take no lock.               *)
Begin(p, m, i) ==
  [p EXCEPT !.m = m, !.tgt = i, !.r = "OK", !.val = <<>>, !.buf = <<>>,
            !.pc = IF m \in {"read", "readir"} THEN "locked" ELSE "acquire"]

(* What stat2yfs makes of an operation's own status and the extent         *)
(* server's, the lock having been granted.                                 *)
stat2yfs(yfs, ext) == IF ext # "OK" THEN ext ELSE yfs

-----------------------------------------------------------------------------
(* The handlers of fuse.cc: the operation each calls first, the one it     *)
(* goes on to when that has returned, and its reply.  create stands for    *)
(* mknod too, which differs in the form of the reply.                      *)
First ==
  [getattr |-> "getattr", setattr |-> "resize", read |-> "getattr",
   write |-> "write", create |-> "create", lookup |-> "lookup",
   readdir |-> "readir", mkdir |-> "mkadir", unlink |-> "remove"]

Enter(q) ==
  CASE q.op \in {"setattr", "read", "write"} /\ ~isfile(q.ino) -> Idle("EISDIR")
    [] q.op = "readdir" /\ isfile(q.ino) -> Idle("ENOTDIR")
    [] q.op = "open" -> Idle("OK")
    [] OTHER -> Begin([Idle("none") EXCEPT !.req = q], First[q.op], q.ino)

Follow(p) ==
  CASE \/ p.m = "create" /\ p.r \in {"OK", "EXIST"}
       \/ p.m \in {"lookup", "mkadir"} /\ p.r = "OK" -> {<<"getattr", p.ino>>}
    [] p.m = "resize" /\ p.r = "OK" -> {<<"getattr", p.tgt>>}
    [] p.m = "getattr" /\ p.req.op = "read" /\ p.r = "OK" -> {<<"read", p.tgt>>}
    [] OTHER -> {}

(* fuseserver_setattr has no reply for a resize that fails.                *)
Reply(p) ==
  CASE p.m = "resize" -> "none"
    [] \/ p.r = "OK"
       \/ p.m = "readir"
       \/ p.m = "getattr" /\ p.req.op = "mkdir" -> "OK"
    [] p.req.op \in {"setattr", "read", "write"} -> "EIO"
    [] p.m = "mkadir" -> IF p.r = "EXIST" THEN "EEXIST"
                         ELSE IF p.r = "NOENT" THEN "ENOENT" ELSE "EIO"
    [] OTHER -> "ENOENT"

(* Bound: a new i-number is left for every name being added.               *)
Room(q) ==
  LET f == q.op = "create"
      adding == {c \in Client : cl[c].m = (IF f THEN "create" ELSE "mkadir")}
  IN q.op \in {"create", "mkdir"} =>
       /\ Stored(store_table, q.ino) => Len(get(store_table, q.ino)) < MaxLines
       /\ Cardinality(new_inum(q.ino, f)) > Cardinality(adding)

request(c) ==
  /\ cl[c].pc = "idle"
  /\ \E q \in Request :
       /\ q.ino \in known[c]
       /\ Room(q)
       /\ Goto(c, Enter(q))
  /\ UNCHANGED <<store_table, owner, known, used, fails, late>>

handle(c) ==
  LET p == cl[c]
      reply == Reply(p)
  IN /\ p.pc = "return"
     /\ \/ /\ Follow(p) = {}
           /\ Goto(c, Idle(reply))
           /\ known' = [known EXCEPT ![c] = @ \cup
                IF reply = "OK" /\ p.req.op \in {"create", "lookup", "mkdir"}
                  THEN {p.ino} ELSE {}]
        \/ \E f \in Follow(p) : Goto(c, Begin(p, f[1], f[2])) /\ UNCHANGED known
     /\ UNCHANGED <<store_table, owner, used, fails, late>>

-----------------------------------------------------------------------------
(* The operations of yfs_client.                                           *)
Locked(c, i, pc) ==
  /\ owner[i] = None
  /\ owner' = [owner EXCEPT ![i] = c]
  /\ Goto(c, [cl[c] EXCEPT !.pc = pc])
  /\ UNCHANGED <<store_table, known, used, fails, late>>

Unlocked(c, i, pc) ==
  /\ owner' = [owner EXCEPT ![i] = None]
  /\ Goto(c, [cl[c] EXCEPT !.pc = pc])
  /\ UNCHANGED <<store_table, known, used, fails, late>>

acquire(c) == cl[c].pc = "acquire" /\ Locked(c, cl[c].tgt, "locked")

release(c) == cl[c].pc = "release" /\ Unlocked(c, cl[c].tgt, "return")

(* getfile and getdir; only files have a size.                             *)
getfile(c) ==
  LET p == cl[c]
  IN /\ At(c, {"getattr"}, "locked")
     /\ \E o \in Outcome :
          LET ok == Status(o, Found(p.tgt)) = "OK"
          IN /\ Asked(o)
             /\ Goto(c, [p EXCEPT !.pc = "release",
                  !.r = IF ok THEN "OK" ELSE "IOERR",
                  !.val = IF ok /\ isfile(p.tgt)
                            THEN <<getattr(store_table, p.tgt)>> ELSE <<>>])
     /\ UNCHANGED <<owner, known, used>>

(* The common start of lookup, remove and dir_add_entry: the directory is  *)
(* read and searched.  hit and miss are the steps that follow and the      *)
(* operation's own status until then.                                      *)
Search(c, hit, miss) ==
  LET p == cl[c]
  IN \E o \in Outcome :
       LET ext == Status(o, Found(p.tgt))
           b == IF ext = "OK" THEN get(store_table, p.tgt) ELSE <<>>
           lines == dir_find(b, p.req.name)
           to == IF ext # "OK" THEN [pc |-> "release", r |-> ext]
                 ELSE IF lines # {} THEN hit ELSE miss
       IN /\ Asked(o)
          /\ Goto(c, [p EXCEPT !.pc = to.pc, !.r = to.r, !.buf = b,
               !.ino = IF lines = {} THEN None
                       ELSE ent_read(b[CHOOSE i \in lines : TRUE]).inum])
          /\ UNCHANGED <<owner, known, used>>

lookup(c) ==
  /\ At(c, {"lookup"}, "locked")
  /\ Search(c, [pc |-> "release", r |-> "OK"], [pc |-> "release", r |-> "NOENT"])

(* Mutant: a name that is there already is added again.                    *)
dir_add_entry_blind(c) ==
  /\ At(c, {"create", "mkadir"}, "locked")
  /\ Search(c, [pc |-> "new", r |-> "OK"], [pc |-> "new", r |-> "OK"])

(* dir_add_entry: the new extent is stored first, then the directory with  *)
(* the new line.  Neither put's status is looked at.                       *)
dir_add_entry(c) ==
  /\ At(c, {"create", "mkadir"}, "locked")
  /\ Search(c, [pc |-> "release", r |-> "EXIST"], [pc |-> "new", r |-> "OK"])

dir_add_entry_new(c) ==
  /\ At(c, {"create", "mkadir"}, "new")
  /\ \E o \in Outcome, i \in new_inum(cl[c].tgt, cl[c].m = "create") :
       /\ Carried(o, PutCall(i, <<>>))
       /\ used' = used \cup {i}
       /\ Goto(c, [cl[c] EXCEPT !.pc = "put", !.ino = i])
  /\ UNCHANGED <<owner, known>>

dir_add_entry_put(c) ==
  LET p == cl[c]
  IN /\ At(c, {"create", "mkadir"}, "put")
     /\ \E o \in Outcome :
          Carried(o, PutCall(p.tgt, Append(p.buf, <<p.req.name, p.ino>>)))
     /\ Goto(c, [p EXCEPT !.pc = "release"])
     /\ UNCHANGED <<owner, known, used>>

(* Mutants: a name that is not found leaves the directory locked; the file *)
(* is erased without its lock.                                             *)
remove_find_stuck(c) ==
  /\ At(c, {"remove"}, "locked")
  /\ Search(c, [pc |-> "acquire_ent", r |-> "IOERR"],
               [pc |-> "return", r |-> "IOERR"])

remove_find_unlocked(c) ==
  /\ At(c, {"remove"}, "locked")
  /\ Search(c, [pc |-> "erase", r |-> "IOERR"],
               [pc |-> "release", r |-> "IOERR"])

(* remove: the file's extent goes first, under both locks, then its line.  *)
remove_find(c) ==
  /\ At(c, {"remove"}, "locked")
  /\ Search(c, [pc |-> "acquire_ent", r |-> "IOERR"],
               [pc |-> "release", r |-> "IOERR"])

remove_acquire(c) == cl[c].pc = "acquire_ent" /\ Locked(c, cl[c].ino, "erase")

remove_erase(c) ==
  LET p == cl[c]
  IN /\ At(c, {"remove"}, "erase")
     /\ \E o \in Outcome :
          LET ext == Status(o, Found(p.ino))
          IN /\ Carried(o, RemoveCall(p.ino))
             /\ Goto(c, [p EXCEPT !.pc = IF ext = "OK" THEN "put" ELSE "release_ent",
                                  !.r = stat2yfs("OK", ext)])
     /\ UNCHANGED <<owner, known, used>>

(* Mutant: the line stays.                                                 *)
remove_put_kept(c) ==
  LET p == cl[c]
  IN /\ At(c, {"remove"}, "put")
     /\ \E o \in Outcome : Carried(o, PutCall(p.tgt, p.buf))
     /\ Goto(c, [p EXCEPT !.pc = "release_ent"])
     /\ UNCHANGED <<owner, known, used>>

remove_put(c) ==
  LET p == cl[c]
      line == CHOOSE i \in dir_find(p.buf, p.req.name) : TRUE
  IN /\ At(c, {"remove"}, "put")
     /\ \E o \in Outcome :
          Carried(o, PutCall(p.tgt, [p.buf EXCEPT ![line] = <<>>]))
     /\ Goto(c, [p EXCEPT !.pc = "release_ent"])
     /\ UNCHANGED <<owner, known, used>>

remove_release(c) == cl[c].pc = "release_ent" /\ Unlocked(c, cl[c].ino, "release")

(* resize: the extent is fetched, cut or filled up, and stored.            *)
resize_get(c) ==
  LET p == cl[c]
  IN /\ At(c, {"resize"}, "locked")
     /\ \E o \in Outcome :
          LET ext == Status(o, Found(p.tgt))
          IN /\ Asked(o)
             /\ Goto(c, IF ext # "OK" THEN [p EXCEPT !.pc = "release", !.r = ext]
                        ELSE [p EXCEPT !.pc = "put",
                                       !.buf = get(store_table, p.tgt)])
     /\ UNCHANGED <<owner, known, used>>

resize_put(c) ==
  LET p == cl[c]
  IN /\ At(c, {"resize"}, "put")
     /\ \E o \in Outcome :
          Carried(o, PutCall(p.tgt, Resized(p.buf, p.req.size)))
     /\ Goto(c, [p EXCEPT !.pc = "release"])
     /\ UNCHANGED <<owner, known, used>>

write(c) ==
  LET p == cl[c]
  IN /\ At(c, {"write"}, "locked")
     /\ \E o \in Outcome :
          LET tmp == [i \in 1..p.req.size |-> p.req.byte]
          IN /\ Carried(o, PutbufCall(p.tgt, p.req.off, tmp))
             /\ Goto(c, [p EXCEPT !.pc = "release",
                                  !.r = stat2yfs("OK", Status(o, Found(p.tgt)))])
     /\ UNCHANGED <<owner, known, used>>

(* read and readir, without a lock.  The handler replies with size bytes   *)
(* whatever read got; val is what it got.                                  *)
read(c) ==
  LET p == cl[c]
      in == Stored(store_table, p.tgt) /\ Readable(store_table, p.tgt, p.req.off)
  IN /\ At(c, {"read"}, "locked")
     /\ \E o \in Outcome :
          LET ext == Status(o, IF Found(p.tgt) = "OK" /\ ~in THEN "IOERR"
                               ELSE Found(p.tgt))
          IN /\ Asked(o)
             /\ Goto(c, [p EXCEPT !.pc = "return", !.r = ext,
                  !.val = IF ext = "OK"
                            THEN getbuf(store_table, p.tgt, p.req.size, p.req.off)
                            ELSE <<>>])
     /\ UNCHANGED <<owner, known, used>>

readir(c) ==
  LET p == cl[c]
  IN /\ At(c, {"readir"}, "locked")
     /\ \E o \in Outcome :
          LET ext == Status(o, Found(p.tgt))
          IN /\ Asked(o)
             /\ Goto(c, [p EXCEPT !.pc = "return", !.r = ext,
                  !.buf = IF ext = "OK" THEN get(store_table, p.tgt) ELSE <<>>])
     /\ UNCHANGED <<owner, known, used>>

-----------------------------------------------------------------------------
Step(c) ==
  \/ handle(c) \/ acquire(c) \/ release(c) \/ getfile(c) \/ lookup(c)
  \/ dir_add_entry(c) \/ dir_add_entry_new(c) \/ dir_add_entry_put(c)
  \/ remove_find(c) \/ remove_acquire(c) \/ remove_erase(c) \/ remove_put(c)
  \/ remove_release(c) \/ resize_get(c) \/ resize_put(c) \/ write(c)
  \/ read(c) \/ readir(c)

Next ==
  \/ \E c \in Client : request(c) \/ Step(c)
  \/ \E u \in late : LateCall(u)

Spec == Init /\ [][Next]_vars

(* A process that can go on does.  A lock is not promised to one that      *)
(* waits for it while others come and take it.                             *)
Fairness == \A c \in Client : WF_vars(Step(c))

FairSpec == Spec /\ Fairness

-----------------------------------------------------------------------------
(* The state of every process, extent and lock is of its kind.             *)
Line == {<<>>} \cup (Name \X Inum)
TypeOK ==
  /\ DOMAIN store_table \subseteq Inum
  /\ \A i \in DOMAIN store_table :
       /\ store_table[i].buf \in Seq(IF isfile(i) THEN Nat ELSE Line)
       /\ store_table[i].size = Len(store_table[i].buf)
  /\ owner \in [Inum -> Client \cup {None}]
  /\ known \in [Client -> SUBSET Inum]
  /\ used \subseteq Inum
  /\ fails \in 0..MaxFail
  /\ \A u \in late : u.id \in Inum /\ u.buf \in Seq(IF isfile(u.id) THEN Nat ELSE Line)

(* Each operation of yfs_client takes effect in one step: what it reads    *)
(* and what it changes is what FileSystem allows, although it makes        *)
(* several calls to the extent server.  A file counts as gone once remove  *)
(* has erased its extent, as made once its line is stored.  After a failed *)
(* call, whose outcome is not known, nothing is promised.                  *)
Erasing(d) ==
  {<<cl[c].req.name, cl[c].ino>> : c \in {c \in Client : /\ At(c, {"remove"}, "put")
                                                        /\ cl[c].tgt = d}}
Entries(d) ==
  LET b == get(store_table, d) IN {b[i] : i \in Lines(b)} \ Erasing(d)
Linked ==
  {Root} \cup UNION {{e[2] : e \in Entries(d)} : d \in Dir \cap DOMAIN store_table}
Visible == Linked \cap DOMAIN store_table

CallOf(p) ==
  [m |-> p.m, tgt |-> p.tgt, name |-> p.req.name, size |-> p.req.size,
   off |-> p.req.off, byte |-> p.req.byte]
CallSet ==
  [m : {"getattr", "resize", "read", "write", "create", "lookup", "readir",
        "mkadir", "remove"},
   tgt : Inum, name : Name \cup {None}, size : Nat, off : Nat, byte : Nat]

Answered(c) ==
  \/ cl[c].pc \in {"release_ent", "release", "return"}
  \/ At(c, {"remove"}, "put")

FS == INSTANCE FileSystem WITH
  dir <- [d \in Dir \cap Visible |-> Entries(d)],
  data <- [f \in File \cap Visible |-> get(store_table, f)],
  call <- [c \in Client |-> IF cl[c].pc = "idle" THEN None ELSE CallOf(cl[c])],
  ans <- [c \in Client |->
            IF ~Answered(c) THEN None
            ELSE [r |-> cl[c].r, val |-> cl[c].val,
                  ino |-> IF cl[c].m \in {"create", "mkadir", "lookup"}
                            THEN cl[c].ino ELSE None]],
  Calls <- CallSet

OperationsAtomic ==
  FS!FSInit /\ [][fails' = 0 => FS!FSNext]_(FS!fsVars)

(* Whatever calls to the extent server fail, no two lines of a directory   *)
(* have the same name (dir_add_entry looks before it adds) and no file has *)
(* two names (new_inum is called for each).                                *)
NamesUnique ==
  \A d, e \in Dir \cap DOMAIN store_table :
    LET b == get(store_table, d)
        g == get(store_table, e)
    IN \A i \in Lines(b), j \in Lines(g) :
         <<d, i>> # <<e, j>> => /\ b[i][2] # g[j][2]
                                /\ d = e => b[i][1] # g[j][1]

(* A process holds locks only within an operation: every way out of one,   *)
(* that after a failed call included, releases what it has acquired.       *)
LocksReturned ==
  \A c \in Client : cl[c].pc \in {"idle", "return"} =>
    \A i \in Inum : owner[i] # c

(* Who changes an extent holds its lock (extent_client.cc:10): every       *)
(* change is a step of the process that does.  There are two exceptions.   *)
(* The extent of a new i-number is stored without a lock, when the server  *)
(* has none under this number and nobody else has got the number.  And a   *)
(* call that its process gave up may be carried out when the lock is long  *)
(* released (yfs_client.cc:152-153 goes on to release it).                 *)
Extent(i) == IF Stored(store_table, i) THEN store_table[i] ELSE None
OwnerChanges ==
  [][\A i \in Inum : Extent(i)' # Extent(i) =>
       \/ owner[i] # None /\ cl'[owner[i]] # cl[owner[i]]
       \/ ~Stored(store_table, i) /\ i \in used' \ used
       \/ \E u \in late \ late' : u.id = i]_vars

(* As long as no call fails, a directory listing (readir, which takes no   *)
(* lock) names a file whose extent is gone only while the remove that has  *)
(* erased it is about to take it from the directory.                       *)
ListsLiveFiles ==
  [][\A c \in Client :
       At(c, {"readir"}, "locked") /\ cl'[c].pc = "return" /\ fails = 0 =>
         \A i \in Lines(cl'[c].buf) :
           LET e == cl'[c].buf[i]
           IN Stored(store_table, e[2]) \/ e \in Erasing(cl[c].tgt)]_vars

(* A process that waits for a lock sees another one get it.                *)
Waits(c, i) ==
  \/ cl[c].pc = "acquire" /\ cl[c].tgt = i
  \/ cl[c].pc = "acquire_ent" /\ cl[c].ino = i
Overtakes ==
  \E c \in Client, i \in Inum : Waits(c, i) /\ owner[i] # owner'[i]
                               /\ owner'[i] \notin {None, c}

(* A resize has failed: fuse.cc:91-96 has no reply for the kernel then.    *)
Unanswered(c) == At(c, {"resize"}, "return") /\ cl[c].r # "OK"

(* Every request is answered, or is a setattr whose resize has failed,     *)
(* unless processes that wait for a lock are overtaken for ever.  So no    *)
(* processes wait for each other's locks, although remove holds the        *)
(* directory's while it waits for the file's.                              *)
HandlersFinish ==
  \/ []<><<Overtakes>>_vars
  \/ \A c \in Client :
       (cl[c].pc # "idle") ~> \/ cl[c].pc = "idle" /\ cl[c].reply # "none"
                              \/ Unanswered(c)
=============================================================================
