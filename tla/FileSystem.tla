----------------------------- MODULE FileSystem -----------------------------
(***************************************************************************)
(* What the file system promises its clients: each operation of yfs_client *)
(* takes effect, and has its answer fixed, in one step between its call    *)
(* and its return.  Nothing is said of the names readir returns.           *)
(***************************************************************************)
EXTENDS Integers, Sequences

CONSTANTS Client, File, Dir, Root, Calls, None

VARIABLES
  dir,   \* the entries <<name, inum>> of each directory
  data,  \* the bytes of each file
  call,  \* the operation each client has called, or None
  ans    \* its answer, None until it has taken effect

fsVars == <<dir, data, call, ans>>

FSInit ==
  /\ dir = [d \in {Root} |-> {}]
  /\ data = <<>>
  /\ call = [c \in Client |-> None]
  /\ ans = [c \in Client |-> None]

Answer(r, i, v) == [r |-> r, ino |-> i, val |-> v]

Called(d, n) == {e \in dir[d] : e[1] = n}

With(f, i, v) == [j \in DOMAIN f \cup {i} |-> IF j = i THEN v ELSE f[j]]
Without(f, i) == [j \in DOMAIN f \ {i} |-> f[j]]

(* The bytes of a file after x has been written at off, and after the file *)
(* has been given length n: gaps read as zero.                             *)
ByteAt(b, i) == IF i <= Len(b) THEN b[i] ELSE 0
Written(b, off, x) ==
  [i \in 1..(IF off + Len(x) > Len(b) THEN off + Len(x) ELSE Len(b)) |->
     IF i - off \in DOMAIN x THEN x[i - off] ELSE ByteAt(b, i)]
Truncated(b, n) == [i \in 1..n |-> ByteAt(b, i)]

Gone(c, r) == ans' = [ans EXCEPT ![c] = Answer(r, None, <<>>)]

DoAdd(c, q) ==
  /\ q.m \in {"create", "mkadir"}
  /\ \/ \E e \in Called(q.tgt, q.name) :
          /\ ans' = [ans EXCEPT ![c] = Answer("EXIST", e[2], <<>>)]
          /\ UNCHANGED <<dir, data>>
     \/ /\ Called(q.tgt, q.name) = {}
        /\ \E i \in (IF q.m = "create" THEN File \ DOMAIN data ELSE Dir \ DOMAIN dir) :
             LET linked == [dir EXCEPT ![q.tgt] = @ \cup {<<q.name, i>>}]
             IN /\ ans' = [ans EXCEPT ![c] = Answer("OK", i, <<>>)]
                /\ IF q.m = "create"
                     THEN dir' = linked /\ data' = With(data, i, <<>>)
                     ELSE dir' = With(linked, i, {}) /\ UNCHANGED data

DoLookup(c, q) ==
  /\ q.m = "lookup"
  /\ \/ Called(q.tgt, q.name) = {} /\ Gone(c, "NOENT")
     \/ \E e \in Called(q.tgt, q.name) :
          ans' = [ans EXCEPT ![c] = Answer("OK", e[2], <<>>)]
  /\ UNCHANGED <<dir, data>>

DoRemove(c, q) ==
  /\ q.m = "remove"
  /\ \/ /\ Called(q.tgt, q.name) = {}
        /\ Gone(c, "IOERR")
        /\ UNCHANGED <<dir, data>>
     \/ \E e \in Called(q.tgt, q.name) :
          /\ e[2] \in DOMAIN data
          /\ dir' = [dir EXCEPT ![q.tgt] = @ \ {e}]
          /\ data' = Without(data, e[2])
          /\ Gone(c, "OK")

DoGetattr(c, q) ==
  /\ q.m = "getattr"
  /\ ans' = [ans EXCEPT ![c] =
       IF q.tgt \in DOMAIN data THEN Answer("OK", None, <<Len(data[q.tgt])>>)
       ELSE Answer(IF q.tgt \in DOMAIN dir THEN "OK" ELSE "IOERR", None, <<>>)]
  /\ UNCHANGED <<dir, data>>

DoReadir(c, q) ==
  /\ q.m = "readir"
  /\ Gone(c, IF q.tgt \in DOMAIN dir THEN "OK" ELSE "NOENT")
  /\ UNCHANGED <<dir, data>>

DoRead(c, q) ==
  /\ q.m = "read"
  /\ \/ q.tgt \notin DOMAIN data /\ Gone(c, "NOENT")
     \/ /\ q.tgt \in DOMAIN data
        /\ LET b == data[q.tgt]
               n == {i \in DOMAIN b : q.off < i /\ i <= q.off + q.size}
           IN IF q.off >= Len(b) THEN Gone(c, "IOERR")
              ELSE ans' = [ans EXCEPT ![c] = Answer("OK", None,
                     [j \in {i - q.off : i \in n} |-> b[j + q.off]])]
  /\ UNCHANGED <<dir, data>>

DoUpdate(c, q) ==
  /\ q.m \in {"write", "resize"}
  /\ \/ q.tgt \notin DOMAIN data /\ Gone(c, "NOENT") /\ UNCHANGED data
     \/ /\ q.tgt \in DOMAIN data
        /\ Gone(c, "OK")
        /\ data' = [data EXCEPT ![q.tgt] =
             IF q.m = "resize" THEN Truncated(@, q.size)
             ELSE Written(@, q.off, [i \in 1..q.size |-> q.byte])]
  /\ UNCHANGED dir

Do(c) ==
  LET q == call[c]
  IN /\ q # None /\ ans[c] = None
     /\ \/ DoAdd(c, q) \/ DoLookup(c, q) \/ DoRemove(c, q) \/ DoGetattr(c, q)
        \/ DoReadir(c, q) \/ DoRead(c, q) \/ DoUpdate(c, q)
     /\ UNCHANGED call

(* A call returns and the next may be made at once.                        *)
CallOrReturn(c) ==
  /\ call[c] = None \/ ans[c] # None
  /\ call'[c] \in Calls \cup {None}
  /\ call' = [call EXCEPT ![c] = call'[c]]
  /\ ans' = [ans EXCEPT ![c] = None]
  /\ UNCHANGED <<dir, data>>

FSNext == \E c \in Client : Do(c) \/ CallOrReturn(c)

FSSpec == FSInit /\ [][FSNext]_fsVars
=============================================================================
