---------------------------- MODULE MCYfsClient ----------------------------
(* Small instances of the file system.  Ops are the requests made.  Names  *)
(* in DirName are given to directories, the others to files: the kernel    *)
(* sends no unlink for a directory.                                        *)
EXTENDS YfsClient, TLC
CONSTANTS Ops, DirName, Sizes, Offsets

Byte == {7}

Of(op, inos, names, sizes, offs) ==
  [op : {op} \cap Ops, ino : inos, name : names, size : sizes, off : offs,
   byte : Byte]

(* Where directories are made they are looked up, too.                     *)
FindDir ==
  [op : {o \in {"lookup"} : "mkdir" \in Ops}, ino : {Root}, name : DirName,
   size : {0}, off : {0}, byte : Byte]

MCRequest ==
  FindDir \cup
  UNION {Of(op, Inum, {None}, {0}, {0}) : op \in {"getattr", "readdir", "open"}}
  \cup Of("setattr", Inum, {None}, Sizes, {0})
  \cup Of("read", File, {None}, Sizes \ {0}, Offsets)
  \cup Of("write", File, {None}, Sizes \ {0}, Offsets)
  \cup Of("create", Dir, Name \ DirName, {0}, {0})
  \cup Of("unlink", Dir, Name \ DirName, {0}, {0})
  \cup Of("lookup", Dir, Name \ DirName, {0}, {0})
  \cup Of("mkdir", {Root}, DirName, {0}, {0})

Symmetry == Permutations(Client) \cup Permutations(File) \cup Permutations(Name \ DirName)

(* Bound: while the server may still carry out a call that was given up,   *)
(* requests are served one at a time.  The call arrives between any two    *)
(* steps of them.                                                          *)
OneActive ==
  late # {} => Cardinality({c \in Client : cl[c].pc # "idle"}) <= 1
=============================================================================
