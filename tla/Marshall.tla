------------------------------ MODULE Marshall ------------------------------
(***************************************************************************)
(* The marshaller of the RPC layer (rpc/marshall.h, rpc/rpc.cc), as        *)
(* operators.  What a marshall object writes is a sequence of bytes; the   *)
(* growth of its allocation is a matter of numbers, apart from the bytes.  *)
(* An unmarshall object is the received bytes and a read head, the number  *)
(* of bytes before it.                                                     *)
(*                                                                         *)
(* A byte has Base values, 256 in the code; with a smaller Base the same   *)
(* definitions describe a machine with narrower integers.                  *)
(***************************************************************************)
EXTENDS Integers, Sequences
LOCAL INSTANCE SequencesExt

CONSTANTS Base,             \* values of a byte
          DEFAULT_RPC_SZ    \* bytes allocated by the constructor

(* sizeof(rpc_sz_t), and with it the larger header, the five words of      *)
(* req_header.                                                             *)
SizeWord == 4
RPC_HEADER_SZ == SizeWord + 5 * 4

ASSUME MarshallAssumption ==
  /\ Base \in Nat \ {0} /\ Base % 2 = 0
  /\ DEFAULT_RPC_SZ \in Nat /\ DEFAULT_RPC_SZ >= RPC_HEADER_SZ

-----------------------------------------------------------------------------
(* Writing.                                                                *)

(* The values of two, three and four bytes.                                *)
B2 == Base * Base
B3 == B2 * Base
B4 == B2 * B2

(* The byte of x that counts ps: (x >> 8) & 0xff for p = Base.  x may be   *)
(* negative: \div and % round down, so this is a byte of its two's         *)
(* complement.                                                             *)
Octet(x, p) == (x \div p) % Base

(* Mutant: the bytes of a short in the order of a little-endian machine.   *)
put_short_host(x) == <<Octet(x, 1), Octet(x, Base)>>

(* operator<< for short and for int, and pack: network order.              *)
put_short(x) == <<Octet(x, Base), Octet(x, 1)>>
pack(x) == <<Octet(x, B3), Octet(x, B2), Octet(x, Base), Octet(x, 1)>>

(* operator<< for the types that the programs pass: those of marshall.h,   *)
(* and the attributes of the extent protocol, four words.                  *)
put_attr(a) == pack(a[1]) \o pack(a[2]) \o pack(a[3]) \o pack(a[4])

put(t, x) ==
  CASE t = "bool" -> <<IF x THEN 1 ELSE 0>>
    [] t \in {"char", "unsigned char"} -> <<Octet(x, 1)>>
    [] t \in {"short", "unsigned short"} -> put_short(x)
    [] t \in {"int", "unsigned int"} -> pack(x)
    [] t = "unsigned long long" -> pack(x \div B4) \o pack(x)
    [] t = "string" -> pack(Len(x)) \o x
    [] t = "attr" -> put_attr(x)

(* The arguments of a stub, in order.                                      *)
Content(types, xs) == FlattenSeq([i \in 1..Len(types) |-> put(types[i], xs[i])])

(* pack_req_header and pack_reply_header fill in the header in front of    *)
(* the content, behind the word that connection::writepdu overwrites with  *)
(* the size.  A reply header is shorter, and nobody reads what is between  *)
(* it and the content.                                                     *)
Unset(n) == [i \in 1..n |-> 0]

pack_req_header(h, content) ==
  Unset(SizeWord) \o pack(h.xid) \o pack(h.proc) \o pack(h.clt_nonce)
    \o pack(h.srv_nonce) \o pack(h.xid_rep) \o content

pack_reply_header(h, content) ==
  Unset(SizeWord) \o pack(h.xid) \o pack(h.ret) \o Unset(12) \o content

(* The allocation, of capa bytes with the write head at ind: before one    *)
(* byte is stored, after n calls of rawbyte (n at most capa, so that one   *)
(* of them at most finds it full), and before n bytes are stored at once.  *)
rawbyte(ind, capa) == IF ind >= capa THEN 2 * capa ELSE capa

BytewiseCapacity(ind, capa, n) == IF ind + n > capa THEN 2 * capa ELSE capa

(* Mutant: one doubling is thought to be enough for any string.            *)
rawbytes_twice(ind, capa, n) == IF ind + n > capa THEN 2 * capa ELSE capa

rawbytes(ind, capa, n) ==
  IF ind + n > capa
  THEN IF capa > n THEN 2 * capa ELSE capa + n
  ELSE capa

(* The object after a value is written; fits says that no byte so far went *)
(* past the allocation.                                                    *)
Object(ind, capa, fits) == [ind |-> ind, capa |-> capa, fits |-> fits]

Grown(m, t, x) ==
  LET n == Len(put(t, x))
      word == BytewiseCapacity(m.ind, m.capa, 4)
      capa == IF t = "string" THEN rawbytes(m.ind + 4, word, n - 4)
              ELSE BytewiseCapacity(m.ind, m.capa, n)
  IN Object(m.ind + n, capa, m.fits /\ m.ind + n <= capa)

(* The object that a stub makes of its arguments.                          *)
marshall(types, xs) ==
  FoldLeft(LAMBDA m, i : Grown(m, types[i], xs[i]),
           Object(RPC_HEADER_SZ, DEFAULT_RPC_SZ, TRUE),
           [i \in 1..Len(types) |-> i])

-----------------------------------------------------------------------------
(* Reading.  A read past the end clears _ok, which nothing sets again: the *)
(* head then stays past the end.                                           *)

(* The unsigned integers of one, two and four bytes at the read head.      *)
Byte1(b, ind) == b[ind + 1]
Byte2(b, ind) == b[ind + 1] * Base + b[ind + 2]
Byte4(b, ind) == Byte2(b, ind) * B2 + Byte2(b, ind + 2)

(* The signed integer with the bits of x, of a type with p values.         *)
Signed(x, p) == IF 2 * x >= p THEN x - p ELSE x

unpack(b, ind) == Signed(Byte4(b, ind), B4)

(* The bytes of an integer type, and of the value of type t at the head.   *)
(* The length of a string is an unsigned int, and is itself read first.    *)
(* The sum in unmarshall::rawbytes is of unsigned ints; a sum that wraps   *)
(* around is not modelled, std::string would be asked for almost 2^32      *)
(* bytes.                                                                  *)
Width(t) ==
  CASE t \in {"bool", "char", "unsigned char"} -> 1
    [] t \in {"short", "unsigned short"} -> 2
    [] t \in {"int", "unsigned int"} -> 4
    [] t = "unsigned long long" -> 8
    [] t = "attr" -> 16

Extent(b, ind, t) ==
  IF t # "string" THEN Width(t)
  ELSE IF ind + 4 <= Len(b) THEN 4 + Byte4(b, ind) ELSE 4

(* operator>>, where the bytes are there.                                  *)
get_attr(b, ind) ==
  <<Byte4(b, ind), Byte4(b, ind + 4), Byte4(b, ind + 8), Byte4(b, ind + 12)>>

get(b, ind, t) ==
  CASE t = "bool" -> Byte1(b, ind) # 0
    [] t = "unsigned char" -> Byte1(b, ind)
    [] t = "char" -> Signed(Byte1(b, ind), Base)
    [] t = "unsigned short" -> Byte2(b, ind)
    [] t = "short" -> Signed(Byte2(b, ind), B2)
    [] t = "unsigned int" -> Byte4(b, ind)
    [] t = "int" -> Signed(Byte4(b, ind), B4)
    [] t = "unsigned long long" -> Byte4(b, ind) * B4 + Byte4(b, ind + 4)
    [] t = "string" -> SubSeq(b, ind + 5, ind + 4 + Byte4(b, ind))
    [] t = "attr" -> get_attr(b, ind)

(* The read head before each of the values and after the last, from the    *)
(* end of the header on (take_in, unpack_req_header).                      *)
Heads(b, types) ==
  LET head[i \in 1..(Len(types) + 1)] ==
        IF i = 1 THEN RPC_HEADER_SZ
        ELSE LET ind == head[i - 1]
             IN IF ind > Len(b) THEN ind ELSE ind + Extent(b, ind, types[i - 1])
  IN head

(* Mutant: bytes that are left over are not noticed.                       *)
okdone_ok(b, types) == Heads(b, types)[Len(types) + 1] <= Len(b)

okdone(b, types) == Heads(b, types)[Len(types) + 1] = Len(b)

GetAll(b, types) ==
  [i \in 1..Len(types) |-> get(b, Heads(b, types)[i], types[i])]

(* A header is read only from a PDU that has one whole.                    *)
HeaderOk(b) == Len(b) >= RPC_HEADER_SZ
unpack_req_header(b) ==
  [xid |-> unpack(b, 4), proc |-> unpack(b, 8), clt_nonce |-> unpack(b, 12),
   srv_nonce |-> unpack(b, 16), xid_rep |-> unpack(b, 20)]
unpack_reply_header(b) == [xid |-> unpack(b, 4), ret |-> unpack(b, 8)]
=============================================================================
