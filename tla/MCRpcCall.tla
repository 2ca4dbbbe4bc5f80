----------------------------- MODULE MCRpcCall -----------------------------
(* Calls for RpcCall: those of the lock and extent protocols, and the      *)
(* mismatched ones of rpctest.cc.  Bytes have four values, so an int has   *)
(* four base-4 digits.                                                     *)
EXTENDS RpcCall

Call(passed, args, taken, given, r, b, got, to) ==
  [passed |-> passed, args |-> args, taken |-> taken, given |-> given,
   r |-> r, b |-> b, got |-> got, to |-> to]

ull == "unsigned long long"
s == "string"

MCCalls == {
  \* acquire(lid, id, r), put(id, buf, r), getattr(id, attr)
  Call(<<ull, s>>, <<900, <<1, 2>> >>, <<ull, s>>, "int", 3, 2, "int", 2),
  Call(<<ull, s>>, <<70, <<3, 0, 1>> >>, <<ull, s>>, "int", -3, 0, "int", 4),
  Call(<<ull>>, <<65>>, <<ull>>, "attr", <<1, 60, 250, 7>>, 0, "attr", 2),
  \* the other types of marshall.h, and a string that the first allocation does
  \* not hold, nor twice of it
  Call(<<"bool", "char", "unsigned char", "short", "unsigned short", "int", "unsigned int">>,
       <<TRUE, -2, 3, -7, 14, -100, 200>>,
       <<"bool", "char", "unsigned char", "short", "unsigned short", "int", "unsigned int">>,
       s, <<3, 0, 1, 2, 3, 1, 1, 2, 0, 3, 1, 1, 1, 2, 3, 0, 1, 2, 3, 1, 2, 3, 1, 2, 3,
            1, 2, 3, 1, 2, 3, 0, 0, 0, 0, 3>>, 1, s, 2),
  \* too few arguments, too many arguments, a result of another type
  Call(<<s>>, <<<<1>>>>, <<s, s>>, s, <<1>>, 0, s, 2),
  Call(<<"int", "int">>, <<101, 102>>, <<"int">>, "int", 102, 0, "int", 2),
  Call(<<s, s>>, <<<<1>>, <<2>>>>, <<s, s>>, s, <<1, 2>>, 0, "int", 2),
  \* the bytes fit other types: an int read as an empty string, two ints as one ull
  Call(<<"int">>, <<0>>, <<s>>, "int", 1, 0, "unsigned int", 2),
  Call(<<"int", "int">>, <<3, 102>>, <<ull>>, "int", 3, 0, "int", 2) }
=============================================================================
