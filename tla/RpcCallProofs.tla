--------------------------- MODULE RpcCallProofs ---------------------------
(***************************************************************************)
(* What holds of a call for all arguments, timeouts and connections: the   *)
(* words that the marshaller writes are the words that are read, its       *)
(* buffer is never overrun, every deadline is exact and valid, and the     *)
(* request goes at most once over a channel.                               *)
(***************************************************************************)
EXTENDS RpcCall, TLAPS

(* rpc.cc, pack and unpack: with bytes of eight bits every int is read     *)
(* back as it was written, the negative ones too, wherever it is in the    *)
(* PDU.                                                                    *)
THEOREM WordExact ==
  ASSUME Base = 256, NEW x \in Int, -(128 * B3) <= x, x < 128 * B3,
         NEW b, NEW ind \in Nat,
         b[ind + 1] = pack(x)[1], b[ind + 2] = pack(x)[2],
         b[ind + 3] = pack(x)[3], b[ind + 4] = pack(x)[4]
  PROVE  unpack(b, ind) = x
<1>. DEFINE o3 == Octet(x, B3) o2 == Octet(x, B2) o1 == Octet(x, Base) o0 == Octet(x, 1)
<1>1. b[ind + 1] = o3 /\ b[ind + 2] = o2 /\ b[ind + 3] = o1 /\ b[ind + 4] = o0
  BY DEF pack
<1>2. /\ o3 \in 0..255 /\ o2 \in 0..255 /\ o1 \in 0..255 /\ o0 \in 0..255
      /\ o3 * B3 + o2 * B2 + o1 * Base + o0 = IF x >= 0 THEN x ELSE x + B4
  <2>. DEFINE q1 == x \div 256 q2 == x \div 65536 q3 == x \div 16777216
  <2>1. B2 = 65536 /\ B3 = 16777216 /\ B4 = 4294967296
    BY SMT DEF B2, B3, B4
  <2>2. o0 = x % 256 /\ o1 = q1 % 256 /\ o2 = q2 % 256 /\ o3 = q3 % 256
    BY <2>1, SMT DEF Octet
  <2>3. q1 \in Int /\ q2 \in Int /\ q3 \in Int
    BY SMT
  <2>4. q2 = q1 \div 256 /\ q3 = q2 \div 256
    BY SMT
  <2>5. q3 \in -128..127
    BY <2>1, SMT
  <2>. HIDE DEF q1, q2, q3, o0, o1, o2, o3
  <2>6. q3 >= 0 <=> x >= 0
    BY SMT DEF q3
  <2>7. o0 \in 0..255 /\ o1 \in 0..255 /\ o2 \in 0..255 /\ o3 \in 0..255
    BY <2>2, <2>3, SMT
  <2>8. x = 256 * q1 + o0
    BY <2>2, SMT DEF q1
  <2>9. q1 = 256 * q2 + o1 /\ q2 = 256 * q3 + o2
    BY <2>2, <2>3, <2>4, SMT
  <2>10. o3 = IF q3 >= 0 THEN q3 ELSE q3 + 256
    BY <2>2, <2>5, SMT
  <2>. QED
    BY <2>1, <2>3, <2>6, <2>7, <2>8, <2>9, <2>10, SMT
<1>. HIDE DEF o3, o2, o1, o0
<1>3. Byte4(b, ind) = o3 * B3 + o2 * B2 + o1 * Base + o0
  BY <1>1, <1>2, SMT DEF Byte4, Byte2, B2, B3
<1>. QED
  BY <1>2, <1>3, SMT DEF unpack, Signed, B4, B3, B2

(* marshall::rawbyte: n calls, n up to the capacity, double the allocation *)
(* at most once; here for the four bytes of a word.                        *)
THEOREM WordBytewise ==
  ASSUME NEW ind \in Nat, NEW capa \in Nat, ind <= capa, 4 <= capa
  PROVE  rawbyte(ind + 3, rawbyte(ind + 2, rawbyte(ind + 1, rawbyte(ind, capa))))
           = BytewiseCapacity(ind, capa, 4)
BY DEF rawbyte, BytewiseCapacity

-----------------------------------------------------------------------------
(* The values of the marshalled types.                                     *)
Integral == {"char", "unsigned char", "short", "unsigned short", "int",
             "unsigned int", "unsigned long long"}
IsValue(t, x) ==
  \/ t = "bool" /\ x \in BOOLEAN
  \/ t \in Integral /\ x \in Int
  \/ t = "string" /\ x \in Seq(Int)
  \/ t = "attr" /\ x \in [1..4 -> Int]

LEMMA OctetInt ==
  ASSUME NEW x \in Int, NEW p \in {1, Base, B2, B3}
  PROVE  Octet(x, p) \in Int
<1>1. p \in Nat \ {0}
  BY MarshallAssumption DEF B2, B3
<1>2. x \div p \in Int
  BY <1>1
<1>. QED
  BY <1>2, MarshallAssumption DEF Octet

LEMMA PackLength ==
  ASSUME NEW x \in Int
  PROVE  pack(x) \in Seq(Int) /\ Len(pack(x)) = 4
BY OctetInt DEF pack

LEMMA Concat ==
  ASSUME NEW a \in Seq(Int), NEW b \in Seq(Int)
  PROVE  a \o b \in Seq(Int) /\ Len(a \o b) = Len(a) + Len(b)
         /\ Len(a) \in Nat /\ Len(b) \in Nat
OBVIOUS

LEMMA PackPair ==
  ASSUME NEW x \in Int, NEW y \in Int
  PROVE  pack(x) \o pack(y) \in Seq(Int) /\ Len(pack(x) \o pack(y)) = 8
<1>. DEFINE a == pack(x) b == pack(y)
<1>1. a \in Seq(Int) /\ b \in Seq(Int)
  BY PackLength, Zenon
<1>2. Len(a) = 4 /\ Len(b) = 4
  BY PackLength, Zenon
<1>. HIDE DEF a, b
<1>3. a \o b \in Seq(Int) /\ Len(a \o b) = Len(a) + Len(b)
  BY <1>1, Concat, Zenon
<1>. QED
  BY <1>2, <1>3 DEF a, b

(* A string takes its length in bytes and a word, everything else at most  *)
(* sixteen bytes.                                                          *)
LEMMA PutLength ==
  ASSUME NEW t, NEW x, IsValue(t, x)
  PROVE  /\ t = "string" => Len(put(t, x)) = 4 + Len(x) /\ Len(x) \in Nat
         /\ t # "string" => Len(put(t, x)) \in 1..16
<1>1. CASE t = "bool"
  <2>1. put(t, x) = <<IF x THEN 1 ELSE 0>>
    BY <1>1, Zenon DEF put
  <2>. QED
    BY <1>1, <2>1
<1>2. CASE t = "string"
  <2>1. x \in Seq(Int) /\ Len(x) \in Int /\ Len(x) \in Nat
    BY <1>2 DEF IsValue, Integral
  <2>2. put(t, x) = pack(Len(x)) \o x
    BY <1>2, Zenon DEF put
  <2>. QED
    BY <1>2, <2>1, <2>2, PackLength, Concat, Zenon
<1>3. CASE t = "attr"
  <2>1. x[1] \in Int /\ x[2] \in Int /\ x[3] \in Int /\ x[4] \in Int
    BY <1>3 DEF IsValue, Integral
  <2>2. put(t, x) = pack(x[1]) \o pack(x[2]) \o pack(x[3]) \o pack(x[4])
    BY <1>3, Zenon DEF put, put_attr
  <2>. DEFINE s2 == pack(x[1]) \o pack(x[2])
  <2>3. s2 \in Seq(Int) /\ Len(s2) = 8
    BY <2>1, PackPair, ZenonT(60)
  <2>. DEFINE a3 == pack(x[3]) a4 == pack(x[4])
  <2>4. a3 \in Seq(Int) /\ Len(a3) = 4 /\ a4 \in Seq(Int) /\ Len(a4) = 4
    BY <2>1, PackLength, Zenon
  <2>5. Len((s2 \o a3) \o a4) = 16
    <3>. HIDE DEF s2, a3, a4
    <3>1. s2 \o a3 \in Seq(Int) /\ Len(s2 \o a3) = Len(s2) + Len(a3)
      BY <2>3, <2>4, Concat, Zenon
    <3>. DEFINE s3 == s2 \o a3
    <3>2. s3 \in Seq(Int) /\ Len(s3) = 12
      BY <2>3, <2>4, <3>1
    <3>. HIDE DEF s3
    <3>3. Len(s3 \o a4) = Len(s3) + Len(a4)
      BY <2>4, <3>2, Concat, Zenon
    <3>. QED
      BY <2>4, <3>2, <3>3 DEF s3
  <2>6. Len(put(t, x)) = 16
    BY <2>2, <2>5
  <2>. QED
    BY <1>3, <2>6
<1>4. CASE t \in {"char", "unsigned char"}
  <2>1. put(t, x) = <<Octet(x, 1)>>
    BY <1>4, Zenon DEF put
  <2>2. Len(put(t, x)) = 1
    BY <2>1
  <2>8. t # "string"
    BY <1>4, Zenon
  <2>9. Len(put(t, x)) \in 1..16
    BY <2>2
  <2>. QED
    BY <2>8, <2>9
<1>5. CASE t \in {"short", "unsigned short"}
  <2>1. put(t, x) = <<Octet(x, Base), Octet(x, 1)>>
    BY <1>5, Zenon DEF put, put_short
  <2>2. Len(put(t, x)) = 2
    BY <2>1
  <2>8. t # "string"
    BY <1>5, Zenon
  <2>9. Len(put(t, x)) \in 1..16
    BY <2>2, SMTT(60)
  <2>. QED
    BY <2>8, <2>9
<1>6. CASE t \in {"int", "unsigned int"}
  <2>1. put(t, x) = pack(x) /\ x \in Int
    BY <1>6, Zenon DEF put, IsValue, Integral
  <2>2. Len(put(t, x)) = 4
    BY <2>1, PackLength
  <2>8. t # "string"
    BY <1>6, Zenon
  <2>9. Len(put(t, x)) \in 1..16
    BY <2>2, SMTT(60)
  <2>. QED
    BY <2>8, <2>9
<1>7. CASE t = "unsigned long long"
  <2>1. put(t, x) = pack(x \div B4) \o pack(x) /\ x \in Int
    BY <1>7, Zenon DEF put, IsValue, Integral
  <2>2. B4 \in Nat \ {0}
    BY MarshallAssumption DEF B4, B2
  <2>3. x \div B4 \in Int
    BY <2>1, <2>2, SMTT(60)
  <2>4. Len(put(t, x)) = 8
    BY <2>1, <2>3, PackLength, PackPair, Zenon
  <2>8. t # "string"
    BY <1>7, Zenon
  <2>9. Len(put(t, x)) \in 1..16
    BY <2>4
  <2>. QED
    BY <2>8, <2>9
<1>. QED
  BY <1>1, <1>2, <1>3, <1>4, <1>5, <1>6, <1>7, ZenonT(60) DEF IsValue, Integral

(* marshall::rawbytes and rawbyte: whatever value is written next, an      *)
(* object whose bytes are within its allocation stays within it.  The      *)
(* capacity that rawbytes chooses is enough for a string of any length.    *)
THEOREM NeverOverrun ==
  ASSUME NEW m \in [ind : Nat, capa : Nat, fits : BOOLEAN],
         m.fits, m.ind <= m.capa, RPC_HEADER_SZ <= m.capa,
         NEW t, NEW x, IsValue(t, x)
  PROVE  LET n == Grown(m, t, x)
         IN n.fits /\ n.ind <= n.capa /\ m.capa <= n.capa /\ n.ind \in Nat /\ n.capa \in Nat
<1>. DEFINE n == Len(put(t, x))
            word == BytewiseCapacity(m.ind, m.capa, 4)
            capa == IF t = "string" THEN rawbytes(m.ind + 4, word, n - 4)
                    ELSE BytewiseCapacity(m.ind, m.capa, n)
<1>1. m.capa >= 24
  BY DEF RPC_HEADER_SZ, SizeWord
<1>2. word \in Nat /\ m.ind + 4 <= word /\ m.capa <= word
  BY <1>1 DEF BytewiseCapacity
<1>3. capa \in Nat /\ n \in Nat /\ m.ind + n <= capa /\ m.capa <= capa
  <2>1. CASE t = "string"
    <3>1. n \in Nat /\ n >= 4
      BY <2>1, PutLength
    <3>. HIDE DEF n, word
    <3>2. capa = rawbytes(m.ind + 4, word, n - 4)
      BY <2>1
    <3>. QED
      BY <1>2, <3>1, <3>2, SMTT(60) DEF rawbytes
  <2>2. CASE t # "string"
    <3>1. n \in 1..16
      BY <2>2, PutLength, SMTT(60)
    <3>. HIDE DEF n
    <3>2. capa = BytewiseCapacity(m.ind, m.capa, n)
      BY <2>2
    <3>. QED
      BY <1>1, <3>1, <3>2, SMTT(60) DEF BytewiseCapacity
  <2>. QED
    BY <2>1, <2>2, Zenon
<1>4. Grown(m, t, x) = Object(m.ind + n, capa, m.fits /\ m.ind + n <= capa)
  BY Zenon DEF Grown
<1>. HIDE DEF n, capa
<1>. QED
  BY <1>3, <1>4 DEF Object

-----------------------------------------------------------------------------
(* rpc.cc, add_timespec: a timeout of whole seconds, as all timeouts of    *)
(* the programs are, is added exactly and gives a deadline that            *)
(* pthread_cond_timedwait accepts.                                         *)
THEOREM DeadlineExact ==
  ASSUME NEW t \in Nat, NEW k \in Nat
  PROVE  LET a == add_timespec(clock_gettime(t), k * MsPerSec)
         IN /\ IsDeadline(a) /\ Instant(a) = t + k * NsPerSec
            /\ a \in [tv_sec : Nat, tv_nsec : Nat]
            /\ t >= NsPerSec => a.tv_sec # 0
<1>. DEFINE sec == t \div NsPerSec nsec == t % NsPerSec
<1>1. NsPerSec \in Nat \ {0}
  BY TimespecAssumption DEF NsPerSec
<1>2. /\ sec \in Nat /\ nsec \in 0..(NsPerSec - 1)
      /\ t = sec * NsPerSec + nsec
  BY <1>1
<1>3. (k * MsPerSec) \div MsPerSec = k /\ (k * MsPerSec) % MsPerSec = 0
  BY TimespecAssumption
<1>. HIDE DEF sec, nsec
<1>4. add_timespec(clock_gettime(t), k * MsPerSec) = timespec(sec + k, nsec)
  <2>1. clock_gettime(t) = timespec(sec, nsec)
    BY Zenon DEF clock_gettime, sec, nsec
  <2>. QED
    BY <1>1, <1>2, <1>3, <2>1, TimespecAssumption, SMTT(60) DEF add_timespec, timespec
<1>5. (sec + k) * NsPerSec = sec * NsPerSec + k * NsPerSec
  BY <1>1, <1>2
<1>6. t >= NsPerSec => sec # 0
  BY <1>1, <1>2
<1>. QED
  BY <1>1, <1>2, <1>4, <1>5, <1>6, SMTT(60) DEF IsDeadline, Instant, timespec

LEMMA CompareExact ==
  ASSUME NEW a \in [tv_sec : Nat, tv_nsec : Nat],
         NEW b \in [tv_sec : Nat, tv_nsec : Nat],
         IsDeadline(a), IsDeadline(b), ~(cmp_timespec(a, b) > 0)
  PROVE  Instant(a) <= Instant(b)
<1>1. NsPerSec \in Nat \ {0}
  BY TimespecAssumption DEF NsPerSec
<1>2. CASE a.tv_sec < b.tv_sec
  <2>1. (a.tv_sec + 1) * NsPerSec <= b.tv_sec * NsPerSec
    BY <1>1, <1>2
  <2>2. (a.tv_sec + 1) * NsPerSec = a.tv_sec * NsPerSec + NsPerSec
    BY <1>1
  <2>. QED
    BY <1>1, <2>1, <2>2, SMTT(60) DEF Instant, IsDeadline
<1>3. CASE a.tv_sec = b.tv_sec /\ a.tv_nsec <= b.tv_nsec
  BY <1>1, <1>3 DEF Instant
<1>. QED
  BY <1>2, <1>3 DEF cmp_timespec

-----------------------------------------------------------------------------
(* The timeout in nanoseconds, and the final deadline as it was set.       *)
Over == start + call.to * NsPerMs
Final == add_timespec(clock_gettime(start), call.to)

(* The caller's deadlines.  A final deadline with tv_sec = 0 has been      *)
(* waited for, or is being waited for.                                     *)
DeadlineInv ==
  /\ call \in Calls /\ now \in Nat /\ now >= NsPerSec
  /\ pc \in {"idle", "loop", "send", "wait", "end", "returned"}
  /\ pc # "idle" => /\ start \in Nat /\ start >= NsPerSec
                    /\ \E k \in Nat : curr_to = k * MsPerSec
  /\ pc \in {"loop", "send", "wait"} =>
       finaldeadline \in {Final, timespec(0, Final.tv_nsec)}
  /\ pc \in {"loop", "send"} /\ finaldeadline.tv_sec = 0 => now >= Over
  /\ pc = "wait" => /\ IsDeadline(nextdeadline) /\ Instant(nextdeadline) <= Over
                    /\ finaldeadline.tv_sec = 0 => Instant(nextdeadline) = Over
  /\ pc \in {"end", "returned"} /\ ~ca.done => now >= Over

(* The final deadline is exact: every call's timeout is of whole seconds.  *)
LEMMA WholeSeconds ==
  ASSUME NEW a \in Nat, a % MsPerSec = 0
  PROVE  \E k \in Nat : a = k * MsPerSec
<1>1. a = (a \div MsPerSec) * MsPerSec /\ a \div MsPerSec \in Nat
  BY TimespecAssumption, SMTT(60)
<1>. QED
  BY <1>1

LEMMA FinalExact ==
  ASSUME NEW c \in Calls, NEW t \in Nat, t >= NsPerSec
  PROVE  LET final == add_timespec(clock_gettime(t), c.to)
         IN /\ IsDeadline(final) /\ Instant(final) = t + c.to * NsPerMs
            /\ final \in [tv_sec : Nat, tv_nsec : Nat] /\ final.tv_sec # 0
            /\ t + c.to * NsPerMs \in Nat
<1>1. c.to \in Nat /\ c.to % MsPerSec = 0
  BY RpcCallAssumption
<1>2. PICK k \in Nat : c.to = k * MsPerSec
  BY <1>1, WholeSeconds, SMTT(60)
<1>3. c.to * NsPerMs = k * NsPerSec
  BY <1>2, TimespecAssumption DEF NsPerSec
<1>4. c.to * NsPerMs \in Nat
  BY <1>1, TimespecAssumption, SMTT(60)
<1>5. t + c.to * NsPerMs \in Nat
  BY <1>4
<1>6. LET final == add_timespec(clock_gettime(t), c.to)
      IN /\ IsDeadline(final) /\ Instant(final) = t + k * NsPerSec
         /\ final \in [tv_sec : Nat, tv_nsec : Nat] /\ final.tv_sec # 0
  BY <1>2, DeadlineExact, SMTT(60)
<1>. QED
  BY <1>3, <1>5, <1>6, SMTT(60)

LEMMA DeadlineStep == DeadlineInv /\ [Next]_vars => DeadlineInv'
<1>. SUFFICES ASSUME DeadlineInv, [Next]_vars PROVE DeadlineInv'
  OBVIOUS
<1>0. NsPerSec \in Nat \ {0}
  BY TimespecAssumption, SMTT(60) DEF NsPerSec
<1>a. call' = call
  BY Zenon DEF Next, CallStep, Prompt, ServerStep, rpcc_call, call1_connect, call1_send,
    call1_wait, call1_timeout, call1_done, call_m, rpcc_got_pdu, reg, dispatch, dispatch_reply, NoticeDead, Break,
    OtherCall, Tick, vars
<1>b. ASSUME UNCHANGED <<start>> PROVE Over' = Over /\ Final' = Final
  BY <1>a, <1>b DEF Over, Final
<1>1. CASE rpcc_call
  <2>1. /\ start' = now /\ pc' = "loop" /\ now' = now /\ curr_to' = to_min
        /\ finaldeadline' = Final'
    BY <1>1, <1>a DEF rpcc_call, Final
  <2>2. now \in Nat /\ now >= NsPerSec /\ call \in Calls
    BY Zenon DEF DeadlineInv
  <2>3. finaldeadline'.tv_sec # 0
    <3>1. call' \in Calls /\ start' \in Nat /\ start' >= NsPerSec
      BY <1>a, <2>1, <2>2, SMTT(60)
    <3>. QED
      BY <2>1, <3>1, FinalExact, SMTT(60) DEF Final
  <2>4. \E k \in Nat : curr_to' = k * MsPerSec
    BY <2>1, RpcCallAssumption, WholeSeconds, SMTT(60)
  <2>. QED
    BY <1>a, <2>1, <2>2, <2>3, <2>4, SMTT(60) DEF DeadlineInv
<1>2. CASE call1_wait
  <2>1. /\ pc = "loop" /\ start' = start /\ now' = now /\ curr_to' = curr_to
        /\ ca' = ca
    BY <1>2 DEF call1_wait
  <2>2. Over' = Over /\ Final' = Final
    BY <1>b, <2>1
  <2>3. /\ call \in Calls /\ start \in Nat /\ start >= NsPerSec /\ now \in Nat
        /\ finaldeadline \in {Final, timespec(0, Final.tv_nsec)}
    BY <2>1 DEF DeadlineInv
  <2>4. CASE finaldeadline.tv_sec = 0
    <3>1. pc' = "end"
      BY <1>2, <2>4 DEF call1_wait
    <3>. QED
      BY <1>a, <2>1, <2>2, <2>4, <3>1, SMTT(60) DEF DeadlineInv
  <2>5. CASE finaldeadline.tv_sec # 0
    <3>. DEFINE next == add_timespec(clock_gettime(now), curr_to)
    <3>1. pc' = "wait" /\ SetDeadline
      BY <1>2, <2>5 DEF call1_wait
    <3>2. finaldeadline = Final
      BY <2>3, <2>5 DEF timespec
    <3>3. IsDeadline(next) /\ next \in [tv_sec : Nat, tv_nsec : Nat]
      BY <2>1, <2>3, DeadlineExact, SMTT(60) DEF DeadlineInv
    <3>. HIDE DEF next
    <3>4. CASE cmp_timespec(next, finaldeadline) > 0
      <4>1. nextdeadline' = Final /\ finaldeadline' = timespec(0, Final.tv_nsec)
        BY <3>1, <3>2, <3>4, SMTT(60) DEF SetDeadline, next
      <4>2. IsDeadline(Final) /\ Instant(Final) = Over /\ Over \in Nat
        BY <2>3, FinalExact, SMTT(60) DEF Final, Over
      <4>. QED
        BY <1>a, <2>1, <2>2, <3>1, <4>1, <4>2, SMTT(60) DEF DeadlineInv
    <3>5. CASE ~(cmp_timespec(next, finaldeadline) > 0)
      <4>1. nextdeadline' = next /\ finaldeadline' = Final
        BY <3>1, <3>2, <3>5, SMTT(60) DEF SetDeadline, next
      <4>2. Instant(next) <= Over
        <5>1. /\ IsDeadline(Final) /\ Instant(Final) = Over
              /\ Final \in [tv_sec : Nat, tv_nsec : Nat]
          BY <2>3, FinalExact DEF Final, Over
        <5>. QED
          BY <3>2, <3>3, <3>5, <5>1, CompareExact, SMTT(60)
      <4>3. Final.tv_sec # 0
        BY <2>5, <3>2, SMTT(60)
      <4>. QED
        BY <1>a, <2>1, <2>2, <3>1, <3>3, <4>1, <4>2, <4>3, SMTT(60) DEF DeadlineInv
    <3>. QED
      BY <3>4, <3>5
  <2>. QED
    BY <2>4, <2>5
<1>3. CASE call1_timeout
  <2>1. /\ pc = "wait" /\ pc' = "loop" /\ now >= Instant(nextdeadline)
        /\ curr_to' = 2 * curr_to
        /\ UNCHANGED <<now, start, finaldeadline, nextdeadline, ca>>
    BY <1>3 DEF call1_timeout, TimedOut
  <2>2. \E k \in Nat : curr_to' = k * MsPerSec
    <3>1. PICK k \in Nat : curr_to = k * MsPerSec
      BY <2>1, SMTT(60) DEF DeadlineInv
    <3>2. curr_to' = (2 * k) * MsPerSec
      BY <2>1, <3>1, TimespecAssumption, SMTT(60)
    <3>. QED
      BY <3>2
  <2>. QED
    BY <1>a, <1>b, <2>1, <2>2, SMTT(60) DEF DeadlineInv
<1>4. CASE call1_done
  BY <1>4, <1>a, <1>b, SMTT(60) DEF DeadlineInv, call1_done
<1>9. CASE call1_connect \/ call1_send
  <2>1. /\ pc \in {"loop", "send"} /\ pc' \in {"loop", "send"}
        /\ UNCHANGED <<now, start, curr_to, finaldeadline>>
    BY <1>9, Zenon DEF call1_connect, call1_send
  <2>. QED
    BY <1>a, <1>b, <2>1, SMTT(60) DEF DeadlineInv
<1>5. CASE call_m
  BY <1>5, <1>a, <1>b, SMTT(60) DEF DeadlineInv, call_m
<1>6. CASE Tick
  <2>1. now' = now + 1 /\ UNCHANGED <<caller, ca>>
    BY <1>6 DEF Tick
  <2>2. Over' = Over /\ Final' = Final /\ (pc # "idle" => Over \in Nat)
    BY <1>b, <2>1, FinalExact, SMTT(60) DEF caller, DeadlineInv, Over
  <2>. QED
    BY <1>0, <1>a, <2>1, <2>2, SMTT(60) DEF DeadlineInv, caller
<1>7. CASE \E p \in wire : rpcc_got_pdu(p)
  <2>1. UNCHANGED <<now, caller>> /\ (ca' = ca \/ ca'.done)
    BY <1>7, SMTT(60) DEF rpcc_got_pdu
  <2>. QED
    BY <1>a, <1>b, <2>1, SMTT(60) DEF DeadlineInv, caller
<1>8. CASE \/ reg \/ dispatch_reply \/ NoticeDead \/ Break \/ OtherCall \/ UNCHANGED vars
           \/ \E p \in wire : dispatch(p)
  <2>1. UNCHANGED <<now, caller, ca>>
    BY <1>8, Zenon DEF reg, dispatch_reply, NoticeDead, Break, OtherCall, vars, dispatch
  <2>. QED
    BY <1>a, <1>b, <2>1, SMTT(60) DEF DeadlineInv, caller
<1>. QED
  BY <1>1, <1>2, <1>3, <1>4, <1>5, <1>6, <1>7, <1>8, <1>9, SMTT(60)
  DEF Next, CallStep, Prompt, ServerStep

(* call1: whatever the timeout and the moment of the call, the caller      *)
(* never waits for a deadline that pthread_cond_timedwait refuses or that  *)
(* is past the timeout, and gives up only when the timeout is over.        *)
THEOREM DeadlinesAlwaysKept == Spec => []DeadlinesKept
<1>1. Init => DeadlineInv
  BY TimespecAssumption DEF Init, DeadlineInv, NsPerSec
<1>2. DeadlineInv => DeadlinesKept
  BY Zenon DEF DeadlineInv, DeadlinesKept, Over
<1>. QED
  BY <1>1, <1>2, DeadlineStep, PTL DEF Spec

-----------------------------------------------------------------------------
(* The shared connection is the newest or none; a caller that is to        *)
(* connect again has lost its channel, and one that is about to send has   *)
(* not used it if it is live; and no channel newer than the caller's has   *)
(* carried the request.                                                    *)
OnceInv ==
  /\ made \in 0..MaxConn /\ chan_ \in {0, made} /\ ch \in 0..made
  /\ dead \subseteq 1..made
  /\ sends \in [Conn -> {0, 1}]
  /\ \A c \in Conn : c > ch => sends[c] = 0
  /\ transmit /\ pc # "send" => ~Live(ch)
  /\ pc = "send" /\ Live(ch) => sends[ch] = 0
  /\ pc = "idle" => ch = 0

LEMMA OnceInit == Init => OnceInv
BY RpcCallAssumption DEF Init, OnceInv, Live, Conn

LEMMA OnceStep == OnceInv /\ [Next]_vars => OnceInv'
<1>. SUFFICES ASSUME OnceInv, [Next]_vars PROVE OnceInv'
  OBVIOUS
<1>. USE RpcCallAssumption
<1>1. CASE rpcc_call
  BY <1>1, Zenon DEF OnceInv, rpcc_call, channels, Live
<1>2. CASE call1_connect
  <2>1. /\ get_refconn /\ transmit /\ pc = "loop" /\ pc' = "send"
        /\ UNCHANGED <<transmit, sends>>
    BY <1>2, Zenon DEF call1_connect
  <2>2. UNCHANGED <<dead>>
    BY <2>1, Zenon DEF get_refconn, channels
  <2>3. ~Live(ch)
    BY <2>1, SMTT(60) DEF OnceInv
  <2>4. /\ made' \in 0..MaxConn /\ made <= made' /\ chan_' \in {0, made'}
        /\ ch' \in 0..made' /\ ch <= ch'
        /\ Live(ch)' => ch < ch' /\ ch' \in Conn
    BY <2>1, <2>2, <2>3, SMTT(60) DEF OnceInv, get_refconn, channels, Live, Conn
  <2>. QED
    BY <2>1, <2>2, <2>4, SMTT(60) DEF OnceInv, Live, Conn
<1>a. CASE call1_send
  <2>1. /\ pc = "send" /\ pc' = "loop" /\ ~transmit'
        /\ UNCHANGED <<ch, chan_, dead, made>>
    BY <1>a, Zenon DEF call1_send, channels
  <2>2. CASE Live(ch)
    <3>1. sends' = [sends EXCEPT ![ch] = @ + 1]
      BY <1>a, <2>2, Zenon DEF call1_send
    <3>2. sends[ch] = 0 /\ ch \in Conn
      BY <2>1, <2>2, SMTT(60) DEF OnceInv, Live, Conn
    <3>. QED
      BY <2>1, <3>1, <3>2, SMTT(60) DEF OnceInv, Live, Conn
  <2>3. CASE ~Live(ch)
    <3>1. sends' = sends
      BY <1>a, <2>3, Zenon DEF call1_send
    <3>. QED
      BY <2>1, <3>1, SMTT(60) DEF OnceInv, Live, Conn
  <2>. QED
    BY <2>2, <2>3, Zenon
<1>b. CASE call1_wait
  <2>1. /\ pc = "loop" /\ pc' \in {"end", "wait"}
        /\ UNCHANGED <<transmit, ch, chan_, dead, made, sends>>
    BY <1>b, Zenon DEF call1_wait, channels
  <2>. QED
    BY <2>1, SMTT(60) DEF OnceInv, Live, Conn
<1>3. CASE call1_timeout
  BY <1>3, ZenonT(60) DEF OnceInv, call1_timeout, Resend, channels, Live
<1>4. CASE call1_done
  BY <1>4, Zenon DEF OnceInv, call1_done, channels, Live
<1>5. CASE call_m
  BY <1>5 DEF OnceInv, call_m, channels, Live
<1>6. CASE Break
  BY <1>6, SMTT(60) DEF OnceInv, Break, caller, Live
<1>7. CASE OtherCall
  BY <1>7, SMTT(60) DEF OnceInv, OtherCall, caller, Live
<1>8. CASE reg \/ Tick \/ dispatch_reply \/ NoticeDead \/ UNCHANGED vars
  <2>1. UNCHANGED <<caller, channels, sends>>
    BY <1>8, SMTT(60) DEF reg, Tick, dispatch_reply, NoticeDead, vars
  <2>. QED
    BY <2>1, SMTT(60) DEF OnceInv, caller, channels, Live
<1>9. CASE \E p \in wire : dispatch(p) \/ rpcc_got_pdu(p)
  <2>1. UNCHANGED <<caller, channels, sends>>
    BY <1>9, Zenon DEF dispatch, rpcc_got_pdu
  <2>. QED
    BY <2>1, Zenon DEF OnceInv, caller, channels, Live
<1>. QED
  BY <1>1, <1>2, <1>3, <1>4, <1>5, <1>6, <1>7, <1>8, <1>9, <1>a, <1>b, SMTT(60)
  DEF Next, CallStep, Prompt, ServerStep

(* call1, "only send once on a given channel": for any number of           *)
(* connections, waits and timeouts, no channel carries the request twice.  *)
THEOREM SentOnce == Spec => []OncePerChannel
<1>1. OnceInv => OncePerChannel
  BY DEF OnceInv, OncePerChannel
<1>. QED
  BY <1>1, OnceInit, OnceStep, PTL DEF Spec
=============================================================================
