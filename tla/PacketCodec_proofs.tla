------------------------- MODULE PacketCodec_proofs -------------------------
(***************************************************************************)
(* For every set of threads, every number of packets and every sequence of *)
(* packet lengths, the two ends of a connection stay in step, and each     *)
(* direction is a pipe.                                                    *)
(*                                                                         *)
(* Outbound, the argument is that the frames on the wire carry the IVs     *)
(* from the game client's up to the server's.  Inbound, it is that the     *)
(* bytes in the buffer and on the net, taken together, are a stretch of    *)
(* what the game client sent that starts where the decoder stands and ends *)
(* with a whole packet.                                                    *)
(*                                                                         *)
(* The second part shows that every step of the connection is a step of    *)
(* PacketPipe or none, once for each direction.  Of each thread, those     *)
(* shown, those on the wire and those in the loop's queue are its packets  *)
(* in the order in which it announced them, and while the channel is open  *)
(* none of them is missing.                                                *)
(*                                                                         *)
(* The third part is about what is done to the bytes of one packet.        *)
(***************************************************************************)
EXTENDS MCPacketCodec, SequenceTheorems, WellFoundedInduction, TLAPS

\* Before the hello nothing is under way.
Fresh == client = "new" =>
    wire = <<>> /\ tasks = <<>> /\ sendIv = 0 /\ peerIv = Plain /\ ~ peerLost

\* While the session lasts the wire carries consecutive IVs.
WireInStep == client = "set" =>
    /\ ~ peerLost
    /\ peerIv = sendIv - Len(wire)
    /\ \A j \in 1 .. Len(wire) : wire[j].iv = peerIv + j - 1

OutInv == Fresh /\ WireInStep /\ PeerInStep

-----------------------------------------------------------------------------
Stream == buffer \o net

\* The byte b is the p-th of packet n.
Is(b, n, p) == b.nr = n /\ b.pos = p

\* A byte is followed by the rest of its packet, and that by the next packet.
Follows(b, k, c) ==
    /\ b.pos + k <= 4 + Size[b.nr] => Is(c, b.nr, b.pos + k)
    /\ b.pos + k = 5 + Size[b.nr] => Is(c, b.nr + 1, 1)

Runs(str) == \A i \in 1 .. Len(str) : \A k \in 0 .. Len(str) - i :
    Follows(str[i], k, str[i + k])

\* The first byte is the one the decoder waits for.
Starts(str, iv, length, sent) ==
    IF str = <<>> THEN length = -1 /\ iv = sent
    ELSE Is(str[1], iv + 1, IF length = -1 THEN 1 ELSE 5)

\* The last byte is the last of the last packet sent.
Ends(str, sent) ==
    str # <<>> => Is(str[Len(str)], sent, 4 + Size[sent])

\* The length that the decoder remembers is the one of the packet it waits for.
LengthKnown == packetlength # -1 =>
    recvIv < Len(Size) /\ packetlength = Size[recvIv + 1]

InInv ==
    /\ Runs(Stream) /\ Starts(Stream, recvIv, packetlength, requests) /\ Ends(Stream, requests)
    /\ LengthKnown
    /\ received = [i \in 1 .. recvIv |-> i]
    /\ NoneRejected

IInv == TypeOK /\ OutInv /\ InInv

-----------------------------------------------------------------------------
\* What is left of a sequence after its first n elements.
LEMMA DropIsRest ==
  ASSUME NEW S, NEW s \in Seq(S), NEW n \in 0 .. Len(s)
  PROVE  /\ Drop(s, n) \in Seq(S) /\ Len(Drop(s, n)) = Len(s) - n
         /\ \A i \in 1 .. Len(s) - n : Drop(s, n)[i] = s[n + i]
<1>1. Len(s) \in Nat /\ \A i \in 1 .. Len(s) : s[i] \in S
  BY LenProperties, ElementOfSeq
<1>2. \A i \in n + 1 .. Len(s) : s[i] \in S
  BY <1>1
<1>3. /\ Drop(s, n) \in Seq(S)
      /\ Len(Drop(s, n)) = IF n + 1 <= Len(s) THEN Len(s) - (n + 1) + 1 ELSE 0
      /\ \A i \in 1 .. Len(s) - (n + 1) + 1 : Drop(s, n)[i] = s[n + 1 + i - 1]
  BY <1>1, <1>2, SubSeqProperties DEF Drop
<1> QED
  BY <1>1, <1>3

\* The first n elements of a sequence.
LEMMA Prefix ==
  ASSUME NEW S, NEW s \in Seq(S), NEW n \in 0 .. Len(s)
  PROVE  /\ SubSeq(s, 1, n) \in Seq(S) /\ Len(SubSeq(s, 1, n)) = n
         /\ \A i \in 1 .. n : SubSeq(s, 1, n)[i] = s[i]
<1>1. Len(s) \in Nat /\ \A i \in 1 .. n : s[i] \in S
  BY LenProperties, ElementOfSeq
<1>2. /\ SubSeq(s, 1, n) \in Seq(S)
      /\ Len(SubSeq(s, 1, n)) = IF 1 <= n THEN n - 1 + 1 ELSE 0
      /\ \A i \in 1 .. n - 1 + 1 : SubSeq(s, 1, n)[i] = s[1 + i - 1]
  BY <1>1, SubSeqProperties
<1> QED
  BY <1>1, <1>2

\* Dropping from the buffer drops from the stream.
LEMMA DropOfConcat ==
  ASSUME NEW S, NEW s \in Seq(S), NEW t \in Seq(S), NEW n \in 0 .. Len(s)
  PROVE  Drop(s, n) \o t = Drop(s \o t, n)
<1> DEFINE c == s \o t
           d == Drop(s, n)
           left == d \o t
           right == Drop(c, n)
<1>1. /\ c \in Seq(S) /\ Len(c) = Len(s) + Len(t)
      /\ \A i \in 1 .. Len(s) + Len(t) : c[i] = IF i <= Len(s) THEN s[i] ELSE t[i - Len(s)]
  BY ConcatProperties
<1>2. Len(s) \in Nat /\ Len(t) \in Nat
  BY LenProperties
<1>3. /\ d \in Seq(S) /\ Len(d) = Len(s) - n
      /\ \A i \in 1 .. Len(s) - n : d[i] = s[n + i]
  BY DropIsRest
<1> HIDE DEF c, d
<1>4. n \in 0 .. Len(c)
  <2>1. Len(c) = Len(s) + Len(t)
    BY <1>1
  <2> QED
    BY <2>1, <1>2
<1>5. /\ right \in Seq(S) /\ Len(right) = Len(c) - n
      /\ \A i \in 1 .. Len(c) - n : right[i] = c[n + i]
  <2>1. c \in Seq(S)
    BY <1>1
  <2> QED
    BY <2>1, <1>4, DropIsRest, SMTT(20)
<1>6. /\ left \in Seq(S) /\ Len(left) = Len(d) + Len(t)
      /\ \A i \in 1 .. Len(d) + Len(t) : left[i] = IF i <= Len(d) THEN d[i] ELSE t[i - Len(d)]
  BY <1>3, ConcatProperties
<1> HIDE DEF left, right
<1>7. Len(left) = Len(right)
  BY <1>1, <1>2, <1>3, <1>5, <1>6
<1>8. ASSUME NEW i \in 1 .. Len(left)
      PROVE  left[i] = right[i]
  <2>1. i \in 1 .. Len(d) + Len(t) /\ i \in 1 .. Len(c) - n /\ n + i \in 1 .. Len(s) + Len(t)
    BY <1>1, <1>2, <1>3, <1>6
  <2>2. right[i] = IF n + i <= Len(s) THEN s[n + i] ELSE t[n + i - Len(s)]
    BY <2>1, <1>1, <1>5, SMTT(20)
  <2>3. CASE n + i <= Len(s)
    <3>1. i \in 1 .. Len(s) - n /\ i <= Len(d)
      BY <2>3, <1>2, <1>3
    <3> QED
      BY <3>1, <2>1, <2>2, <2>3, <1>3, <1>6
  <2>4. CASE ~ (n + i <= Len(s))
    <3>1. ~ (i <= Len(d)) /\ i - Len(d) = n + i - Len(s)
      BY <2>4, <1>2, <1>3
    <3> QED
      BY <3>1, <2>1, <2>2, <2>4, <1>6
  <2> QED
    BY <2>3, <2>4
<1>9. left = right
  BY <1>5, <1>6, <1>7, <1>8, SeqEqual
<1> QED
  BY <1>9 DEF left, right, c, d

\* Moving bytes from the net to the buffer leaves the stream as it is.
LEMMA MoveOfConcat ==
  ASSUME NEW S, NEW s \in Seq(S), NEW t \in Seq(S), NEW n \in 0 .. Len(t)
  PROVE  (s \o SubSeq(t, 1, n)) \o Drop(t, n) = s \o t
<1> DEFINE p == SubSeq(t, 1, n)
           r == Drop(t, n)
<1>1. Len(t) \in Nat
  BY LenProperties
<1>2. p \in Seq(S) /\ r \in Seq(S)
  BY Prefix, DropIsRest
<1>3. p \o SubSeq(t, n + 1, Len(t)) = SubSeq(t, 1, Len(t))
  <2>1. 1 \in 1 .. Len(t) + 1 /\ n \in (1 - 1) .. Len(t) /\ Len(t) \in n .. Len(t)
    BY <1>1
  <2> QED
    BY <2>1, ConcatAdjacentSubSeq, Zenon
<1>4. p \o r = t
  BY <1>3, SubSeqFull DEF Drop
<1> HIDE DEF p, r
<1>5. (s \o p) \o r = s \o (p \o r)
  BY <1>2, ConcatAssociative, SMTT(30)
<1>6. (s \o p) \o r = s \o t
  BY <1>4, <1>5
<1> QED
  BY <1>6 DEF p, r

-----------------------------------------------------------------------------
(* The bytes of packets                                                     *)

\* Requests are numbered from 1 and their lengths are numbers.
LEMMA Sizes == Len(Size) \in Nat /\ DOMAIN Size = 1 .. Len(Size) /\ \A n \in DOMAIN Size : Size[n] \in Nat
BY CodecAssumption, LenProperties, ElementOfSeq

\* A header is four bytes.
LEMMA HeaderBytes ==
  ASSUME NEW n \in DOMAIN Size
  PROVE  /\ HeaderOf(n) \in Seq(WireByte) /\ Len(HeaderOf(n)) = 4
         /\ \A i \in 1 .. 4 : Is(HeaderOf(n)[i], n, i)
<1>1. HeaderOf(n) = [i \in 1 .. 4 |-> [nr |-> n, pos |-> i]]
  BY DEF HeaderOf, Bytes
<1> QED
  BY <1>1 DEF WireByte, Is

\* A body follows its header and is as long as Size says.
LEMMA BodyBytes ==
  ASSUME NEW n \in DOMAIN Size
  PROVE  /\ BodyOf(n) \in Seq(WireByte) /\ Len(BodyOf(n)) = Size[n]
         /\ \A i \in 1 .. Size[n] : Is(BodyOf(n)[i], n, 4 + i)
<1>1. Size[n] \in Nat
  BY Sizes
<1>2. BodyOf(n) = [i \in 1 .. Size[n] |-> [nr |-> n, pos |-> 4 + i]]
  BY <1>1 DEF BodyOf, Bytes
<1> DEFINE f == [i \in 1 .. Size[n] |-> [nr |-> n, pos |-> 4 + i]]
<1>3. \A i \in 1 .. Size[n] : f[i] \in WireByte /\ Is(f[i], n, 4 + i)
  BY <1>1 DEF WireByte, Is
<1>4. f \in Seq(WireByte) /\ Len(f) = Size[n]
  <2>1. f \in [1 .. Size[n] -> WireByte]
    BY <1>3
  <2> HIDE DEF f
  <2> QED
    BY <1>1, <2>1
<1> QED
  BY <1>2, <1>3, <1>4

\* What runs on still does after its first bytes have been taken.
LEMMA RunsDrop ==
  ASSUME NEW str \in Seq(WireByte), Runs(str), NEW n \in 0 .. Len(str)
  PROVE  Runs(Drop(str, n))
<1> DEFINE d == Drop(str, n)
<1>1. Len(str) \in Nat /\ Len(d) = Len(str) - n /\ \A i \in 1 .. Len(str) - n : d[i] = str[n + i]
  BY LenProperties, DropIsRest
<1> HIDE DEF d
<1>2. ASSUME NEW i \in 1 .. Len(d), NEW k \in 0 .. Len(d) - i
      PROVE  /\ n + i \in 1 .. Len(str) /\ k \in 0 .. Len(str) - (n + i)
             /\ d[i] = str[n + i] /\ d[i + k] = str[(n + i) + k]
  <2>1. i \in 1 .. Len(str) - n /\ i + k \in 1 .. Len(str) - n
    BY <1>1
  <2>2. n + (i + k) = (n + i) + k
    BY <1>1
  <2> QED
    BY <1>1, <2>1, <2>2
<1>3. Runs(d)
  BY <1>2 DEF Runs
<1> QED
  BY <1>3 DEF d

\* Beyond the last byte, k places from the i-th: it ends its packet there or before.
LEMMA BeyondLast ==
  ASSUME NEW p \in Nat, NEW s \in Nat, NEW l \in Nat, NEW i \in 1 .. l, NEW k \in Nat,
         ~ (k <= l - i)
  PROVE  /\ p + (l - i) = 4 + s => ~ (p + k <= 4 + s) /\ (p + k = 5 + s => (i + k) - l = 1)
         /\ ~ (p + (l - i) <= 4 + s) => ~ (p + k <= 4 + s) /\ p + k # 5 + s
OBVIOUS

\* A packet sent after the last one prolongs the run.
LEMMA RunsAppend ==
  ASSUME NEW str \in Seq(WireByte), Runs(str),
         NEW sent \in 0 .. Len(Size), sent < Len(Size), Ends(str, sent),
         NEW long, long = str \o (HeaderOf(sent + 1) \o BodyOf(sent + 1))
  PROVE  /\ long \in Seq(WireByte) /\ Len(long) = Len(str) + 4 + Size[sent + 1]
         /\ Runs(long) /\ Ends(long, sent + 1)
         /\ str = <<>> => Is(long[1], sent + 1, 1)
         /\ str # <<>> => long[1] = str[1]
<1> DEFINE n == sent + 1
           m == Size[n]
           new == HeaderOf(n) \o BodyOf(n)
           l == Len(str)
<1>1. n \in DOMAIN Size /\ m \in Nat /\ l \in Nat
  BY Sizes, LenProperties
<1>2. /\ new \in Seq(WireByte) /\ Len(new) = 4 + m
      /\ \A i \in 1 .. 4 + m : Is(new[i], n, i)
  <2> DEFINE h == HeaderOf(n)
             b == BodyOf(n)
  <2>1. /\ h \in Seq(WireByte) /\ Len(h) = 4
        /\ \A i \in 1 .. 4 : Is(h[i], n, i)
    BY <1>1, HeaderBytes
  <2>2. /\ b \in Seq(WireByte) /\ Len(b) = m
        /\ \A i \in 1 .. m : Is(b[i], n, 4 + i)
    BY <1>1, BodyBytes
  <2> HIDE DEF h, b, n, m
  <2>3. /\ h \o b \in Seq(WireByte) /\ Len(h \o b) = Len(h) + Len(b)
        /\ \A i \in 1 .. Len(h) + Len(b) : (h \o b)[i] = IF i <= Len(h) THEN h[i] ELSE b[i - Len(h)]
    BY <2>1, <2>2, ConcatProperties
  <2>4. ASSUME NEW i \in 1 .. 4 + m
        PROVE  Is((h \o b)[i], n, i)
    <3>1. CASE i <= 4
      BY <3>1, <2>1, <2>2, <2>3, <1>1
    <3>2. CASE ~ (i <= 4)
      <4>1. i - 4 \in 1 .. m /\ 4 + (i - 4) = i
        BY <3>2, <1>1
      <4> QED
        BY <4>1, <3>2, <2>1, <2>2, <2>3, <1>1
    <3> QED
      BY <3>1, <3>2
  <2> QED
    BY <2>1, <2>2, <2>3, <2>4, <1>1 DEF h, b
<1> HIDE DEF new, m
<1>3. /\ long \in Seq(WireByte) /\ Len(long) = l + 4 + m
      /\ \A i \in 1 .. l + 4 + m : long[i] = IF i <= l THEN str[i] ELSE new[i - l]
  <2>1. long = str \o new
    BY DEF new
  <2>2. /\ str \o new \in Seq(WireByte) /\ Len(str \o new) = l + Len(new)
        /\ \A i \in 1 .. l + Len(new) : (str \o new)[i] = IF i <= l THEN str[i] ELSE new[i - l]
    BY <1>2, ConcatProperties
  <2>3. l + Len(new) = l + 4 + m
    BY <1>1, <1>2
  <2> HIDE DEF l
  <2> QED
    BY <2>1, <2>2, <2>3
<1>4. ASSUME NEW i \in l + 1 .. l + 4 + m
      PROVE  Is(long[i], n, i - l)
  <2>1. i - l \in 1 .. 4 + m /\ i \in 1 .. l + 4 + m /\ ~ (i <= l)
    BY <1>1
  <2> QED
    BY <2>1, <1>2, <1>3
<1>5. ASSUME NEW i \in 1 .. l, NEW k \in 0 .. (l + 4 + m) - i
      PROVE  Follows(long[i], k, long[i + k])
  <2> DEFINE p == str[i].pos
             q == str[i].nr
             s == Size[q]
  <2>1. long[i] = str[i] /\ str[i] \in WireByte
    BY <1>1, <1>3, ElementOfSeq
  <2>2. p \in Nat \ {0} /\ q \in DOMAIN Size /\ s \in Nat
    BY <2>1, Sizes DEF WireByte
  <2> HIDE DEF s
  <2>3. CASE k <= l - i
    <3>1. k \in 0 .. l - i /\ i + k \in 1 .. l /\ i + k \in 1 .. l + 4 + m
      BY <2>3, <1>1
    <3>2. long[i + k] = str[i + k] /\ Follows(str[i], k, str[i + k])
      BY <3>1, <1>1, <1>3 DEF Runs
    <3> QED
      BY <3>2, <2>1
  <2>4. CASE ~ (k <= l - i)
    <3>1. l - i \in 0 .. l - i /\ i + (l - i) = l /\ str # <<>>
      BY <1>1, EmptySeq
    <3>2. Is(str[l], sent, 4 + Size[sent]) /\ Follows(str[i], l - i, str[l])
      BY <3>1 DEF Ends, Runs
    <3>3. i + k \in l + 1 .. l + 4 + m
      BY <2>4, <1>1
    <3>4. Is(long[i + k], n, (i + k) - l)
      <4> DEFINE e == i + k
      <4> HIDE DEF e
      <4>1. Is(long[e], n, e - l)
        BY <3>3, <1>4 DEF e
      <4> QED
        BY <4>1 DEF e
    <3>7. /\ p + (l - i) = 4 + s => ~ (p + k <= 4 + s) /\ (p + k = 5 + s => (i + k) - l = 1)
          /\ ~ (p + (l - i) <= 4 + s) => ~ (p + k <= 4 + s) /\ p + k # 5 + s
      <4>1. p \in Nat /\ k \in Nat
        BY <2>2, <1>1
      <4> HIDE DEF p, l
      <4> QED
        BY <4>1, <2>2, <2>4, <1>1, BeyondLast
    <3>5. CASE p + (l - i) <= 4 + s
      <4>1. q = sent /\ p + (l - i) = 4 + Size[sent]
        BY <3>2, <3>5 DEF Follows, Is, s
      <4>2. p + (l - i) = 4 + s
        BY <4>1 DEF s
      <4>3. ~ (p + k <= 4 + s) /\ (p + k = 5 + s => (i + k) - l = 1)
        BY <4>2, <3>7
      <4>4. p + k = 5 + s => Is(long[i + k], q + 1, 1)
        BY <4>1, <4>3, <3>4
      <4> QED
        BY <4>3, <4>4, <2>1 DEF Follows, s
    <3>6. CASE ~ (p + (l - i) <= 4 + s)
      <4>1. ~ (p + k <= 4 + s) /\ p + k # 5 + s
        BY <3>6, <3>7
      <4> QED
        BY <4>1, <2>1 DEF Follows, s
    <3> QED
      BY <3>5, <3>6
  <2> QED
    BY <2>3, <2>4
<1>6. ASSUME NEW i \in l + 1 .. l + 4 + m, NEW k \in 0 .. (l + 4 + m) - i
      PROVE  Follows(long[i], k, long[i + k])
  <2>1. i + k \in l + 1 .. l + 4 + m
    BY <1>1
  <2> DEFINE e == i + k
  <2> HIDE DEF e
  <2>2. Is(long[i], n, i - l) /\ Is(long[e], n, e - l)
    BY <2>1, <1>4 DEF e
  <2>3. (i + k) - l = (i - l) + k /\ (i - l) + k # 5 + m
    BY <1>1
  <2>4. Size[n] = m
    BY DEF m
  <2> HIDE DEF n
  <2> QED
    BY <2>2, <2>3, <2>4 DEF Follows, Is, e
<1>7. Runs(long)
  <2>1. Len(long) = l + 4 + m /\ \A i \in 1 .. l + 4 + m : i \in 1 .. l \/ i \in l + 1 .. l + 4 + m
    BY <1>1, <1>3
  <2>2. ASSUME NEW i \in 1 .. l + 4 + m, NEW k \in 0 .. (l + 4 + m) - i
        PROVE  Follows(long[i], k, long[i + k])
    BY <2>1, <1>5, <1>6
  <2> HIDE DEF l
  <2>3. SUFFICES ASSUME NEW i \in 1 .. Len(long), NEW k \in 0 .. Len(long) - i
                 PROVE  Follows(long[i], k, long[i + k])
    BY DEF Runs
  <2>4. i \in 1 .. l + 4 + m /\ k \in 0 .. (l + 4 + m) - i
    BY <2>1
  <2> QED
    BY <2>2, <2>4
<1>8. Ends(long, n)
  <2>1. l + 4 + m \in l + 1 .. l + 4 + m /\ (l + 4 + m) - l = 4 + m
    BY <1>1
  <2> DEFINE e == l + 4 + m
  <2> HIDE DEF e
  <2>2. Is(long[e], n, e - l)
    BY <2>1, <1>4 DEF e
  <2>3. Is(long[Len(long)], n, 4 + m)
    BY <2>1, <2>2, <1>3 DEF e
  <2> QED
    BY <2>3 DEF Ends, m
<1>9. ASSUME str = <<>>
      PROVE  Is(long[1], n, 1)
  <2>1. l = 0
    BY <1>9, EmptySeq
  <2>2. 1 \in l + 1 .. l + 4 + m /\ 1 - l = 1
    BY <2>1, <1>1
  <2> QED
    BY <2>2, <1>4
<1>10. ASSUME str # <<>>
       PROVE  long[1] = str[1]
  <2>1. l \in Nat \ {0}
    BY <1>10, EmptySeq
  <2>2. 1 \in 1 .. l + 4 + m /\ 1 <= l
    BY <2>1, <1>1
  <2> QED
    BY <2>2, <1>3
<1> QED
  BY <1>3, <1>7, <1>8, <1>9, <1>10 DEF m

-----------------------------------------------------------------------------
(* The decoder                                                              *)

\* Bytes that are the same byte of the same packet are the same.
LEMMA SameByte ==
  ASSUME NEW b \in WireByte, NEW c \in WireByte, b.nr = c.nr, b.pos = c.pos
  PROVE  b = c
BY DEF WireByte

\* The numbers of a state, and the length of a packet that is still to come.
LEMMA Numbers ==
  ASSUME TypeOK
  PROVE  /\ recvIv \in Nat /\ requests \in Nat /\ recvIv <= Len(Size) /\ requests <= Len(Size)
         /\ net \in Seq(WireByte) /\ buffer \in Seq(WireByte)
         /\ recvIv < Len(Size) => recvIv + 1 \in DOMAIN Size /\ Size[recvIv + 1] \in Nat
<1>1. /\ recvIv \in 0 .. Len(Size) /\ requests \in 0 .. Len(Size)
      /\ net \in Seq(WireByte) /\ buffer \in Seq(WireByte)
  BY DEF TypeOK
<1>2. recvIv < Len(Size) => recvIv + 1 \in 1 .. Len(Size)
  BY <1>1, Sizes
<1> QED
  BY <1>1, <1>2, Sizes

\* str starts with the n bytes of the body the decoder waits for.
AtBody(str, n) == \A k \in 1 .. Len(str) :
    /\ k <= n => Is(str[k], recvIv + 1, 4 + k)
    /\ k = n + 1 => Is(str[k], recvIv + 2, 1)

\* A body that is all there is deciphered as the packet it belongs to.
LEMMA DecryptsBody ==
  ASSUME TypeOK, NEW rest \in Seq(WireByte), recvIv < Len(Size), NEW n, n = Size[recvIv + 1],
         Len(rest) >= n, AtBody(rest \o net, n)
  PROVE  Decrypt(SubSeq(rest, 1, n)) = recvIv + 1
<1> DEFINE q == recvIv + 1
           part == SubSeq(rest, 1, n)
           body == BodyOf(q)
<1>1. q \in DOMAIN Size /\ n \in Nat /\ n = Size[q] /\ recvIv \in Nat
  BY Numbers
<1>2. Len(rest) \in Nat /\ n \in 0 .. Len(rest)
  BY <1>1, LenProperties
<1>3. part \in Seq(WireByte) /\ Len(part) = n /\ \A i \in 1 .. n : part[i] = rest[i]
  BY <1>2, Prefix
<1>4. body \in Seq(WireByte) /\ Len(body) = n /\ \A i \in 1 .. n : Is(body[i], q, 4 + i)
  BY <1>1, BodyBytes
<1>5. ASSUME NEW i \in 1 .. n PROVE Is(part[i], q, 4 + i)
  <2>1. /\ Len(rest \o net) = Len(rest) + Len(net) /\ Len(net) \in Nat
        /\ \A j \in 1 .. Len(rest) + Len(net) :
              (rest \o net)[j] = IF j <= Len(rest) THEN rest[j] ELSE net[j - Len(rest)]
    BY ConcatProperties, LenProperties DEF TypeOK
  <2>2. i \in 1 .. Len(rest) + Len(net) /\ i <= Len(rest) /\ i <= n
    BY <1>2, <2>1
  <2>3. (rest \o net)[i] = rest[i] /\ Is((rest \o net)[i], q, 4 + i)
    BY <2>1, <2>2 DEF AtBody
  <2> QED
    BY <2>3, <1>3
<1> HIDE DEF part, body, q
<1>6. ASSUME NEW i \in 1 .. n PROVE part[i] = body[i]
  <2>1. part[i] \in WireByte /\ body[i] \in WireByte
    BY <1>3, <1>4, ElementOfSeq
  <2>2. Is(part[i], q, 4 + i) /\ Is(body[i], q, 4 + i)
    BY <1>4, <1>5
  <2> QED
    BY <2>1, <2>2, SameByte DEF Is
<1>7. part = body
  BY <1>3, <1>4, <1>6, SeqEqual
<1> QED
  BY <1>1, <1>7 DEF Decrypt, part, body, q

\* Taking the body, or waiting for the rest of it, keeps to the stream.
LEMMA TakeBodyKeeps ==
  ASSUME TypeOK, NEW rest \in Seq(WireByte), recvIv < Len(Size), NEW n, n = Size[recvIv + 1],
         Runs(rest \o net), AtBody(rest \o net, n), Ends(rest \o net, requests),
         rest \o net = <<>> => n = 0 /\ requests = recvIv + 1,
         received = [i \in 1 .. recvIv |-> i],
         TakeBody(rest, n), UNCHANGED <<net, requests>>
  PROVE  /\ Runs(Stream') /\ Starts(Stream', recvIv', packetlength', requests')
         /\ Ends(Stream', requests') /\ LengthKnown'
         /\ received' = [i \in 1 .. recvIv' |-> i]
<1> DEFINE str == rest \o net
           l == Len(str)
<1>1. n \in Nat /\ recvIv \in Nat /\ requests \in Nat /\ net \in Seq(WireByte) /\ recvIv + 1 \in DOMAIN Size
  BY Numbers
<1>2. str \in Seq(WireByte) /\ l = Len(rest) + Len(net) /\ Len(rest) \in Nat /\ Len(net) \in Nat
  BY <1>1, ConcatProperties, LenProperties
<1>3. str = <<>> <=> l = 0
  BY <1>2, EmptySeq
<1>4. CASE Len(rest) >= n
  <2>1. /\ buffer' = Drop(rest, n) /\ packetlength' = -1 /\ recvIv' = recvIv + 1
        /\ received' = Append(received, Decrypt(SubSeq(rest, 1, n)))
    BY <1>4 DEF TakeBody
  <2>2. n \in 0 .. Len(rest) /\ n \in 0 .. l
    BY <1>1, <1>2, <1>4
  <2> DEFINE d == Drop(str, n)
  <2>3. Stream' = d
    BY <1>1, <2>1, <2>2, DropOfConcat DEF Stream
  <2>4. d \in Seq(WireByte) /\ Len(d) = l - n /\ \A i \in 1 .. l - n : d[i] = str[n + i]
    <3>1. str \in Seq(WireByte) /\ n \in 0 .. Len(str)
      BY <1>2, <2>2
    <3> HIDE DEF str, d
    <3>2. ASSUME NEW w \in Seq(WireByte), NEW k \in 0 .. Len(w)
          PROVE  /\ Drop(w, k) \in Seq(WireByte) /\ Len(Drop(w, k)) = Len(w) - k
                 /\ \A i \in 1 .. Len(w) - k : Drop(w, k)[i] = w[k + i]
      BY DropIsRest
    <3> QED
      BY <3>1, <3>2 DEF d
  <2>5. Runs(d)
    BY <1>2, <2>2, RunsDrop
  <2>6. d = <<>> <=> l = n
    BY <1>1, <1>2, <2>4, EmptySeq
  <2> HIDE DEF d, str
  <2>7. Starts(d, recvIv + 1, -1, requests)
    <3>1. CASE l = n
      <4>1. CASE n = 0
        BY <4>1, <3>1, <2>6, <1>3 DEF Starts, str
      <4>2. CASE n # 0
        <5>1. n \in 1 .. l /\ str # <<>>
          BY <4>2, <3>1, <1>1, <1>3
        <5>2. Is(str[n], recvIv + 1, 4 + n)
          <6>1. AtBody(str, n) /\ n <= n
            BY <1>1 DEF str
          <6> QED
            BY <5>1, <6>1 DEF AtBody
        <5>3. Is(str[l], requests, 4 + Size[requests])
          BY <5>1 DEF Ends, str
        <5>4. recvIv + 1 = requests
          BY <3>1, <5>2, <5>3 DEF Is
        <5> QED
          BY <5>4, <3>1, <2>6 DEF Starts
      <4> QED
        BY <4>1, <4>2
    <3>2. CASE l # n
      <4>1. n + 1 \in 1 .. l /\ 1 \in 1 .. l - n
        BY <3>2, <2>2, <1>1, <1>2 DEF str
      <4>2. Is(str[n + 1], recvIv + 2, 1) /\ d[1] = str[n + 1]
        BY <4>1, <2>4 DEF AtBody, str
      <4>3. (recvIv + 1) + 1 = recvIv + 2
        BY <1>1
      <4> QED
        BY <4>2, <4>3, <3>2, <2>6 DEF Starts
    <3> QED
      BY <3>1, <3>2
  <2>8. Ends(d, requests)
    <3>1. CASE d = <<>>
      BY <3>1 DEF Ends
    <3>2. CASE d # <<>>
      <4>1. l - n \in 1 .. l - n /\ n + (l - n) = l /\ str # <<>>
        <5>1. l \in Nat
          BY <1>2 DEF str
        <5>2. l # n /\ n <= l
          BY <3>2, <2>2, <2>6, <5>1
        <5> QED
          BY <5>1, <5>2, <1>1, <1>3
      <4>2. d[l - n] = str[l]
        BY <4>1, <2>4
      <4>3. Is(str[l], requests, 4 + Size[requests])
        BY <4>1 DEF Ends, str
      <4> QED
        BY <4>2, <4>3, <2>4 DEF Ends
    <3> QED
      BY <3>1, <3>2
  <2>9. received' = [i \in 1 .. recvIv + 1 |-> i]
    <3>1. Decrypt(SubSeq(rest, 1, n)) = recvIv + 1
      BY <1>4, DecryptsBody
    <3> DEFINE f == [i \in 1 .. recvIv |-> i]
               g == [i \in 1 .. recvIv + 1 |-> i]
    <3>2. f \in Seq(Nat) /\ Len(f) = recvIv /\ g \in Seq(Nat) /\ Len(g) = recvIv + 1
      BY <1>1
    <3>3. /\ Append(f, recvIv + 1) \in Seq(Nat) /\ Len(Append(f, recvIv + 1)) = recvIv + 1
          /\ \A i \in 1 .. recvIv + 1 : Append(f, recvIv + 1)[i] = IF i <= recvIv THEN f[i] ELSE recvIv + 1
      BY <1>1, <3>2
    <3>4. \A i \in 1 .. recvIv + 1 : Append(f, recvIv + 1)[i] = g[i]
      BY <1>1, <3>3
    <3>5. Append(f, recvIv + 1) = g
      <4> DEFINE h == Append(f, recvIv + 1)
      <4> HIDE DEF g, h
      <4>1. h = g
        BY <3>2, <3>3, <3>4, SeqEqual DEF h
      <4> QED
        BY <4>1 DEF h
    <3> QED
      BY <3>1, <3>5, <2>1
  <2> QED
    BY <2>1, <2>3, <2>5, <2>7, <2>8, <2>9 DEF LengthKnown
<1>5. CASE ~ (Len(rest) >= n)
  <2>1. buffer' = rest /\ packetlength' = n /\ recvIv' = recvIv /\ received' = received
    BY <1>5 DEF TakeBody
  <2>2. Stream' = str
    BY <2>1 DEF Stream
  <2>3. n # 0 /\ 1 <= n
    BY <1>1, <1>2, <1>5
  <2>4. str # <<>> /\ 1 \in 1 .. l
    BY <2>3, <1>2, <1>3
  <2>5. Is(str[1], recvIv + 1, 4 + 1)
    BY <2>3, <2>4 DEF AtBody
  <2>6. 4 + 1 = 5 /\ n # -1
    BY <1>1
  <2>7. Starts(str, recvIv, n, requests)
    BY <2>4, <2>5, <2>6 DEF Starts
  <2>8. LengthKnown'
    BY <2>1 DEF LengthKnown
  <2> QED
    BY <2>1, <2>2, <2>7, <2>8
<1> QED
  BY <1>4, <1>5

\* Positions in a frame and positions in its body differ by the header's 4 bytes.
LEMMA BodyPosition ==
  ASSUME NEW k \in Nat, NEW n \in Nat
  PROVE  (k <= n => 4 + k <= 4 + n) /\ (k = n + 1 => 4 + k = 5 + n)
OBVIOUS

\* From the byte the decoder waits for on, a run holds that packet's body.
LEMMA Leads ==
  ASSUME TypeOK, recvIv < Len(Size), NEW n, n = Size[recvIv + 1],
         NEW w \in Seq(WireByte), Runs(w), NEW p \in {1, 5}, Is(w[1], recvIv + 1, p),
         NEW k \in Nat \ {0}, (5 - p) + k <= Len(w)
  PROVE  /\ k <= n => Is(w[(5 - p) + k], recvIv + 1, 4 + k)
         /\ k = n + 1 => Is(w[(5 - p) + k], recvIv + 2, 1)
<1> DEFINE o == (5 - p) + k
           j == o - 1
<1>1. n \in Nat /\ recvIv \in Nat /\ Len(w) \in Nat
  BY Numbers, LenProperties
<1>2. /\ 1 \in 1 .. Len(w) /\ j \in 0 .. Len(w) - 1 /\ 1 + j = o
      /\ p + j = 4 + k /\ (recvIv + 1) + 1 = recvIv + 2
  BY <1>1
<1> HIDE DEF o, j
<1>3. Follows(w[1], j, w[o])
  <2>1. Follows(w[1], j, w[1 + j])
    BY <1>2 DEF Runs
  <2> QED
    BY <2>1, <1>2
<1>4. w[1].nr = recvIv + 1 /\ w[1].pos = p
  BY DEF Is
<1>5. 4 + k <= 4 + n => Is(w[o], recvIv + 1, 4 + k)
  BY <1>2, <1>3, <1>4 DEF Follows
<1>6. 4 + k = 5 + n => Is(w[o], recvIv + 2, 1)
  BY <1>2, <1>3, <1>4, SMTT(30) DEF Follows
<1>7. (k <= n => 4 + k <= 4 + n) /\ (k = n + 1 => 4 + k = 5 + n)
  <2>1. k \in Nat
    OBVIOUS
  <2> QED
    BY <2>1, <1>1, BodyPosition
<1> QED
  BY <1>5, <1>6, <1>7 DEF o

\* The stream starts with the header that checkPacket accepts.
LEMMA HeaderFits ==
  ASSUME TypeOK, InInv, packetlength = -1, Len(buffer) >= 4
  PROVE  /\ Is(Stream[1], recvIv + 1, 1) /\ recvIv < Len(Size) /\ 4 <= Len(Stream)
         /\ CheckPacket(SubSeq(buffer, 1, 4))
         /\ GetPacketLength(SubSeq(buffer, 1, 4)) = Size[recvIv + 1]
<1> DEFINE q == recvIv + 1
           four == SubSeq(buffer, 1, 4)
           h == HeaderOf(q)
<1>1. /\ Stream \in Seq(WireByte) /\ Len(Stream) = Len(buffer) + Len(net)
      /\ Len(buffer) \in Nat /\ Len(net) \in Nat /\ buffer \in Seq(WireByte)
      /\ \A i \in 1 .. Len(buffer) + Len(net) :
            Stream[i] = IF i <= Len(buffer) THEN buffer[i] ELSE net[i - Len(buffer)]
  BY Numbers, ConcatProperties, LenProperties DEF Stream
<1>2. 4 <= Len(Stream) /\ Stream # <<>> /\ 1 \in 1 .. Len(Stream)
  <2>1. 4 <= Len(Stream) /\ Len(Stream) # 0 /\ 1 \in 1 .. Len(Stream)
    BY <1>1
  <2> QED
    BY <2>1, EmptySeq
<1>3. Is(Stream[1], q, 1)
  BY <1>2 DEF InInv, Starts
<1>4. recvIv < Len(Size) /\ q \in DOMAIN Size /\ Size[q] \in Nat
  <2>1. Stream[1] \in WireByte
    BY <1>1, <1>2, ElementOfSeq
  <2>2. q \in 1 .. Len(Size)
    BY <2>1, <1>3, Sizes DEF Is, WireByte
  <2> QED
    BY <2>2, Sizes, Numbers
<1>5. four \in Seq(WireByte) /\ Len(four) = 4 /\ \A i \in 1 .. 4 : four[i] = buffer[i]
  <2>1. 4 \in 0 .. Len(buffer)
    BY <1>1
  <2> QED
    BY <2>1, <1>1, Prefix
<1>6. h \in Seq(WireByte) /\ Len(h) = 4 /\ \A i \in 1 .. 4 : Is(h[i], q, i)
  BY <1>4, HeaderBytes
<1> HIDE DEF q, four, h
<1>7. ASSUME NEW i \in 1 .. 4 PROVE Is(four[i], q, i)
  <2> DEFINE j == i - 1
  <2>1. 1 + j = i /\ j \in 0 .. Len(Stream) - 1 /\ i \in 1 .. Len(buffer) + Len(net) /\ i <= Len(buffer)
    BY <1>1
  <2>2. four[i] = Stream[i]
    BY <2>1, <1>1, <1>5
  <2> HIDE DEF j
  <2>3. Follows(Stream[1], j, Stream[i])
    <3>1. Follows(Stream[1], j, Stream[1 + j])
      BY <2>1, <1>2 DEF InInv, Runs
    <3> QED
      BY <3>1, <2>1
  <2>4. 1 + j <= 4 + Size[q]
    BY <2>1, <1>4
  <2>5. Is(Stream[i], q, 1 + j)
    BY <2>3, <2>4, <1>3 DEF Follows, Is
  <2> QED
    BY <2>1, <2>2, <2>5
<1>8. ASSUME NEW i \in 1 .. 4 PROVE four[i] = h[i]
  <2>1. four[i] \in WireByte /\ h[i] \in WireByte
    BY <1>5, <1>6, ElementOfSeq
  <2> QED
    BY <2>1, <1>6, <1>7, SameByte DEF Is
<1>9. four = h
  BY <1>5, <1>6, <1>8, SeqEqual
<1>10. four[1].nr = q
  BY <1>7 DEF Is
<1>11. CheckPacket(four) /\ GetPacketLength(four) = Size[q]
  BY <1>9, <1>10 DEF CheckPacket, GetPacketLength, h, q
<1> QED
  BY <1>2, <1>3, <1>4, <1>11 DEF four, q

\* A call of decode that reads anything keeps to the stream.
LEMMA DecodeKeeps ==
  ASSUME TypeOK, InInv, DecodeHeader \/ DecodeBody, UNCHANGED <<net, requests>>
  PROVE  /\ InInv' /\ UNCHANGED <<open, tasks, rejected>>
         /\ recvIv' = recvIv \/ (recvIv < Len(Size) /\ recvIv' = recvIv + 1)
<1>1. Stream \in Seq(WireByte) /\ buffer \in Seq(WireByte) /\ net \in Seq(WireByte)
  BY Numbers, ConcatProperties DEF Stream
<1>2. CASE DecodeHeader
  <2> DEFINE four == SubSeq(buffer, 1, 4)
             n == GetPacketLength(four)
             rest == Drop(buffer, 4)
  <2>1. packetlength = -1 /\ Len(buffer) >= 4
    BY <1>2 DEF DecodeHeader
  <2>2. /\ Is(Stream[1], recvIv + 1, 1) /\ recvIv < Len(Size) /\ 4 <= Len(Stream)
        /\ CheckPacket(four) /\ n = Size[recvIv + 1]
    BY <2>1, HeaderFits
  <2>3. TakeBody(rest, n) /\ UNCHANGED <<open, tasks, rejected>>
    BY <1>2, <2>2 DEF DecodeHeader
  <2> DEFINE str == Drop(Stream, 4)
             l == Len(Stream)
  <2>4. l \in Nat /\ Len(buffer) \in Nat /\ n \in Nat /\ recvIv \in Nat /\ requests \in Nat
    BY <1>1, <2>2, LenProperties, Numbers
  <2>5. 4 \in 0 .. l /\ 4 \in 0 .. Len(buffer)
    BY <2>1, <2>2, <2>4
  <2>6. rest \in Seq(WireByte) /\ rest \o net = str
    BY <1>1, <2>5, DropIsRest, DropOfConcat DEF Stream
  <2> HIDE DEF n, four, rest
  <2>7. /\ str \in Seq(WireByte) /\ Len(str) = l - 4
        /\ \A i \in 1 .. l - 4 : str[i] = Stream[4 + i]
    BY <1>1, <2>5, DropIsRest
  <2>8. Runs(str)
    BY <1>1, <2>5, RunsDrop DEF InInv
  <2> HIDE DEF str
  <2>9. AtBody(str, n)
    <3>1. ASSUME NEW k \in 1 .. Len(str)
          PROVE  /\ k <= n => Is(str[k], recvIv + 1, 4 + k)
                 /\ k = n + 1 => Is(str[k], recvIv + 2, 1)
      <4>1. /\ k \in Nat \ {0} /\ k \in 1 .. l - 4 /\ (5 - 1) + k <= l /\ (5 - 1) + k = 4 + k
            /\ 1 \in {1, 5} /\ n = Size[recvIv + 1]
        BY <2>2, <2>4, <2>7
      <4>2. /\ k <= n => Is(Stream[(5 - 1) + k], recvIv + 1, 4 + k)
            /\ k = n + 1 => Is(Stream[(5 - 1) + k], recvIv + 2, 1)
        BY <4>1, <1>1, <2>2, Leads DEF InInv
      <4>3. Stream[(5 - 1) + k] = str[k]
        BY <4>1, <2>7
      <4> QED
        BY <4>2, <4>3
    <3> QED
      BY <3>1 DEF AtBody
  <2>10. Is(Stream[l], requests, 4 + Size[requests])
    <3>1. Stream # <<>>
      BY <1>1, <2>2, <2>4, EmptySeq
    <3> QED
      BY <3>1 DEF InInv, Ends
  <2>11. Ends(str, requests)
    <3>1. SUFFICES ASSUME str # <<>> PROVE Is(str[Len(str)], requests, 4 + Size[requests])
      BY DEF Ends
    <3>2. Len(str) # 0
      BY <3>1, <2>7, EmptySeq
    <3>3. l - 4 \in 1 .. l - 4 /\ 4 + (l - 4) = l
      BY <3>2, <2>2, <2>4, <2>7
    <3>4. str[l - 4] = Stream[l]
      BY <3>3, <2>7
    <3> QED
      BY <3>4, <2>7, <2>10
  <2>12. str = <<>> => n = 0 /\ requests = recvIv + 1
    <3>1. SUFFICES ASSUME str = <<>> PROVE n = 0 /\ requests = recvIv + 1
      OBVIOUS
    <3>2. l = 4
      BY <3>1, <2>4, <2>7, EmptySeq
    <3>3. Follows(Stream[1], 3, Stream[1 + 3])
      BY <3>2 DEF InInv, Runs
    <3>4. 1 + 3 = 4 /\ 1 + 3 <= 4 + n
      BY <2>4
    <3>5. Is(Stream[4], recvIv + 1, 4)
      BY <3>3, <3>4, <2>2 DEF Follows, Is
    <3>6. requests = recvIv + 1 /\ 4 + Size[requests] = 4
      BY <3>2, <3>5, <2>10 DEF Is
    <3> QED
      BY <3>6, <2>2, <2>4
  <2>13. received = [i \in 1 .. recvIv |-> i]
    BY DEF InInv
  <2>14. /\ Runs(Stream') /\ Starts(Stream', recvIv', packetlength', requests')
         /\ Ends(Stream', requests') /\ LengthKnown'
         /\ received' = [i \in 1 .. recvIv' |-> i]
    BY <2>2, <2>3, <2>6, <2>8, <2>9, <2>11, <2>12, <2>13, TakeBodyKeeps
  <2>15. recvIv' = recvIv \/ recvIv' = recvIv + 1
    BY <2>3 DEF TakeBody
  <2>16. NoneRejected'
    BY <2>3 DEF InInv, NoneRejected
  <2> QED
    BY <2>2, <2>3, <2>14, <2>15, <2>16 DEF InInv
<1>3. CASE DecodeBody
  <2> DEFINE n == packetlength
             l == Len(Stream)
  <2>1. n # -1 /\ TakeBody(buffer, n) /\ UNCHANGED <<open, tasks, rejected>>
    BY <1>3 DEF DecodeBody
  <2>2. recvIv < Len(Size) /\ n = Size[recvIv + 1]
    BY <2>1 DEF InInv, LengthKnown
  <2>3. Stream # <<>> /\ Is(Stream[1], recvIv + 1, 5)
    BY <2>1 DEF InInv, Starts
  <2>4. l \in Nat /\ n \in Nat /\ recvIv \in Nat
    BY <1>1, <2>2, LenProperties, Numbers
  <2> HIDE DEF n
  <2>5. AtBody(Stream, n)
    <3>1. ASSUME NEW k \in 1 .. l
          PROVE  /\ k <= n => Is(Stream[k], recvIv + 1, 4 + k)
                 /\ k = n + 1 => Is(Stream[k], recvIv + 2, 1)
      <4>1. k \in Nat \ {0} /\ (5 - 5) + k <= l /\ (5 - 5) + k = k /\ 5 \in {1, 5}
        BY <2>4
      <4>2. /\ k <= n => Is(Stream[(5 - 5) + k], recvIv + 1, 4 + k)
            /\ k = n + 1 => Is(Stream[(5 - 5) + k], recvIv + 2, 1)
        BY <4>1, <1>1, <2>2, <2>3, Leads DEF InInv
      <4> QED
        BY <4>1, <4>2
    <3> QED
      BY <3>1 DEF AtBody
  <2>6. Runs(Stream) /\ Ends(Stream, requests) /\ received = [i \in 1 .. recvIv |-> i]
    BY DEF InInv
  <2>7. /\ Runs(Stream') /\ Starts(Stream', recvIv', packetlength', requests')
        /\ Ends(Stream', requests') /\ LengthKnown'
        /\ received' = [i \in 1 .. recvIv' |-> i]
    BY <1>1, <2>1, <2>2, <2>3, <2>5, <2>6, TakeBodyKeeps DEF Stream
  <2>8. recvIv' = recvIv \/ recvIv' = recvIv + 1
    BY <2>1 DEF TakeBody
  <2>9. NoneRejected'
    BY <2>1 DEF InInv, NoneRejected
  <2> QED
    BY <2>1, <2>2, <2>7, <2>8, <2>9 DEF InInv
<1> QED
  BY <1>2, <1>3

-----------------------------------------------------------------------------
(* Every step                                                               *)

\* The initial states satisfy the invariant.
LEMMA InitInv == Init => IInv
<1> SUFFICES ASSUME Init PROVE IInv
  OBVIOUS
<1> USE DEF Init
<1>1. TypeOK
  <2>1. /\ tasks \in Seq(Task) /\ wire \in Seq(Frame) /\ net \in Seq(WireByte)
        /\ buffer \in Seq(WireByte) /\ received \in Seq(DOMAIN Size \cup {Garbage})
    BY EmptySeq
  <2>2. announced \in [Threads -> 0 .. MaxPackets]
    BY CodecAssumption
  <2>3. shown \in [Threads -> Seq(1 .. MaxPackets)]
    BY EmptySeq
  <2>4. requests \in 0 .. Len(Size) /\ recvIv \in 0 .. Len(Size)
    BY Sizes
  <2> QED
    BY <2>1, <2>2, <2>3, <2>4 DEF TypeOK, Plain
<1>2. OutInv
  BY DEF OutInv, Fresh, WireInStep, PeerInStep
<1>3. Stream = <<>>
  BY EmptySeq, ConcatEmptySeq DEF Stream
<1>4. Runs(<<>>)
  BY EmptySeq DEF Runs
<1>5. received = [i \in 1 .. recvIv |-> i]
  BY DEF InInv
<1>6. InInv
  BY <1>3, <1>4, <1>5 DEF InInv, Starts, Ends, LengthKnown, NoneRejected
<1> QED
  BY <1>1, <1>2, <1>6 DEF IInv

\* What a thread announces is a task and, encoded, a frame.
LEMMA PacketIsTask ==
  ASSUME TypeOK, NEW t \in Threads, announced[t] < MaxPackets
  PROVE  Packet(t) \in Task /\ Packet(t).kind = "packet"
<1>1. announced[t] + 1 \in 0 .. MaxPackets
  BY CodecAssumption DEF TypeOK
<1> QED
  BY <1>1 DEF Packet, Task

\* Writing a packet keeps the types and the step between the IVs.
LEMMA WriteKeeps ==
  ASSUME TypeOK, OutInv, NEW p \in Task, WriteAndFlush(p), client # "new"
  PROVE  /\ wire' \in Seq(Frame) /\ sendIv' \in Nat
         /\ client = "set" =>
               /\ peerIv = sendIv' - Len(wire')
               /\ \A j \in 1 .. Len(wire') : wire'[j].iv = peerIv + j - 1
<1>1. wire \in Seq(Frame) /\ sendIv \in Nat /\ Len(wire) \in Nat /\ peerIv \in Int
  BY LenProperties DEF TypeOK, Plain
<1>2. p.from \in Threads /\ p.nr \in 0 .. MaxPackets
  BY DEF Task
<1>3. CASE ~ open
  BY <1>1, <1>3 DEF WriteAndFlush, OutInv, WireInStep
<1>4. CASE open /\ client = "set"
  <2> DEFINE f == [iv |-> sendIv, from |-> p.from, nr |-> p.nr]
  <2>1. wire' = Append(wire, f) /\ sendIv' = sendIv + 1
    BY <1>4 DEF WriteAndFlush, Encode
  <2>2. f \in Frame /\ f.iv = sendIv
    BY <1>1, <1>2 DEF Frame
  <2> HIDE DEF f
  <2>3. /\ wire' \in Seq(Frame) /\ Len(wire') = Len(wire) + 1
        /\ \A j \in 1 .. Len(wire) + 1 : wire'[j] = IF j <= Len(wire) THEN wire[j] ELSE f
    BY <1>1, <2>1, <2>2
  <2>4. peerIv = sendIv - Len(wire) /\ \A j \in 1 .. Len(wire) : wire[j].iv = peerIv + j - 1
    BY <1>4 DEF OutInv, WireInStep
  <2>5. peerIv = sendIv' - Len(wire')
    BY <1>1, <2>1, <2>3, <2>4
  <2>6. ASSUME NEW j \in 1 .. Len(wire')
        PROVE  wire'[j].iv = peerIv + j - 1
    <3>1. CASE j <= Len(wire)
      <4>1. j \in 1 .. Len(wire) /\ j \in 1 .. Len(wire) + 1
        BY <1>1, <2>3, <3>1
      <4> QED
        BY <4>1, <3>1, <2>3, <2>4
    <3>2. CASE ~ (j <= Len(wire))
      <4>1. j = Len(wire) + 1 /\ j \in 1 .. Len(wire) + 1
        BY <1>1, <2>3, <3>2
      <4>2. sendIv = peerIv + j - 1
        BY <1>1, <2>4, <4>1
      <4>3. wire'[j].iv = sendIv
        BY <4>1, <3>2, <2>2, <2>3
      <4> QED
        BY <4>2, <4>3
    <3> QED
      BY <3>1, <3>2
  <2> QED
    BY <1>1, <2>1, <2>3, <2>5, <2>6
<1>5. CASE open /\ client # "set"
  <2> DEFINE f == [iv |-> Plain, from |-> p.from, nr |-> p.nr]
  <2>1. wire' = Append(wire, f) /\ sendIv' = sendIv
    BY <1>5 DEF WriteAndFlush, Encode
  <2>2. f \in Frame
    BY <1>2 DEF Frame
  <2> HIDE DEF f
  <2> QED
    BY <1>1, <1>5, <2>1, <2>2
<1> QED
  BY <1>3, <1>4, <1>5
-----------------------------------------------------------------------------
\* The outbound half of the types, and the inbound half.
TypeOut ==
    /\ client \in {"new", "set", "gone"} /\ open \in BOOLEAN
    /\ tasks \in Seq(Task) /\ wire \in Seq(Frame)
    /\ announced \in [Threads -> 0 .. MaxPackets]
    /\ shown \in [Threads -> Seq(1 .. MaxPackets)]
    /\ sendIv \in Nat /\ peerIv \in Nat \cup {Plain} /\ peerLost \in BOOLEAN

TypeIn ==
    /\ requests \in 0 .. Len(Size) /\ recvIv \in 0 .. Len(Size)
    /\ net \in Seq(WireByte) /\ buffer \in Seq(WireByte)
    /\ packetlength \in Range(Size) \cup {-1}
    /\ received \in Seq(DOMAIN Size \cup {Garbage})
    /\ reading \in BOOLEAN /\ rejected \in BOOLEAN

\* Nothing else is typed.
LEMMA Halves == (TypeOK <=> TypeOut /\ TypeIn) /\ (TypeOK' <=> TypeOut' /\ TypeIn')
BY DEF TypeOK, TypeOut, TypeIn

\* A task more or a task less.
LEMMA QueueTypes ==
  ASSUME tasks \in Seq(Task)
  PROVE  /\ Append(tasks, Close) \in Seq(Task) /\ Append(tasks, Inactive) \in Seq(Task)
         /\ tasks # <<>> => /\ Head(tasks) \in Task /\ Tail(tasks) \in Seq(Task)
                            /\ Append(Tail(tasks), Inactive) \in Seq(Task)
<1>1. Close \in Task /\ Inactive \in Task
  BY CodecAssumption DEF Close, Inactive, Task
<1> QED
  BY <1>1, AppendProperties, HeadTailProperties

\* The connection's loop opens with the hello.
LEMMA ConnectOut ==
  ASSUME TypeOut, OutInv, Connect
  PROVE  TypeOut' /\ OutInv'
<1>1. Hello \in Frame /\ Hello.iv = Plain
  BY CodecAssumption DEF Hello, Frame
<1>2. wire' = <<Hello>> /\ client' = "set" /\ peerIv = Plain /\ sendIv = 0 /\ ~ peerLost
      /\ UNCHANGED <<open, tasks, announced, sendIv, peerIv, shown, peerLost>>
  BY DEF Connect, OutInv, Fresh
<1>3. wire' \in Seq(Frame) /\ Len(wire') = 1 /\ wire'[1] = Hello
  BY <1>1, <1>2
<1>4. TypeOut'
  BY <1>2, <1>3 DEF TypeOut
<1>5. WireInStep'
  BY <1>1, <1>2, <1>3 DEF WireInStep, Plain
<1> QED
  BY <1>2, <1>4, <1>5 DEF OutInv, Fresh, PeerInStep

\* Any thread announces.
LEMMA AnnounceOut ==
  ASSUME TypeOK, OutInv, NEW t \in Threads, Announce(t)
  PROVE  TypeOut' /\ OutInv'
<1>1. Packet(t) \in Task /\ client # "new"
      /\ UNCHANGED <<client, open, peerIv, shown, peerLost>>
  BY PacketIsTask DEF Announce
<1>2. announced' \in [Threads -> 0 .. MaxPackets]
  BY CodecAssumption DEF TypeOK, Announce
<1>3. CASE WriteAndFlush(Packet(t)) /\ UNCHANGED tasks
  <2>1. /\ wire' \in Seq(Frame) /\ sendIv' \in Nat
        /\ client = "set" =>
               /\ peerIv = sendIv' - Len(wire')
               /\ \A j \in 1 .. Len(wire') : wire'[j].iv = peerIv + j - 1
    BY <1>1, <1>3, WriteKeeps
  <2> QED
    BY <1>1, <1>2, <1>3, <2>1 DEF TypeOK, TypeOut, OutInv, Fresh, WireInStep, PeerInStep
<1>4. CASE tasks' = Append(tasks, Packet(t)) /\ UNCHANGED <<wire, sendIv>>
  <2>1. tasks' \in Seq(Task)
    BY <1>1, <1>4, AppendProperties DEF TypeOK
  <2> QED
    BY <1>1, <1>2, <1>4, <2>1 DEF TypeOK, TypeOut, OutInv, Fresh, WireInStep, PeerInStep
<1> QED
  BY <1>3, <1>4 DEF Announce

\* A session is ended, in any of the three ways.
LEMMA EndOut ==
  ASSUME TypeOut, OutInv,
         \/ \E t \in Threads : Disconnect(t) \/ Kick(t)
         \/ ConnectionLost
  PROVE  TypeOut' /\ OutInv'
<1>1. tasks' \in Seq(Task) /\ open' \in BOOLEAN
  BY QueueTypes DEF TypeOut, Disconnect, Kick, ConnectionLost, CloseBy, CloseNow
<1>2. client # "new" /\ client' \in {client, "gone"} /\ UNCHANGED outbound
  BY DEF Disconnect, Kick, ConnectionLost
<1> QED
  BY <1>1, <1>2 DEF outbound, TypeOut, OutInv, Fresh, WireInStep, PeerInStep

\* The loop serves its next task.
LEMMA RunTaskOut ==
  ASSUME TypeOK, OutInv, RunTask
  PROVE  TypeOut' /\ OutInv'
<1> DEFINE task == Head(tasks)
<1>1. tasks # <<>> /\ client # "new" /\ UNCHANGED <<announced, peerIv, shown, peerLost>>
  BY DEF RunTask, OutInv, Fresh, TypeOK
<1>2. task \in Task /\ Tail(tasks) \in Seq(Task) /\ Append(Tail(tasks), Inactive) \in Seq(Task)
  BY <1>1, QueueTypes DEF TypeOK
<1>3. CASE WriteAndFlush(task) /\ tasks' = Tail(tasks) /\ UNCHANGED <<client, open>>
  <2> HIDE DEF task
  <2>1. /\ wire' \in Seq(Frame) /\ sendIv' \in Nat
        /\ client = "set" =>
               /\ peerIv = sendIv' - Len(wire')
               /\ \A j \in 1 .. Len(wire') : wire'[j].iv = peerIv + j - 1
    BY <1>1, <1>2, <1>3, WriteKeeps
  <2> QED
    BY <1>1, <1>2, <1>3, <2>1 DEF TypeOK, TypeOut, OutInv, Fresh, WireInStep, PeerInStep
<1>4. CASE /\ open' = FALSE /\ UNCHANGED <<client, wire, sendIv>>
           /\ tasks' = IF open THEN Append(Tail(tasks), Inactive) ELSE Tail(tasks)
  BY <1>1, <1>2, <1>4 DEF TypeOK, TypeOut, OutInv, Fresh, WireInStep, PeerInStep
<1>5. CASE client' = "gone" /\ tasks' = Tail(tasks) /\ UNCHANGED <<open, wire, sendIv>>
  BY <1>1, <1>2, <1>5 DEF TypeOK, TypeOut, OutInv, Fresh, WireInStep, PeerInStep
<1> QED
  BY <1>3, <1>4, <1>5 DEF RunTask

\* The game client reads a frame: while the session lasts, one with its IV.
LEMMA PeerReadsOut ==
  ASSUME TypeOut, OutInv, PeerReads
  PROVE  TypeOut' /\ OutInv'
<1> DEFINE frame == Head(wire)
<1>1. wire # <<>> /\ wire' = Tail(wire) /\ UNCHANGED <<client, open, tasks, announced, sendIv>>
  BY DEF PeerReads
<1>2. /\ wire \in Seq(Frame) /\ Len(wire) \in Nat \ {0} /\ sendIv \in Nat
      /\ peerIv \in Int /\ peerIv >= -1
  BY <1>1, EmptySeq, LenProperties DEF TypeOut, Plain
<1>3. /\ frame = wire[1] /\ frame \in Frame
      /\ wire' \in Seq(Frame) /\ Len(wire') = Len(wire) - 1
      /\ \A j \in 1 .. Len(wire) - 1 : wire'[j] = wire[j + 1]
  BY <1>1, <1>2, HeadTailProperties
<1> HIDE DEF frame
<1>4. /\ frame.iv = peerIv =>
            /\ peerIv' = peerIv + 1 /\ UNCHANGED peerLost
            /\ shown' = IF frame.nr = 0 THEN shown
                        ELSE [shown EXCEPT ![frame.from] = Append(@, frame.nr)]
      /\ frame.iv # peerIv => UNCHANGED <<peerIv, shown>> /\ peerLost' = TRUE
  BY DEF PeerReads, frame
<1>5. TypeOut'
  <2>1. frame.from \in Threads /\ frame.nr \in 0 .. MaxPackets
    BY <1>3 DEF Frame
  <2>2. shown' \in [Threads -> Seq(1 .. MaxPackets)]
    <3>1. shown \in [Threads -> Seq(1 .. MaxPackets)] /\ shown[frame.from] \in Seq(1 .. MaxPackets)
      BY <2>1 DEF TypeOut
    <3>2. frame.nr # 0 => Append(shown[frame.from], frame.nr) \in Seq(1 .. MaxPackets)
      <4>1. SUFFICES ASSUME frame.nr # 0
                     PROVE  Append(shown[frame.from], frame.nr) \in Seq(1 .. MaxPackets)
        OBVIOUS
      <4>2. frame.nr \in 1 .. MaxPackets
        BY <2>1, <4>1
      <4> QED
        BY <3>1, <4>2, AppendProperties
    <3> QED
      BY <1>4, <2>1, <3>1, <3>2
  <2>3. peerIv' \in Nat \cup {Plain} /\ peerLost' \in BOOLEAN
    <3>1. CASE frame.iv = peerIv
      <4>1. peerIv' = peerIv + 1 /\ peerLost' = peerLost
        BY <1>4, <3>1
      <4> QED
        BY <4>1, <1>2 DEF TypeOut, Plain
    <3>2. CASE frame.iv # peerIv
      BY <1>4, <3>2 DEF TypeOut
    <3> QED
      BY <3>1, <3>2
  <2> QED
    BY <1>1, <1>3, <2>2, <2>3 DEF TypeOut
<1>6. client # "new"
  BY <1>1 DEF OutInv, Fresh
<1>7. CASE client = "set"
  <2>1. ~ peerLost /\ peerIv = sendIv - Len(wire) /\ \A j \in 1 .. Len(wire) : wire[j].iv = peerIv + j - 1
    BY <1>7 DEF OutInv, WireInStep
  <2>2. wire[1].iv = peerIv
    BY <1>2, <2>1
  <2>3. peerIv' = peerIv + 1 /\ ~ peerLost'
    BY <1>3, <1>4, <2>1, <2>2
  <2>4. peerIv' = sendIv' - Len(wire')
    BY <1>1, <1>2, <1>3, <2>1, <2>3
  <2>5. ASSUME NEW j \in 1 .. Len(wire')
        PROVE  wire'[j].iv = peerIv' + j - 1
    <3>1. j \in 1 .. Len(wire) - 1 /\ j + 1 \in 1 .. Len(wire)
      BY <1>2, <1>3
    <3>2. wire'[j].iv = peerIv + (j + 1) - 1
      BY <3>1, <1>3, <2>1
    <3> QED
      BY <3>1, <3>2, <2>3, <1>2
  <2> QED
    BY <1>1, <1>5, <1>7, <2>3, <2>4, <2>5 DEF OutInv, Fresh, WireInStep, PeerInStep
<1>8. CASE client # "set"
  BY <1>1, <1>5, <1>6, <1>8 DEF TypeOut, OutInv, Fresh, WireInStep, PeerInStep
<1> QED
  BY <1>7, <1>8
-----------------------------------------------------------------------------
\* What the decoder handed over so far has the right types, and so has the
\* length it remembers.
LEMMA InboundTypes ==
  ASSUME InInv', recvIv' \in 0 .. Len(Size), requests' \in 0 .. Len(Size),
         net' \in Seq(WireByte), buffer' \in Seq(WireByte),
         reading' \in BOOLEAN, rejected' \in BOOLEAN
  PROVE  TypeIn'
<1>1. packetlength' \in Range(Size) \cup {-1}
  <2>1. packetlength' # -1 => recvIv' < Len(Size) /\ packetlength' = Size[recvIv' + 1]
    BY DEF InInv, LengthKnown
  <2>2. recvIv' < Len(Size) => recvIv' + 1 \in DOMAIN Size
    <3>1. \A r \in 0 .. Len(Size) : r < Len(Size) => r + 1 \in 1 .. Len(Size)
      BY Sizes
    <3> QED
      BY <3>1, Sizes
  <2> QED
    BY <2>1, <2>2 DEF Range
<1>2. received' \in Seq(DOMAIN Size \cup {Garbage})
  <2>1. received' = [i \in 1 .. recvIv' |-> i]
    BY DEF InInv
  <2>2. recvIv' \in Nat /\ \A i \in 1 .. recvIv' : i \in DOMAIN Size
    BY Sizes
  <2> QED
    BY <2>1, <2>2
<1> QED
  BY <1>1, <1>2 DEF TypeIn

\* The loop reads some of the bytes on the net.
LEMMA ReceiveIn ==
  ASSUME TypeIn, InInv, Receive
  PROVE  TypeIn' /\ InInv'
<1>1. PICK n \in 1 .. Len(net) : buffer' = buffer \o SubSeq(net, 1, n) /\ net' = Drop(net, n)
  BY DEF Receive
<1>2. net \in Seq(WireByte) /\ buffer \in Seq(WireByte) /\ n \in 0 .. Len(net)
  BY LenProperties DEF TypeIn
<1>3. Stream' = Stream
  BY <1>1, <1>2, MoveOfConcat DEF Stream
<1>4. buffer' \in Seq(WireByte) /\ net' \in Seq(WireByte)
  BY <1>1, <1>2, Prefix, DropIsRest, ConcatProperties
<1>5. UNCHANGED <<requests, packetlength, recvIv, received, rejected>> /\ reading' = TRUE
  BY DEF Receive
<1>6. InInv'
  BY <1>3, <1>5 DEF InInv, LengthKnown, NoneRejected
<1> QED
  BY <1>4, <1>5, <1>6, InboundTypes DEF TypeIn

\* The game client sends its next packet.
LEMMA PeerSendsIn ==
  ASSUME TypeOK, InInv, PeerSends
  PROVE  TypeIn' /\ InInv'
<1> DEFINE n == requests + 1
           new == HeaderOf(n) \o BodyOf(n)
           long == Stream \o new
<1>1. /\ requests < Len(Size) /\ requests' = n /\ net' = net \o HeaderOf(n) \o BodyOf(n)
      /\ UNCHANGED <<buffer, packetlength, recvIv, reading, received, rejected>>
  BY DEF PeerSends
<1>2. /\ requests \in 0 .. Len(Size) /\ recvIv \in 0 .. Len(Size) /\ n \in DOMAIN Size
      /\ net \in Seq(WireByte) /\ buffer \in Seq(WireByte) /\ Stream \in Seq(WireByte)
      /\ reading \in BOOLEAN /\ rejected \in BOOLEAN
  BY <1>1, Sizes, ConcatProperties DEF TypeOK, Stream
<1>3. HeaderOf(n) \in Seq(WireByte) /\ BodyOf(n) \in Seq(WireByte)
  BY <1>2, HeaderBytes, BodyBytes
<1>4. net' \in Seq(WireByte) /\ Stream' = long
  <2> DEFINE h == HeaderOf(n)
             b == BodyOf(n)
  <2> HIDE DEF h, b
  <2>1. h \in Seq(WireByte) /\ b \in Seq(WireByte) /\ h \o b \in Seq(WireByte) /\ net \o h \in Seq(WireByte)
    BY <1>2, <1>3, ConcatProperties DEF h, b
  <2>2. (net \o h) \o b = net \o (h \o b)
    <3>1. net \in Seq(WireByte) /\ h \in Seq(WireByte) /\ b \in Seq(WireByte)
      BY <1>2, <2>1
    <3> QED
      BY <3>1, ConcatAssociative, SMTT(30)
  <2>3. (buffer \o net) \o (h \o b) = buffer \o (net \o (h \o b))
    <3> DEFINE hb == h \o b
    <3>1. buffer \in Seq(WireByte) /\ net \in Seq(WireByte) /\ hb \in Seq(WireByte)
      BY <1>2, <2>1
    <3> HIDE DEF hb
    <3>2. (buffer \o net) \o hb = buffer \o (net \o hb)
      BY <3>1, ConcatAssociative, SMTT(30)
    <3> QED
      BY <3>2 DEF hb
  <2>4. net' = (net \o h) \o b /\ (net \o h) \o b \in Seq(WireByte)
    BY <1>1, <2>1, ConcatProperties DEF h, b
  <2> QED
    BY <1>1, <2>2, <2>3, <2>4 DEF Stream, h, b
<1>5. Runs(Stream) /\ Ends(Stream, requests) /\ Starts(Stream, recvIv, packetlength, requests)
  BY DEF InInv
<1>6. /\ long \in Seq(WireByte) /\ Len(long) = Len(Stream) + 4 + Size[n]
      /\ Runs(long) /\ Ends(long, n)
      /\ Stream = <<>> => Is(long[1], n, 1)
      /\ Stream # <<>> => long[1] = Stream[1]
  <2>1. ASSUME NEW str \in Seq(WireByte), Runs(str), Ends(str, requests),
               NEW w, w = str \o (HeaderOf(requests + 1) \o BodyOf(requests + 1))
        PROVE  /\ w \in Seq(WireByte) /\ Len(w) = Len(str) + 4 + Size[requests + 1]
               /\ Runs(w) /\ Ends(w, requests + 1)
               /\ str = <<>> => Is(w[1], requests + 1, 1)
               /\ str # <<>> => w[1] = str[1]
    BY <1>1, <1>2, <2>1, RunsAppend
  <2>2. long = Stream \o (HeaderOf(requests + 1) \o BodyOf(requests + 1))
    OBVIOUS
  <2> HIDE DEF long
  <2>3. /\ long \in Seq(WireByte) /\ Len(long) = Len(Stream) + 4 + Size[requests + 1]
        /\ Runs(long) /\ Ends(long, requests + 1)
        /\ Stream = <<>> => Is(long[1], requests + 1, 1)
        /\ Stream # <<>> => long[1] = Stream[1]
    BY <1>2, <1>5, <2>1, <2>2, Zenon
  <2> QED
    BY <2>3
<1> HIDE DEF long
<1>7. long # <<>>
  <2>1. Len(Stream) \in Nat /\ Size[n] \in Nat
    BY <1>2, Sizes, LenProperties
  <2>2. Len(long) = Len(Stream) + 4 + Size[n]
    BY <1>6
  <2>3. Len(long) # 0
    BY <2>1, <2>2
  <2> QED
    BY <2>3, EmptySeq
<1>8. Starts(long, recvIv, packetlength, n)
  BY <1>5, <1>6, <1>7 DEF Starts
<1>9. InInv'
  BY <1>1, <1>4, <1>6, <1>8 DEF InInv, LengthKnown, NoneRejected
<1>10. n \in 0 .. Len(Size)
  BY <1>1, <1>2
<1> QED
  BY <1>1, <1>2, <1>4, <1>9, <1>10, InboundTypes

\* The decoder is called.  It refuses no header, so outbound nothing changes.
LEMMA DecodeIn ==
  ASSUME TypeOK, InInv, Decode
  PROVE  TypeIn' /\ InInv' /\ UNCHANGED <<client, open, tasks, outbound>>
<1>1. UNCHANGED <<client, outbound, requests, net>> /\ reading' \in BOOLEAN
  BY DEF Decode, ReadOn
<1>2. buffer \in Seq(WireByte) /\ Len(buffer) \in Nat /\ rejected \in BOOLEAN
      /\ net \in Seq(WireByte) /\ recvIv \in 0 .. Len(Size) /\ requests \in 0 .. Len(Size)
  BY LenProperties DEF TypeOK
<1>3. CASE DecodeHeader \/ DecodeBody
  <2>1. /\ InInv' /\ UNCHANGED <<open, tasks, rejected>>
        /\ recvIv' = recvIv \/ (recvIv < Len(Size) /\ recvIv' = recvIv + 1)
    BY <1>1, <1>3, DecodeKeeps
  <2>2. recvIv' \in 0 .. Len(Size)
    BY <1>2, <2>1, Sizes
  <2>3. rejected' \in BOOLEAN
    BY <1>2, <2>1
  <2>4. buffer' \in Seq(WireByte)
    <3>1. ASSUME NEW s \in Seq(WireByte), NEW n \in Nat, TakeBody(s, n)
          PROVE  buffer' \in Seq(WireByte)
      BY <3>1, LenProperties, DropIsRest DEF TakeBody
    <3>2. CASE DecodeBody
      <4>1. packetlength \in Nat
        BY <3>2, Sizes DEF DecodeBody, TypeOK, Range
      <4> QED
        BY <1>2, <3>1, <3>2, <4>1 DEF DecodeBody
    <3>3. CASE DecodeHeader
      <4>1. 4 \in 0 .. Len(buffer) /\ packetlength = -1 /\ Len(buffer) >= 4
        BY <1>2, <3>3 DEF DecodeHeader
      <4>2. /\ CheckPacket(SubSeq(buffer, 1, 4)) /\ recvIv + 1 \in DOMAIN Size
            /\ GetPacketLength(SubSeq(buffer, 1, 4)) = Size[recvIv + 1]
        BY <1>2, <4>1, HeaderFits, Sizes
      <4>3. Drop(buffer, 4) \in Seq(WireByte) /\ Size[recvIv + 1] \in Nat
        BY <1>2, <4>1, <4>2, DropIsRest, Sizes
      <4>4. TakeBody(Drop(buffer, 4), Size[recvIv + 1])
        BY <3>3, <4>2 DEF DecodeHeader
      <4> QED
        BY <3>1, <4>3, <4>4
    <3> QED
      BY <1>3, <3>2, <3>3
  <2> QED
    BY <1>1, <1>2, <2>1, <2>2, <2>3, <2>4, InboundTypes
<1>4. CASE DecodeNothing
  BY <1>1, <1>4 DEF DecodeNothing, TypeOK, TypeIn, InInv, Stream, LengthKnown, NoneRejected
<1> QED
  BY <1>1, <1>3, <1>4 DEF Decode

-----------------------------------------------------------------------------
\* No step breaks the invariant.
LEMMA NextKeeps == IInv /\ [Next]_vars => IInv'
<1> SUFFICES ASSUME IInv, [Next]_vars PROVE TypeOut' /\ OutInv' /\ TypeIn' /\ InInv'
  BY Halves DEF IInv
<1>1. TypeOK /\ TypeOut /\ OutInv /\ TypeIn /\ InInv
  BY Halves DEF IInv
<1>2. UNCHANGED inbound => TypeIn' /\ InInv'
  BY <1>1 DEF inbound, TypeIn, InInv, Stream, LengthKnown, NoneRejected
<1>3. UNCHANGED <<client, open, tasks, outbound>> => TypeOut' /\ OutInv'
  BY <1>1 DEF outbound, TypeOut, OutInv, Fresh, WireInStep, PeerInStep
<1>4. CASE Connect
  BY <1>1, <1>2, <1>4, ConnectOut DEF Connect
<1>5. CASE RunTask
  BY <1>1, <1>2, <1>5, RunTaskOut DEF RunTask
<1>6. CASE ConnectionLost
  BY <1>1, <1>2, <1>6, EndOut DEF ConnectionLost
<1>7. ASSUME NEW t \in Threads, Announce(t)
      PROVE  TypeOut' /\ OutInv' /\ TypeIn' /\ InInv'
  BY <1>1, <1>2, <1>7, AnnounceOut DEF Announce
<1>8. ASSUME NEW t \in Threads, Disconnect(t) \/ Kick(t)
      PROVE  TypeOut' /\ OutInv' /\ TypeIn' /\ InInv'
  BY <1>1, <1>2, <1>8, EndOut DEF Disconnect, Kick
<1>9. CASE Receive
  BY <1>1, <1>3, <1>9, ReceiveIn DEF Receive
<1>10. CASE Decode
  BY <1>1, <1>3, <1>10, DecodeIn
<1>11. CASE PeerReads
  BY <1>1, <1>2, <1>11, PeerReadsOut DEF PeerReads
<1>12. CASE PeerSends
  BY <1>1, <1>3, <1>12, PeerSendsIn DEF PeerSends
<1>13. CASE UNCHANGED vars
  BY <1>2, <1>3, <1>13 DEF vars
<1> QED
  BY <1>4, <1>5, <1>6, <1>7, <1>8, <1>9, <1>10, <1>11, <1>12, <1>13 DEF Next

\* The strengthened invariant holds throughout.
THEOREM Invariance == Spec => []IInv
BY InitInv, NextKeeps, PTL DEF Spec

\* Every variable of MaplePacketEncoder, MaplePacketDecoder and their ciphers
\* keeps its type, whatever the fragments.
THEOREM TypeCorrect == Spec => []TypeOK
<1>1. IInv => TypeOK
  BY DEF IInv
<1> QED
  BY <1>1, Invariance, PTL

\* MapleAESOFB's two IVs outbound stay in step while the session lasts.
THEOREM OutboundInStep == Spec => []PeerInStep
<1>1. IInv => PeerInStep
  BY DEF IInv, OutInv
<1> QED
  BY <1>1, Invariance, PTL

\* MaplePacketDecoder refuses no header of a client that keeps to the protocol.
THEOREM NoHeaderRefused == Spec => []NoneRejected
<1>1. IInv => NoneRejected
  BY DEF IInv, InInv
<1> QED
  BY <1>1, Invariance, PTL

-----------------------------------------------------------------------------
(***************************************************************************)
(* A connection is a pipe in each direction                                *)
(***************************************************************************)

\* A frame or task of thread t that carries its n-th packet.
OnWire(w, t, n) == \E i \in 1 .. Len(w) : w[i].from = t /\ w[i].nr = n
Queued(q, t, n) == \E i \in 1 .. Len(q) : q[i].kind = "packet" /\ q[i].from = t /\ q[i].nr = n

\* Of each thread the wire carries the packets that follow those shown, in order and
\* without a gap.
InOrder(w, sh, an) == \A i \in 1 .. Len(w) : w[i].nr # 0 =>
    /\ Len(sh[w[i].from]) < w[i].nr /\ w[i].nr <= an[w[i].from]
    /\ \A n \in Len(sh[w[i].from]) + 1 .. w[i].nr - 1 :
          \E h \in 1 .. i - 1 : w[h].from = w[i].from /\ w[h].nr = n
    /\ \A h \in 1 .. i - 1 : w[h].from = w[i].from => w[h].nr < w[i].nr

\* The queue carries later ones, in order, and none of the loop's own.
Behind(q, w, sh, an) == \A i \in 1 .. Len(q) : q[i].kind = "packet" =>
    /\ q[i].from # Loop
    /\ Len(sh[q[i].from]) < q[i].nr /\ q[i].nr <= an[q[i].from]
    /\ \A h \in 1 .. Len(w) : w[h].from = q[i].from => w[h].nr < q[i].nr
    /\ \A h \in 1 .. i - 1 :
          q[h].kind = "packet" /\ q[h].from = q[i].from => q[h].nr < q[i].nr

\* Nothing that was announced is missing.
Complete(q, w, sh, an) == \A t \in Threads : \A n \in Len(sh[t]) + 1 .. an[t] :
    OnWire(w, t, n) \/ Queued(q, t, n)

\* The game client has understood the first packets of each thread.
Told == \A t \in Threads : /\ shown[t] = [i \in 1 .. Len(shown[t]) |-> i]
                           /\ Len(shown[t]) <= announced[t]

\* Of the thread of f one more packet is shown, unless f is the hello.
OneMore(sh, sh2, f) == \A t \in Threads :
    Len(sh2[t]) = IF f.nr # 0 /\ t = f.from THEN Len(sh[t]) + 1 ELSE Len(sh[t])

PipeInv ==
    /\ Told
    /\ ~ peerLost => /\ InOrder(wire, shown, announced)
                     /\ Behind(tasks, wire, shown, announced)
                     /\ open => Complete(tasks, wire, shown, announced)

\* What a frame and a task are made of.
LEMMA Fields ==
  /\ \A f \in Frame : f.from \in Threads /\ f.nr \in Nat /\ f.nr \in 0 .. MaxPackets
  /\ \A g \in Task : g.from \in Threads /\ g.nr \in Nat /\ g.nr \in 0 .. MaxPackets
BY CodecAssumption DEF Frame, Task

\* The frame of the next packet of its thread is put on the wire.
LEMMA WireGrows ==
  ASSUME NEW w \in Seq(Frame), NEW sh \in [Threads -> Seq(1 .. MaxPackets)],
         NEW an \in [Threads -> 0 .. MaxPackets], NEW an2 \in [Threads -> 0 .. MaxPackets],
         \A t \in Threads : an[t] <= an2[t],
         InOrder(w, sh, an), NEW f \in Frame,
         Len(sh[f.from]) < f.nr, f.nr <= an2[f.from],
         \A n \in Len(sh[f.from]) + 1 .. f.nr - 1 : OnWire(w, f.from, n),
         \A h \in 1 .. Len(w) : w[h].from = f.from => w[h].nr < f.nr
  PROVE  InOrder(Append(w, f), sh, an2)
<1> DEFINE w2 == Append(w, f)
<1>1. /\ Len(w) \in Nat /\ Len(w2) = Len(w) + 1 /\ w2[Len(w) + 1] = f
      /\ \A i \in 1 .. Len(w) : w2[i] = w[i] /\ w[i] \in Frame
  BY LenProperties, AppendProperties, ElementOfSeq
<1> HIDE DEF w2
<1> SUFFICES ASSUME NEW i \in 1 .. Len(w2), w2[i].nr # 0
             PROVE  /\ Len(sh[w2[i].from]) < w2[i].nr /\ w2[i].nr <= an2[w2[i].from]
                    /\ \A n \in Len(sh[w2[i].from]) + 1 .. w2[i].nr - 1 :
                          \E h \in 1 .. i - 1 : w2[h].from = w2[i].from /\ w2[h].nr = n
                    /\ \A h \in 1 .. i - 1 : w2[h].from = w2[i].from => w2[h].nr < w2[i].nr
  BY DEF InOrder, w2
<1>2. \A h \in 1 .. i - 1 : h \in 1 .. Len(w) /\ w2[h] = w[h]
  BY <1>1
<1>3. CASE i \in 1 .. Len(w)
  <2>1. w2[i] = w[i] /\ w[i].from \in Threads /\ w[i].nr \in 0 .. MaxPackets
    BY <1>1, <1>3 DEF Frame
  <2>2. an[w[i].from] <= an2[w[i].from] /\ an[w[i].from] \in Int /\ an2[w[i].from] \in Int
    BY <2>1
  <2>3. /\ Len(sh[w[i].from]) < w[i].nr /\ w[i].nr <= an[w[i].from]
        /\ \A n \in Len(sh[w[i].from]) + 1 .. w[i].nr - 1 :
              \E h \in 1 .. i - 1 : w[h].from = w[i].from /\ w[h].nr = n
        /\ \A h \in 1 .. i - 1 : w[h].from = w[i].from => w[h].nr < w[i].nr
    BY <1>3, <2>1 DEF InOrder
  <2>4. w2[i].nr <= an2[w2[i].from]
    BY <2>1, <2>2, <2>3, CodecAssumption
  <2>5. QED
    BY <1>2, <2>1, <2>3, <2>4
<1>4. CASE i = Len(w) + 1
  <2>1. w2[i] = f /\ i - 1 = Len(w)
    BY <1>1, <1>4
  <2>2. \A n \in Len(sh[f.from]) + 1 .. f.nr - 1 :
           \E h \in 1 .. Len(w) : w[h].from = f.from /\ w[h].nr = n
    BY DEF OnWire
  <2>3. QED
    BY <1>2, <2>1, <2>2
<1>5. i \in 1 .. Len(w) \/ i = Len(w) + 1
  BY <1>1
<1>6. QED
  BY <1>3, <1>4, <1>5

\* A frame on the wire is the next packet of its thread, or the hello; without it the rest
\* is in order.
LEMMA WireReads ==
  ASSUME NEW w \in Seq(Frame), NEW sh \in [Threads -> Seq(1 .. MaxPackets)],
         NEW an \in [Threads -> 0 .. MaxPackets], InOrder(w, sh, an), w # <<>>,
         NEW sh2 \in [Threads -> Seq(1 .. MaxPackets)], OneMore(sh, sh2, Head(w))
  PROVE  /\ Len(w) \in Nat \ {0} /\ w[1] = Head(w)
         /\ Head(w).nr # 0 => /\ Head(w).nr = Len(sh[Head(w).from]) + 1
                              /\ Head(w).nr <= an[Head(w).from]
         /\ InOrder(Tail(w), sh2, an)
<1> DEFINE f == Head(w)
           w2 == Tail(w)
<1>1. /\ f \in Frame /\ Len(w2) = Len(w) - 1 /\ Len(w) \in Nat \ {0} /\ w[1] = f
      /\ \A i \in 1 .. Len(w) - 1 : w2[i] = w[i + 1]
      /\ \A i \in 1 .. Len(w) : w[i] \in Frame
      /\ OneMore(sh, sh2, f)
  BY HeadTailProperties, LenProperties, EmptySeq, ElementOfSeq
<1> HIDE DEF f, w2
<1>2. \A t \in Threads : Len(sh[t]) \in Nat /\ Len(sh2[t]) \in Nat
  BY LenProperties
<1>3. \A t \in Threads : Len(sh2[t]) = IF f.nr # 0 /\ t = f.from THEN Len(sh[t]) + 1 ELSE Len(sh[t])
  BY <1>1 DEF OneMore
<1>4. f.from \in Threads /\ f.nr \in Nat /\ Len(sh[f.from]) \in Nat
  BY <1>1, <1>2, Fields
<1>5. f.nr # 0 => f.nr = Len(sh[f.from]) + 1 /\ f.nr <= an[f.from]
  <2> SUFFICES ASSUME f.nr # 0 PROVE f.nr = Len(sh[f.from]) + 1 /\ f.nr <= an[f.from]
    OBVIOUS
  <2>1. /\ Len(sh[f.from]) < f.nr /\ f.nr <= an[f.from]
        /\ \A n \in Len(sh[f.from]) + 1 .. f.nr - 1 : \E h \in 1 .. 1 - 1 : w[h].from = f.from /\ w[h].nr = n
    BY <1>1 DEF InOrder
  <2>2. ~(Len(sh[f.from]) + 1 <= f.nr - 1)
    BY <1>4, <2>1
  <2>3. QED
    BY <1>4, <2>1, <2>2
<1>6. InOrder(w2, sh2, an)
  <2> SUFFICES ASSUME NEW i \in 1 .. Len(w2), w2[i].nr # 0
               PROVE  /\ Len(sh2[w2[i].from]) < w2[i].nr /\ w2[i].nr <= an[w2[i].from]
                      /\ \A n \in Len(sh2[w2[i].from]) + 1 .. w2[i].nr - 1 :
                            \E h \in 1 .. i - 1 : w2[h].from = w2[i].from /\ w2[h].nr = n
                      /\ \A h \in 1 .. i - 1 : w2[h].from = w2[i].from => w2[h].nr < w2[i].nr
    BY DEF InOrder
  <2> DEFINE g == w[i + 1]
  <2>1. i \in 1 .. Len(w) - 1 /\ i + 1 \in 1 .. Len(w) /\ w2[i] = g /\ g \in Frame /\ i + 1 - 1 = i
    BY <1>1
  <2> HIDE DEF g
  <2>2. g.from \in Threads /\ g.nr \in Nat
    BY <2>1, Fields
  <2>3. g.from \in Threads /\ g.nr \in Nat /\ Len(sh[g.from]) \in Nat /\ Len(sh2[g.from]) \in Nat
    BY <1>2, <2>2
  <2>4. /\ Len(sh[g.from]) < g.nr /\ g.nr <= an[g.from]
        /\ \A n \in Len(sh[g.from]) + 1 .. g.nr - 1 : \E h \in 1 .. i : w[h].from = g.from /\ w[h].nr = n
        /\ \A h \in 1 .. i : w[h].from = g.from => w[h].nr < g.nr
    <3>1. w[i + 1].nr # 0
      BY <2>1 DEF g
    <3>2. /\ Len(sh[g.from]) < g.nr /\ g.nr <= an[g.from]
          /\ \A n \in Len(sh[g.from]) + 1 .. g.nr - 1 :
                \E h \in 1 .. i + 1 - 1 : w[h].from = g.from /\ w[h].nr = n
          /\ \A h \in 1 .. i + 1 - 1 : w[h].from = g.from => w[h].nr < g.nr
      <4> DEFINE j == i + 1
      <4>1. j \in 1 .. Len(w) /\ w[j].nr # 0 /\ w[j] = g
        BY <2>1, <3>1 DEF g
      <4> HIDE DEF j
      <4>2. /\ Len(sh[g.from]) < g.nr /\ g.nr <= an[g.from]
            /\ \A n \in Len(sh[g.from]) + 1 .. g.nr - 1 :
                  \E h \in 1 .. j - 1 : w[h].from = g.from /\ w[h].nr = n
            /\ \A h \in 1 .. j - 1 : w[h].from = g.from => w[h].nr < g.nr
        BY <4>1 DEF InOrder
      <4>3. QED
        BY <4>2 DEF j
    <3>3. QED
      BY <2>1, <3>2
  <2>5. f.nr # 0 /\ g.from = f.from => f.nr < g.nr
    <3>1. 1 \in 1 .. i /\ w[1] = f
      BY <1>1, <2>1
    <3>2. QED
      BY <2>4, <3>1
  <2>6. Len(sh2[g.from]) < g.nr
    BY <1>3, <1>4, <1>5, <2>3, <2>4, <2>5
  <2>7. ASSUME NEW n \in Len(sh2[g.from]) + 1 .. g.nr - 1
        PROVE  \E h \in 1 .. i - 1 : w2[h].from = g.from /\ w2[h].nr = n
    <3>1. n \in Len(sh[g.from]) + 1 .. g.nr - 1 /\ n # 0
      BY <1>3, <2>3, <2>7
    <3>2. PICK h \in 1 .. i : w[h].from = g.from /\ w[h].nr = n
      BY <2>4, <3>1
    <3>3. h # 1
      <4> SUFFICES ASSUME h = 1 PROVE FALSE
        OBVIOUS
      <4>1. f.nr = n /\ f.from = g.from
        BY <1>1, <3>2
      <4>2. n = Len(sh[g.from]) + 1 /\ Len(sh2[g.from]) = Len(sh[g.from]) + 1
        BY <1>3, <1>5, <2>3, <3>1, <4>1
      <4>3. QED
        BY <2>3, <2>7, <4>2
    <3>4. h - 1 \in 1 .. i - 1 /\ h - 1 \in 1 .. Len(w) - 1 /\ h - 1 + 1 = h
      BY <1>1, <2>1, <3>3
    <3>5. w2[h - 1] = w[h]
      BY <1>1, <3>4
    <3>6. QED
      BY <3>2, <3>4, <3>5
  <2>8. \A h \in 1 .. i - 1 : w2[h].from = g.from => w2[h].nr < g.nr
    <3> SUFFICES ASSUME NEW h \in 1 .. i - 1, w2[h].from = g.from PROVE w2[h].nr < g.nr
      OBVIOUS
    <3>1. h \in 1 .. Len(w) - 1 /\ h + 1 \in 1 .. i /\ w2[h] = w[h + 1]
      BY <1>1, <2>1
    <3>2. QED
      BY <2>4, <3>1
  <2>9. QED
    BY <2>1, <2>4, <2>6, <2>7, <2>8
<1>7. QED
  BY <1>1, <1>5, <1>6 DEF f, w2

\* Where a packet is when a frame or a task is added at the end or taken from the front.
LEMMA Placed ==
  ASSUME NEW S, NEW s \in Seq(S)
  PROVE  /\ \A e \in S : \A t, n :
               /\ OnWire(Append(s, e), t, n) <=> OnWire(s, t, n) \/ (e.from = t /\ e.nr = n)
               /\ Queued(Append(s, e), t, n) <=>
                     Queued(s, t, n) \/ (e.kind = "packet" /\ e.from = t /\ e.nr = n)
         /\ s # <<>> => \A t, n :
               /\ OnWire(s, t, n) <=> OnWire(Tail(s), t, n) \/ (Head(s).from = t /\ Head(s).nr = n)
               /\ Queued(s, t, n) <=>
                     Queued(Tail(s), t, n) \/ (Head(s).kind = "packet" /\ Head(s).from = t /\ Head(s).nr = n)
<1>1. Len(s) \in Nat
  BY LenProperties
<1>2. ASSUME NEW e \in S
      PROVE  \A t, n :
               /\ OnWire(Append(s, e), t, n) <=> OnWire(s, t, n) \/ (e.from = t /\ e.nr = n)
               /\ Queued(Append(s, e), t, n) <=>
                     Queued(s, t, n) \/ (e.kind = "packet" /\ e.from = t /\ e.nr = n)
  <2> DEFINE s2 == Append(s, e)
  <2>1. /\ Len(s2) = Len(s) + 1 /\ s2[Len(s) + 1] = e
        /\ \A i \in 1 .. Len(s) : s2[i] = s[i]
    BY AppendProperties
  <2> HIDE DEF s2
  <2>2. 1 .. Len(s2) = (1 .. Len(s)) \cup {Len(s) + 1}
    BY <1>1, <2>1
  <2>3. QED
    BY <2>1, <2>2 DEF OnWire, Queued, s2
<1>3. ASSUME s # <<>>
      PROVE  \A t, n :
               /\ OnWire(s, t, n) <=> OnWire(Tail(s), t, n) \/ (Head(s).from = t /\ Head(s).nr = n)
               /\ Queued(s, t, n) <=>
                     Queued(Tail(s), t, n) \/ (Head(s).kind = "packet" /\ Head(s).from = t /\ Head(s).nr = n)
  <2> DEFINE s2 == Tail(s)
             e == Head(s)
  <2>1. /\ Len(s2) = Len(s) - 1 /\ Len(s) \in Nat \ {0} /\ e = s[1]
        /\ \A i \in 1 .. Len(s) - 1 : s2[i] = s[i + 1]
    BY <1>1, <1>3, HeadTailProperties, EmptySeq
  <2> HIDE DEF s2, e
  <2>2. \A i \in 1 .. Len(s) : i = 1 \/ (i - 1 \in 1 .. Len(s2) /\ s2[i - 1] = s[i])
    <3> SUFFICES ASSUME NEW i \in 1 .. Len(s), i # 1 PROVE i - 1 \in 1 .. Len(s2) /\ s2[i - 1] = s[i]
      OBVIOUS
    <3>1. i - 1 \in 1 .. Len(s) - 1 /\ i - 1 + 1 = i
      BY <2>1
    <3>2. QED
      BY <2>1, <3>1
  <2>3. \A i \in 1 .. Len(s2) : i + 1 \in 1 .. Len(s) /\ s2[i] = s[i + 1]
    BY <2>1
  <2>4. 1 \in 1 .. Len(s)
    BY <2>1
  <2>5. \A t, n : OnWire(s, t, n) <=> OnWire(s2, t, n) \/ (e.from = t /\ e.nr = n)
    BY <2>1, <2>2, <2>3, <2>4 DEF OnWire
  <2>6. \A t, n : Queued(s, t, n) <=> Queued(s2, t, n) \/ (e.kind = "packet" /\ e.from = t /\ e.nr = n)
    BY <2>1, <2>2, <2>3, <2>4 DEF Queued
  <2>7. QED
    BY <2>5, <2>6 DEF s2, e
<1>4. QED
  BY <1>2, <1>3

\* A task is queued.
LEMMA QueueGrows ==
  ASSUME NEW q \in Seq(Task), NEW w \in Seq(Frame), NEW sh \in [Threads -> Seq(1 .. MaxPackets)],
         NEW an \in [Threads -> 0 .. MaxPackets], NEW an2 \in [Threads -> 0 .. MaxPackets],
         \A t \in Threads : an[t] <= an2[t],
         Behind(q, w, sh, an), NEW g \in Task,
         g.kind = "packet" =>
            /\ g.from # Loop /\ Len(sh[g.from]) < g.nr /\ g.nr <= an2[g.from]
            /\ \A h \in 1 .. Len(w) : w[h].from = g.from => w[h].nr < g.nr
            /\ \A h \in 1 .. Len(q) : q[h].kind = "packet" /\ q[h].from = g.from => q[h].nr < g.nr
  PROVE  Behind(Append(q, g), w, sh, an2)
<1> DEFINE q2 == Append(q, g)
<1>1. /\ Len(q) \in Nat /\ Len(q2) = Len(q) + 1 /\ q2[Len(q) + 1] = g
      /\ \A i \in 1 .. Len(q) : q2[i] = q[i] /\ q[i] \in Task
  BY LenProperties, AppendProperties, ElementOfSeq
<1> HIDE DEF q2
<1> SUFFICES ASSUME NEW i \in 1 .. Len(q2), q2[i].kind = "packet"
             PROVE  /\ q2[i].from # Loop
                    /\ Len(sh[q2[i].from]) < q2[i].nr /\ q2[i].nr <= an2[q2[i].from]
                    /\ \A h \in 1 .. Len(w) : w[h].from = q2[i].from => w[h].nr < q2[i].nr
                    /\ \A h \in 1 .. i - 1 :
                          q2[h].kind = "packet" /\ q2[h].from = q2[i].from => q2[h].nr < q2[i].nr
  BY DEF Behind, q2
<1>2. \A h \in 1 .. i - 1 : h \in 1 .. Len(q) /\ q2[h] = q[h]
  BY <1>1
<1>3. CASE i \in 1 .. Len(q)
  <2>1. q2[i] = q[i] /\ q[i].from \in Threads /\ q[i].nr \in Nat
    BY <1>1, <1>3, Fields
  <2>2. an[q[i].from] <= an2[q[i].from] /\ an[q[i].from] \in Int /\ an2[q[i].from] \in Int
    BY <2>1
  <2>3. /\ q[i].from # Loop
        /\ Len(sh[q[i].from]) < q[i].nr /\ q[i].nr <= an[q[i].from]
        /\ \A h \in 1 .. Len(w) : w[h].from = q[i].from => w[h].nr < q[i].nr
        /\ \A h \in 1 .. i - 1 :
              q[h].kind = "packet" /\ q[h].from = q[i].from => q[h].nr < q[i].nr
    BY <1>3, <2>1 DEF Behind
  <2>4. q[i].nr <= an2[q[i].from]
    BY <2>1, <2>2, <2>3
  <2>5. QED
    BY <1>2, <2>1, <2>3, <2>4
<1>4. CASE i = Len(q) + 1
  BY <1>1, <1>2, <1>4
<1>5. i \in 1 .. Len(q) \/ i = Len(q) + 1
  BY <1>1
<1>6. QED
  BY <1>3, <1>4, <1>5

\* A task is taken from the queue.
LEMMA QueueShrinks ==
  ASSUME NEW q \in Seq(Task), q # <<>>, NEW w, NEW sh, NEW an, Behind(q, w, sh, an)
  PROVE  /\ Behind(Tail(q), w, sh, an)
         /\ Head(q).kind = "packet" =>
               /\ Head(q).from # Loop
               /\ Len(sh[Head(q).from]) < Head(q).nr /\ Head(q).nr <= an[Head(q).from]
               /\ \A h \in 1 .. Len(w) : w[h].from = Head(q).from => w[h].nr < Head(q).nr
               /\ \A i \in 1 .. Len(Tail(q)) :
                     Tail(q)[i].kind = "packet" /\ Tail(q)[i].from = Head(q).from =>
                        Head(q).nr < Tail(q)[i].nr
<1> DEFINE q2 == Tail(q)
           g == Head(q)
<1>1. /\ Len(q2) = Len(q) - 1 /\ Len(q) \in Nat \ {0} /\ g = q[1]
      /\ \A i \in 1 .. Len(q) - 1 : q2[i] = q[i + 1]
  BY HeadTailProperties, EmptySeq, LenProperties
<1> HIDE DEF q2, g
<1>2. ASSUME NEW i \in 1 .. Len(q2), q2[i].kind = "packet"
      PROVE  /\ q2[i].from # Loop
             /\ Len(sh[q2[i].from]) < q2[i].nr /\ q2[i].nr <= an[q2[i].from]
             /\ \A h \in 1 .. Len(w) : w[h].from = q2[i].from => w[h].nr < q2[i].nr
             /\ \A h \in 1 .. i - 1 :
                   q2[h].kind = "packet" /\ q2[h].from = q2[i].from => q2[h].nr < q2[i].nr
             /\ g.kind = "packet" /\ g.from = q2[i].from => g.nr < q2[i].nr
  <2>1. i + 1 \in 1 .. Len(q) /\ q2[i] = q[i + 1] /\ i + 1 - 1 = i
    BY <1>1
  <2>2. /\ q[i + 1].from # Loop
        /\ Len(sh[q[i + 1].from]) < q[i + 1].nr /\ q[i + 1].nr <= an[q[i + 1].from]
        /\ \A h \in 1 .. Len(w) : w[h].from = q[i + 1].from => w[h].nr < q[i + 1].nr
        /\ \A h \in 1 .. i :
              q[h].kind = "packet" /\ q[h].from = q[i + 1].from => q[h].nr < q[i + 1].nr
    BY <1>2, <2>1 DEF Behind
  <2>3. \A h \in 1 .. i - 1 : h + 1 \in 1 .. i /\ q2[h] = q[h + 1]
    BY <1>1
  <2>4. 1 \in 1 .. i
    BY <1>1
  <2>5. QED
    BY <1>1, <2>1, <2>2, <2>3, <2>4
<1>3. g.kind = "packet" =>
         /\ g.from # Loop
         /\ Len(sh[g.from]) < g.nr /\ g.nr <= an[g.from]
         /\ \A h \in 1 .. Len(w) : w[h].from = g.from => w[h].nr < g.nr
  <2>1. 1 \in 1 .. Len(q)
    BY <1>1
  <2>2. QED
    BY <1>1, <2>1 DEF Behind
<1>4. Behind(q2, w, sh, an)
  BY <1>2 DEF Behind
<1>5. QED
  BY <1>2, <1>3, <1>4 DEF q2, g

\* The queue stays behind a wire that gets a packet from before it, and behind one whose
\* first packet is shown.
LEMMA QueueWaits ==
  ASSUME NEW q \in Seq(Task), NEW w \in Seq(Frame), NEW sh, NEW an, Behind(q, w, sh, an)
  PROVE  /\ \A f \in Frame :
               (\A i \in 1 .. Len(q) : q[i].kind = "packet" /\ q[i].from = f.from => f.nr < q[i].nr)
               => Behind(q, Append(w, f), sh, an)
         /\ \A sh2 : /\ w # <<>>
                     /\ \A i \in 1 .. Len(q) : q[i].kind = "packet" => Len(sh2[q[i].from]) < q[i].nr
                     => Behind(q, Tail(w), sh2, an)
<1>1. ASSUME NEW f \in Frame,
             \A i \in 1 .. Len(q) : q[i].kind = "packet" /\ q[i].from = f.from => f.nr < q[i].nr
      PROVE  Behind(q, Append(w, f), sh, an)
  <2> DEFINE w2 == Append(w, f)
  <2>1. /\ Len(w) \in Nat /\ Len(w2) = Len(w) + 1 /\ w2[Len(w) + 1] = f
        /\ \A i \in 1 .. Len(w) : w2[i] = w[i]
    BY LenProperties, AppendProperties
  <2> HIDE DEF w2
  <2>2. \A h \in 1 .. Len(w2) : (h \in 1 .. Len(w) /\ w2[h] = w[h]) \/ w2[h] = f
    BY <2>1
  <2>3. QED
    BY <1>1, <2>2 DEF Behind, w2
<1>2. ASSUME NEW sh2, w # <<>>,
             \A i \in 1 .. Len(q) : q[i].kind = "packet" => Len(sh2[q[i].from]) < q[i].nr
      PROVE  Behind(q, Tail(w), sh2, an)
  <2>1. \A h \in 1 .. Len(Tail(w)) : h + 1 \in 1 .. Len(w) /\ Tail(w)[h] = w[h + 1]
    BY <1>2, HeadTailProperties, LenProperties, EmptySeq
  <2>2. QED
    BY <1>2, <2>1 DEF Behind
<1>3. QED
  BY <1>1, <1>2

\* More may be announced.
LEMMA MoreAnnounced ==
  ASSUME NEW q \in Seq(Task), NEW w \in Seq(Frame), NEW sh,
         NEW an \in [Threads -> 0 .. MaxPackets], NEW an2 \in [Threads -> 0 .. MaxPackets],
         \A t \in Threads : an[t] <= an2[t],
         InOrder(w, sh, an), Behind(q, w, sh, an)
  PROVE  InOrder(w, sh, an2) /\ Behind(q, w, sh, an2)
<1>1. \A i \in 1 .. Len(w) : w[i].from \in Threads /\ w[i].nr \in Int
  BY ElementOfSeq, Fields, LenProperties
<1>2. \A i \in 1 .. Len(q) : q[i].from \in Threads /\ q[i].nr \in Int
  BY ElementOfSeq, Fields, LenProperties
<1>3. \A t \in Threads : an[t] \in Int /\ an2[t] \in Int /\ an[t] <= an2[t]
  BY CodecAssumption
<1>4. InOrder(w, sh, an2)
  <2>1. \A i \in 1 .. Len(w) : w[i].nr <= an[w[i].from] => w[i].nr <= an2[w[i].from]
    BY <1>1, <1>3
  <2>2. QED
    BY <2>1 DEF InOrder
<1>5. Behind(q, w, sh, an2)
  <2>1. \A i \in 1 .. Len(q) : q[i].nr <= an[q[i].from] => q[i].nr <= an2[q[i].from]
    BY <1>2, <1>3
  <2>2. QED
    BY <2>1 DEF Behind
<1>6. QED
  BY <1>4, <1>5

\* What WriteAndFlush does to the wire.
LEMMA Written ==
  ASSUME TypeOK, NEW p \in Task, WriteAndFlush(p)
  PROVE  \/ ~ open /\ wire' = wire
         \/ open /\ \E f \in Frame : f.from = p.from /\ f.nr = p.nr /\ wire' = Append(wire, f)
<1>1. p.from \in Threads /\ p.nr \in 0 .. MaxPackets /\ sendIv \in Nat
  BY Fields DEF TypeOK
<1>2. \A iv \in Nat \cup {Plain} : [iv |-> iv, from |-> p.from, nr |-> p.nr] \in Frame
  BY <1>1 DEF Frame
<1>3. QED
  BY <1>1, <1>2 DEF WriteAndFlush, Encode

\* Types and numbers that the steps below need.
LEMMA PipeTypes ==
  ASSUME TypeOK
  PROVE  /\ tasks \in Seq(Task) /\ wire \in Seq(Frame) /\ open \in BOOLEAN
         /\ announced \in [Threads -> 0 .. MaxPackets] /\ shown \in [Threads -> Seq(1 .. MaxPackets)]
         /\ \A t \in Threads : announced[t] \in Nat /\ Len(shown[t]) \in Nat
         /\ Len(wire) \in Nat /\ Len(tasks) \in Nat
         /\ \A i \in 1 .. Len(wire) : wire[i].from \in Threads /\ wire[i].nr \in Nat
         /\ \A i \in 1 .. Len(tasks) : tasks[i].from \in Threads /\ tasks[i].nr \in Nat
<1>1. /\ tasks \in Seq(Task) /\ wire \in Seq(Frame) /\ open \in BOOLEAN
      /\ announced \in [Threads -> 0 .. MaxPackets] /\ shown \in [Threads -> Seq(1 .. MaxPackets)]
  BY DEF TypeOK
<1>2. \A t \in Threads : announced[t] \in Nat /\ Len(shown[t]) \in Nat
  BY <1>1, CodecAssumption, LenProperties
<1>3. QED
  BY <1>1, <1>2, LenProperties, ElementOfSeq, Fields

\* A thread announces its next packet.
LEMMA AnnouncePipe ==
  ASSUME TypeOK, TypeOK', PipeInv, NEW t \in Threads, Announce(t)
  PROVE  PipeInv'
<1> DEFINE n == announced[t] + 1
<1>1. /\ tasks \in Seq(Task) /\ wire \in Seq(Frame) /\ open \in BOOLEAN
      /\ announced \in [Threads -> 0 .. MaxPackets] /\ shown \in [Threads -> Seq(1 .. MaxPackets)]
      /\ \A u \in Threads : announced[u] \in Nat /\ Len(shown[u]) \in Nat
      /\ Len(wire) \in Nat /\ Len(tasks) \in Nat
      /\ \A i \in 1 .. Len(wire) : wire[i].from \in Threads /\ wire[i].nr \in Nat
      /\ \A i \in 1 .. Len(tasks) : tasks[i].from \in Threads /\ tasks[i].nr \in Nat
  BY PipeTypes
<1>2. /\ announced' = [announced EXCEPT ![t] = n] /\ announced[t] < MaxPackets
      /\ UNCHANGED <<client, open, peerIv, shown, peerLost>>
      /\ IF t = Loop THEN WriteAndFlush(Packet(t)) /\ UNCHANGED tasks
                     ELSE tasks' = Append(tasks, Packet(t)) /\ UNCHANGED wire
  BY DEF Announce
<1>3. /\ announced' \in [Threads -> 0 .. MaxPackets] /\ announced'[t] = n
      /\ \A u \in Threads : announced[u] <= announced'[u] /\ (u # t => announced'[u] = announced[u])
  <2>1. announced' \in [Threads -> 0 .. MaxPackets]
    BY DEF TypeOK
  <2>2. \A u \in Threads : announced'[u] = IF u = t THEN n ELSE announced[u]
    BY <1>1, <1>2
  <2>3. QED
    BY <1>1, <2>1, <2>2
<1>4. Packet(t) \in Task /\ Packet(t).kind = "packet" /\ Packet(t).from = t /\ Packet(t).nr = n
  BY <1>2, PacketIsTask DEF Packet
<1> HIDE DEF n
<1>5. Told'
  BY <1>1, <1>2, <1>3 DEF PipeInv, Told
<1>6. CASE peerLost
  BY <1>2, <1>5, <1>6 DEF PipeInv
<1>7. CASE ~ peerLost
  <2>1. /\ InOrder(wire, shown, announced) /\ Behind(tasks, wire, shown, announced)
        /\ open => Complete(tasks, wire, shown, announced)
        /\ Len(shown[t]) <= announced[t] /\ n = announced[t] + 1
    BY <1>7 DEF PipeInv, Told, n
  <2>2. InOrder(wire, shown, announced') /\ Behind(tasks, wire, shown, announced')
    BY <1>1, <1>3, <2>1, MoreAnnounced
  <2>3. \A h \in 1 .. Len(wire) : wire[h].from = t => wire[h].nr < n
    <3> SUFFICES ASSUME NEW h \in 1 .. Len(wire), wire[h].from = t PROVE wire[h].nr < n
      OBVIOUS
    <3>1. wire[h].nr # 0 => wire[h].nr <= announced[t]
      BY <2>1 DEF InOrder
    <3>2. QED
      BY <1>1, <2>1, <3>1
  <2>4. \A h \in 1 .. Len(tasks) : tasks[h].kind = "packet" /\ tasks[h].from = t => tasks[h].nr < n
    <3> SUFFICES ASSUME NEW h \in 1 .. Len(tasks), tasks[h].kind = "packet", tasks[h].from = t
                 PROVE  tasks[h].nr < n
      OBVIOUS
    <3>1. tasks[h].nr <= announced[t]
      BY <2>1 DEF Behind
    <3>2. QED
      BY <1>1, <2>1, <3>1
  <2>5. ASSUME NEW u \in Threads, NEW m \in Len(shown[u]) + 1 .. announced'[u]
        PROVE  m \in Len(shown[u]) + 1 .. announced[u] \/ (u = t /\ m = n)
    BY <1>1, <1>3, <2>1
  <2>6. CASE t = Loop /\ ~ open
    <3>1. wire' = wire /\ tasks' = tasks
      BY <1>2, <1>4, <2>6, Written
    <3>2. QED
      BY <1>2, <1>5, <2>2, <2>6, <3>1 DEF PipeInv
  <2>7. CASE t = Loop /\ open
    <3>1. PICK f \in Frame : f.from = t /\ f.nr = n /\ wire' = Append(wire, f)
      BY <1>2, <1>4, <2>7, Written
    <3>2. \A u \in Threads : \A m : Queued(tasks, u, m) => u # Loop
      BY <2>1 DEF Queued, Behind
    <3>3. \A m \in Len(shown[t]) + 1 .. n - 1 : OnWire(wire, t, m)
      <4> SUFFICES ASSUME NEW m \in Len(shown[t]) + 1 .. n - 1 PROVE OnWire(wire, t, m)
        OBVIOUS
      <4>1. m \in Len(shown[t]) + 1 .. announced[t]
        BY <1>1, <2>1
      <4>2. QED
        BY <2>1, <2>7, <3>2, <4>1 DEF Complete
    <3>4. Len(shown[t]) < n /\ n <= announced'[t]
      BY <1>1, <1>3, <2>1
    <3>5. InOrder(wire', shown, announced')
      BY <1>1, <1>3, <2>1, <2>3, <3>1, <3>3, <3>4, WireGrows
    <3>6. Behind(tasks, wire', shown, announced')
      <4>1. \A i \in 1 .. Len(tasks) : tasks[i].kind = "packet" => tasks[i].from # f.from
        BY <2>1, <2>7, <3>1 DEF Behind
      <4>2. QED
        BY <1>1, <2>2, <3>1, <4>1, QueueWaits
    <3>7. Complete(tasks, wire', shown, announced')
      <4>1. \A u, m : OnWire(wire', u, m) <=> OnWire(wire, u, m) \/ (u = t /\ m = n)
        BY <1>1, <3>1, Placed
      <4>2. QED
        BY <2>1, <2>5, <2>7, <4>1 DEF Complete
    <3>8. QED
      BY <1>2, <1>5, <2>7, <3>5, <3>6, <3>7 DEF PipeInv
  <2>8. CASE t # Loop
    <3>1. tasks' = Append(tasks, Packet(t)) /\ wire' = wire
      BY <1>2, <2>8
    <3>2. Len(shown[t]) < n /\ n <= announced'[t]
      BY <1>1, <1>3, <2>1
    <3>3. Behind(tasks', wire, shown, announced')
      BY <1>1, <1>3, <1>4, <2>1, <2>3, <2>4, <2>8, <3>1, <3>2, QueueGrows
    <3>4. open => Complete(tasks', wire, shown, announced')
      <4>1. \A u, m : Queued(tasks', u, m) <=> Queued(tasks, u, m) \/ (u = t /\ m = n)
        BY <1>1, <1>4, <3>1, Placed
      <4>2. QED
        BY <2>1, <2>5, <4>1 DEF Complete
    <3>5. QED
      BY <1>2, <1>5, <2>2, <3>1, <3>3, <3>4 DEF PipeInv
  <2>9. QED
    BY <1>1, <2>6, <2>7, <2>8
<1>8. QED
  BY <1>6, <1>7

\* What ends the session puts other tasks on the queue.
LEMMA EndPipe ==
  ASSUME TypeOK, PipeInv, UNCHANGED outbound, open' => open,
         \/ tasks' = tasks
         \/ \E g \in Task : g.kind # "packet" /\ tasks' = Append(tasks, g)
  PROVE  PipeInv'
<1>1. UNCHANGED <<announced, wire, shown, peerLost>>
  BY DEF outbound
<1>2. /\ tasks \in Seq(Task) /\ wire \in Seq(Frame)
      /\ announced \in [Threads -> 0 .. MaxPackets] /\ shown \in [Threads -> Seq(1 .. MaxPackets)]
  BY PipeTypes
<1>3. Told'
  BY <1>1 DEF PipeInv, Told
<1>4. CASE tasks' = tasks
  BY <1>1, <1>3, <1>4 DEF PipeInv
<1>5. ASSUME NEW g \in Task, g.kind # "packet", tasks' = Append(tasks, g)
      PROVE  PipeInv'
  <2>1. \A t \in Threads : announced[t] <= announced[t]
    BY PipeTypes
  <2>2. Behind(tasks, wire, shown, announced) => Behind(tasks', wire, shown, announced)
    BY <1>2, <1>5, <2>1, QueueGrows
  <2>3. \A u, m : Queued(tasks', u, m) <=> Queued(tasks, u, m)
    BY <1>2, <1>5, Placed
  <2>4. Complete(tasks, wire, shown, announced) => Complete(tasks', wire, shown, announced)
    BY <2>3 DEF Complete
  <2>5. QED
    BY <1>1, <1>3, <2>2, <2>4 DEF PipeInv
<1>6. QED
  BY <1>4, <1>5

\* The loop runs its next task.
LEMMA RunTaskPipe ==
  ASSUME TypeOK, PipeInv, RunTask
  PROVE  PipeInv'
<1> DEFINE g == Head(tasks)
           rest == Tail(tasks)
<1>1. /\ tasks \in Seq(Task) /\ wire \in Seq(Frame) /\ open \in BOOLEAN
      /\ announced \in [Threads -> 0 .. MaxPackets] /\ shown \in [Threads -> Seq(1 .. MaxPackets)]
      /\ \A u \in Threads : announced[u] \in Nat /\ Len(shown[u]) \in Nat
  BY PipeTypes
<1>2. tasks # <<>> /\ UNCHANGED <<announced, peerIv, shown, peerLost>>
  BY DEF RunTask
<1>3. g \in Task /\ rest \in Seq(Task) /\ g.from \in Threads /\ g.nr \in Nat
  BY <1>1, <1>2, HeadTailProperties, Fields
<1>4. Told'
  BY <1>2 DEF PipeInv, Told
<1>5. ASSUME Behind(tasks, wire, shown, announced)
      PROVE  /\ Behind(rest, wire, shown, announced)
             /\ g.kind = "packet" =>
                   /\ Len(shown[g.from]) < g.nr /\ g.nr <= announced[g.from]
                   /\ \A h \in 1 .. Len(wire) : wire[h].from = g.from => wire[h].nr < g.nr
                   /\ \A i \in 1 .. Len(rest) :
                         rest[i].kind = "packet" /\ rest[i].from = g.from => g.nr < rest[i].nr
  BY <1>1, <1>2, <1>5, QueueShrinks
<1>6. \A t, n : Queued(tasks, t, n) <=> Queued(rest, t, n) \/ (g.kind = "packet" /\ g.from = t /\ g.nr = n)
  BY <1>1, <1>2, Placed
<1>7. \/ g.kind = "packet" /\ WriteAndFlush(g) /\ tasks' = rest /\ UNCHANGED open
      \/ /\ g.kind # "packet" /\ wire' = wire /\ (open' => open)
         /\ tasks' \in {rest, Append(rest, Inactive)}
  BY DEF RunTask
<1> HIDE DEF g, rest
<1>8. CASE peerLost
  BY <1>2, <1>4, <1>8 DEF PipeInv
<1>9. CASE ~ peerLost
  <2>1. /\ InOrder(wire, shown, announced) /\ Behind(tasks, wire, shown, announced)
        /\ open => Complete(tasks, wire, shown, announced)
    BY <1>9 DEF PipeInv
  <2>2. \A t \in Threads : announced[t] <= announced[t]
    BY <1>1
  <2>3. CASE g.kind # "packet" /\ wire' = wire /\ (open' => open)
             /\ tasks' \in {rest, Append(rest, Inactive)}
    <3>1. Inactive \in Task /\ Inactive.kind # "packet"
      BY CodecAssumption DEF Inactive, Task
    <3>2. Behind(tasks', wire, shown, announced)
      BY <1>1, <1>3, <1>5, <2>1, <2>2, <2>3, <3>1, QueueGrows
    <3>3. \A t, n : Queued(tasks, t, n) => Queued(tasks', t, n)
      <4>1. \A t, n : Queued(tasks, t, n) => Queued(rest, t, n)
        BY <1>6, <2>3
      <4>2. \A t, n : Queued(Append(rest, Inactive), t, n) <=> Queued(rest, t, n)
        BY <1>3, <3>1, Placed
      <4>3. QED
        BY <2>3, <4>1, <4>2
    <3>4. Complete(tasks, wire, shown, announced) => Complete(tasks', wire, shown, announced)
      BY <3>3 DEF Complete
    <3>5. QED
      BY <1>2, <1>4, <2>1, <2>3, <3>2, <3>4 DEF PipeInv
  <2>4. CASE g.kind = "packet" /\ WriteAndFlush(g) /\ tasks' = rest /\ UNCHANGED open
    <3>1. \/ ~ open /\ wire' = wire
          \/ open /\ \E f \in Frame : f.from = g.from /\ f.nr = g.nr /\ wire' = Append(wire, f)
      BY <1>3, <2>4, Written
    <3>2. CASE ~ open /\ wire' = wire
      BY <1>2, <1>4, <1>5, <2>1, <2>4, <3>2 DEF PipeInv
    <3>3. ASSUME open, NEW f \in Frame, f.from = g.from, f.nr = g.nr, wire' = Append(wire, f)
          PROVE  PipeInv'
      <4>1. \A m \in Len(shown[g.from]) + 1 .. g.nr - 1 : OnWire(wire, g.from, m)
        <5> SUFFICES ASSUME NEW m \in Len(shown[g.from]) + 1 .. g.nr - 1 PROVE OnWire(wire, g.from, m)
          OBVIOUS
        <5>1. m \in Len(shown[g.from]) + 1 .. announced[g.from] /\ m < g.nr
          BY <1>1, <1>3, <1>5, <2>1, <2>4
        <5>2. OnWire(wire, g.from, m) \/ Queued(tasks, g.from, m)
          BY <1>3, <2>1, <3>3, <5>1 DEF Complete
        <5>3. ~ Queued(rest, g.from, m)
          <6> SUFFICES ASSUME Queued(rest, g.from, m) PROVE FALSE
            OBVIOUS
          <6>1. g.nr < m
            BY <1>5, <2>1, <2>4 DEF Queued
          <6>2. QED
            BY <1>3, <5>1, <6>1
        <5>4. g.nr # m
          BY <1>3, <5>1
        <5>5. QED
          BY <1>6, <5>2, <5>3, <5>4
      <4>2. InOrder(wire', shown, announced)
        BY <1>1, <1>5, <2>1, <2>2, <2>4, <3>3, <4>1, WireGrows
      <4>3. Behind(rest, wire', shown, announced)
        BY <1>1, <1>3, <1>5, <2>1, <2>4, <3>3, QueueWaits
      <4>4. Complete(rest, wire', shown, announced)
        <5>1. \A t, n : OnWire(wire', t, n) <=> OnWire(wire, t, n) \/ (g.from = t /\ g.nr = n)
          BY <1>1, <3>3, Placed
        <5>2. QED
          BY <1>6, <2>1, <3>3, <5>1 DEF Complete
      <4>5. QED
        BY <1>2, <1>4, <2>4, <4>2, <4>3, <4>4 DEF PipeInv
    <3>4. QED
      BY <3>1, <3>2, <3>3
  <2>5. QED
    BY <1>7, <2>3, <2>4
<1>10. QED
  BY <1>8, <1>9

\* The game client reads a frame: the next packet of its thread, or the hello.
LEMMA PeerReadsPipe ==
  ASSUME TypeOK, TypeOK', PipeInv, PeerReads
  PROVE  /\ PipeInv'
         /\ \/ UNCHANGED shown
            \/ \E t \in Threads : /\ Len(shown[t]) < announced[t]
                                  /\ shown' = [shown EXCEPT ![t] = Append(@, Len(@) + 1)]
<1> DEFINE f == Head(wire)
<1>1. /\ tasks \in Seq(Task) /\ wire \in Seq(Frame)
      /\ announced \in [Threads -> 0 .. MaxPackets] /\ shown \in [Threads -> Seq(1 .. MaxPackets)]
      /\ \A u \in Threads : announced[u] \in Nat /\ Len(shown[u]) \in Nat
      /\ \A i \in 1 .. Len(tasks) : tasks[i].from \in Threads /\ tasks[i].nr \in Nat
      /\ shown' \in [Threads -> Seq(1 .. MaxPackets)]
  <2>1. shown' \in [Threads -> Seq(1 .. MaxPackets)]
    BY DEF TypeOK
  <2>2. QED
    BY <2>1, PipeTypes
<1>2. /\ wire # <<>> /\ ~ peerLost /\ wire' = Tail(wire)
      /\ UNCHANGED <<open, tasks, announced>>
      /\ \/ UNCHANGED shown /\ (f.nr = 0 \/ peerLost')
         \/ f.nr # 0 /\ shown' = [shown EXCEPT ![f.from] = Append(@, f.nr)]
  BY DEF PeerReads
<1>3. /\ InOrder(wire, shown, announced) /\ Behind(tasks, wire, shown, announced)
      /\ open => Complete(tasks, wire, shown, announced)
      /\ Told
  BY <1>2 DEF PipeInv
<1>4. \A t, n : OnWire(wire, t, n) <=> OnWire(Tail(wire), t, n) \/ (f.from = t /\ f.nr = n)
  BY <1>1, <1>2, Placed
<1>5. f \in Frame /\ f.from \in Threads /\ f.nr \in Nat
  BY <1>1, <1>2, HeadTailProperties, Fields
<1>6. f = Head(wire)
  OBVIOUS
<1> HIDE DEF f
<1>7. CASE UNCHANGED shown /\ peerLost'
  BY <1>2, <1>3, <1>7 DEF PipeInv, Told
<1>8. ASSUME NEW sh2 \in [Threads -> Seq(1 .. MaxPackets)],
             OneMore(shown, sh2, f)
      PROVE  /\ f.nr # 0 => f.nr = Len(shown[f.from]) + 1 /\ f.nr <= announced[f.from]
             /\ InOrder(wire', sh2, announced) /\ Behind(tasks, wire', sh2, announced)
             /\ open => Complete(tasks, wire', sh2, announced)
  <2>1. /\ f.nr # 0 => f.nr = Len(shown[f.from]) + 1 /\ f.nr <= announced[f.from]
        /\ InOrder(wire', sh2, announced) /\ Len(wire) \in Nat \ {0} /\ wire[1] = f
    <3>1. /\ f.nr # 0 => f.nr = Len(shown[f.from]) + 1 /\ f.nr <= announced[f.from]
          /\ InOrder(Tail(wire), sh2, announced) /\ Len(wire) \in Nat \ {0} /\ wire[1] = f
      <4>1. /\ wire \in Seq(Frame) /\ shown \in [Threads -> Seq(1 .. MaxPackets)] /\ wire # <<>>
            /\ announced \in [Threads -> 0 .. MaxPackets] /\ InOrder(wire, shown, announced)
            /\ sh2 \in [Threads -> Seq(1 .. MaxPackets)] /\ OneMore(shown, sh2, f)
        BY <1>1, <1>2, <1>3, <1>8
      <4>2. QED
        BY <4>1, WireReads DEF f
    <3>2. QED
      BY <1>2, <3>1
  <2>2. Behind(tasks, wire', sh2, announced)
    <3>1. ASSUME NEW i \in 1 .. Len(tasks), tasks[i].kind = "packet"
          PROVE  Len(sh2[tasks[i].from]) < tasks[i].nr
      <4>1. /\ Len(shown[tasks[i].from]) < tasks[i].nr
            /\ \A h \in 1 .. Len(wire) : wire[h].from = tasks[i].from => wire[h].nr < tasks[i].nr
        BY <1>3, <3>1 DEF Behind
      <4>2. 1 \in 1 .. Len(wire)
        BY <2>1
      <4>3. f.from = tasks[i].from => f.nr < tasks[i].nr
        BY <2>1, <4>1, <4>2
      <4>4. tasks[i].from \in Threads /\ Len(shown[tasks[i].from]) \in Nat /\ tasks[i].nr \in Nat
        BY <1>1
      <4>5. QED
        BY <1>5, <1>8, <2>1, <4>1, <4>3, <4>4 DEF OneMore
    <3>2. QED
      BY <1>1, <1>2, <1>3, <3>1, QueueWaits
  <2>3. ASSUME open PROVE Complete(tasks, wire', sh2, announced)
    <3> SUFFICES ASSUME NEW t \in Threads, NEW n \in Len(sh2[t]) + 1 .. announced[t]
                 PROVE  OnWire(wire', t, n) \/ Queued(tasks, t, n)
      BY DEF Complete
    <3>1. /\ n \in Len(shown[t]) + 1 .. announced[t] /\ n # 0
          /\ f.nr # 0 /\ t = f.from => n # Len(shown[t]) + 1
      BY <1>1, <1>8 DEF OneMore
    <3>2. OnWire(wire, t, n) \/ Queued(tasks, t, n)
      BY <1>3, <2>3, <3>1 DEF Complete
    <3>3. ~ (f.from = t /\ f.nr = n)
      BY <2>1, <3>1
    <3>4. QED
      BY <1>2, <1>4, <3>2, <3>3
  <2>4. QED
    BY <2>1, <2>2, <2>3
<1>9. CASE UNCHANGED shown /\ f.nr = 0
  <2>1. OneMore(shown, shown, f)
    BY <1>9 DEF OneMore
  <2>2. /\ InOrder(wire', shown, announced) /\ Behind(tasks, wire', shown, announced)
        /\ open => Complete(tasks, wire', shown, announced)
    BY <1>1, <1>8, <2>1
  <2>3. Told'
    BY <1>2, <1>3, <1>9 DEF Told
  <2>4. QED
    BY <1>2, <1>9, <2>2, <2>3 DEF PipeInv
<1>10. CASE f.nr # 0 /\ shown' = [shown EXCEPT ![f.from] = Append(@, f.nr)]
  <2>1. \A t \in Threads : shown'[t] = IF t = f.from THEN Append(shown[t], f.nr) ELSE shown[t]
    BY <1>1, <1>10
  <2>2. /\ Len(shown[f.from]) \in Nat /\ shown[f.from] \in Seq(1 .. MaxPackets)
        /\ f.nr \in 1 .. MaxPackets
        /\ Len(Append(shown[f.from], f.nr)) = Len(shown[f.from]) + 1
    <3>1. shown[f.from] \in Seq(1 .. MaxPackets) /\ Len(shown[f.from]) \in Nat
      BY <1>1, <1>5
    <3>2. f.nr \in 0 .. MaxPackets /\ f.nr # 0 /\ MaxPackets \in Nat
      BY <1>5, <1>10, Fields, CodecAssumption
    <3>3. f.nr \in 1 .. MaxPackets
      BY <3>2
    <3>4. QED
      BY <3>1, <3>3, AppendProperties
  <2>3. OneMore(shown, shown', f)
    <3> SUFFICES ASSUME NEW t \in Threads
                 PROVE  Len(shown'[t]) = IF f.nr # 0 /\ t = f.from THEN Len(shown[t]) + 1 ELSE Len(shown[t])
      BY DEF OneMore
    <3>1. CASE t = f.from
      BY <1>10, <2>1, <2>2, <3>1
    <3>2. CASE t # f.from
      BY <2>1, <3>2
    <3>3. QED
      BY <3>1, <3>2
  <2>4. /\ f.nr = Len(shown[f.from]) + 1 /\ f.nr <= announced[f.from]
        /\ InOrder(wire', shown', announced) /\ Behind(tasks, wire', shown', announced)
        /\ open => Complete(tasks, wire', shown', announced)
    BY <1>1, <1>8, <1>10, <2>3
  <2>5. Told'
    <3> SUFFICES ASSUME NEW t \in Threads
                 PROVE  /\ shown'[t] = [i \in 1 .. Len(shown'[t]) |-> i]
                        /\ Len(shown'[t]) <= announced[t]
      BY <1>2 DEF Told
    <3>1. shown[t] = [i \in 1 .. Len(shown[t]) |-> i] /\ Len(shown[t]) <= announced[t]
      BY <1>3 DEF Told
    <3>2. CASE t # f.from
      BY <2>1, <3>1, <3>2
    <3>3. CASE t = f.from
      <4> DEFINE k == Len(shown[t])
                 long == Append(shown[t], k + 1)
      <4>1. shown'[t] = long /\ k \in Nat /\ shown[t] \in Seq(1 .. MaxPackets) /\ k + 1 \in 1 .. MaxPackets
        BY <2>1, <2>2, <2>4, <3>3
      <4>2. /\ long \in Seq(1 .. MaxPackets) /\ Len(long) = k + 1 /\ long[k + 1] = k + 1
            /\ \A i \in 1 .. k : long[i] = shown[t][i]
        BY <4>1, AppendProperties
      <4> HIDE DEF long
      <4>3. \A i \in 1 .. k + 1 : long[i] = i
        <5> SUFFICES ASSUME NEW i \in 1 .. k + 1 PROVE long[i] = i
          OBVIOUS
        <5>1. i = k + 1 \/ i \in 1 .. k
          BY <4>1
        <5>2. \A j \in 1 .. k : shown[t][j] = j
          BY <3>1
        <5>3. QED
          BY <4>2, <5>1, <5>2
      <4>4. DOMAIN long = 1 .. k + 1 /\ long = [i \in DOMAIN long |-> long[i]]
        BY <4>2, LenProperties, SeqDef
      <4>5. QED
        BY <2>2, <2>4, <3>3, <4>1, <4>2, <4>3, <4>4
    <3>4. QED
      BY <3>2, <3>3
  <2>6. shown' = [shown EXCEPT ![f.from] = Append(@, Len(@) + 1)]
    BY <1>10, <2>4
  <2>7. Len(shown[f.from]) < announced[f.from]
    BY <1>1, <1>5, <2>4
  <2>8. QED
    BY <1>2, <1>5, <2>4, <2>5, <2>6, <2>7 DEF PipeInv
<1>11. QED
  BY <1>2, <1>7, <1>9, <1>10

\* The hello is the first frame, before anything is announced.
LEMMA ConnectPipe ==
  ASSUME OutInv, PipeInv, Connect
  PROVE  PipeInv'
<1>1. /\ wire = <<>> /\ tasks = <<>> /\ ~ peerLost /\ wire' = <<Hello>>
      /\ UNCHANGED <<open, tasks, announced, shown, peerLost>>
  BY DEF Connect, OutInv, Fresh
<1>2. Len(wire') = 1 /\ wire'[1] = Hello /\ Hello.nr = 0
  BY <1>1 DEF Hello
<1>3. InOrder(wire', shown, announced)
  BY <1>2 DEF InOrder
<1>4. Behind(tasks, wire', shown, announced)
  BY <1>1 DEF Behind
<1>5. open => Complete(tasks, wire', shown, announced)
  BY <1>1 DEF PipeInv, Complete, OnWire
<1>6. QED
  BY <1>1, <1>3, <1>4, <1>5 DEF PipeInv, Told

\* Nothing is under way, and nothing has been announced.
LEMMA InitPipe == Init => PipeInv
<1> SUFFICES ASSUME Init PROVE PipeInv
  OBVIOUS
<1>1. wire = <<>> /\ tasks = <<>> /\ Len(wire) = 0 /\ Len(tasks) = 0
  BY DEF Init
<1>2. \A t \in Threads : shown[t] = <<>> /\ Len(shown[t]) = 0 /\ announced[t] = 0
  BY DEF Init
<1>3. Told
  BY <1>2, EmptySeq DEF Told
<1>4. InOrder(wire, shown, announced) /\ Behind(tasks, wire, shown, announced)
  BY <1>1 DEF InOrder, Behind
<1>5. Complete(tasks, wire, shown, announced)
  BY <1>2 DEF Complete
<1>6. QED
  BY <1>3, <1>4, <1>5 DEF PipeInv

\* Whoever ends the session, the queue only gets what is no packet.
LEMMA EndTasks ==
  ASSUME TypeOK,
         \/ \E t \in Threads : Disconnect(t) \/ Kick(t)
         \/ ConnectionLost
  PROVE  /\ UNCHANGED outbound
         /\ client' \in {client, "gone"} /\ open' \in {open, FALSE}
         /\ \/ tasks' = tasks
            \/ \E g \in Task : g.kind # "packet" /\ tasks' = Append(tasks, g)
<1>1. Close \in Task /\ Inactive \in Task /\ Close.kind # "packet" /\ Inactive.kind # "packet"
  BY CodecAssumption DEF Close, Inactive, Task
<1>2. open \in BOOLEAN
  BY DEF TypeOK
<1>3. CloseNow => /\ open' \in {open, FALSE}
                  /\ \/ tasks' = tasks
                     \/ \E g \in Task : g.kind # "packet" /\ tasks' = Append(tasks, g)
  BY <1>1 DEF CloseNow
<1>4. ASSUME NEW t \in Threads, CloseBy(t)
      PROVE  /\ open' \in {open, FALSE}
             /\ \/ tasks' = tasks
                \/ \E g \in Task : g.kind # "packet" /\ tasks' = Append(tasks, g)
  BY <1>1, <1>2, <1>3, <1>4 DEF CloseBy
<1>5. CASE ConnectionLost
  BY <1>3, <1>5 DEF ConnectionLost
<1>6. ASSUME NEW t \in Threads, Disconnect(t) \/ Kick(t)
      PROVE  CloseBy(t) /\ UNCHANGED outbound /\ client' \in {client, "gone"}
  BY <1>6 DEF Disconnect, Kick
<1>7. QED
  BY <1>4, <1>5, <1>6

-----------------------------------------------------------------------------
(* Outbound                                                                 *)

\* Every step of the connection is a step of the pipe to the client, or none.
LEMMA OutboundStep ==
  ASSUME IInv, IInv', PipeInv, [Next]_vars
  PROVE  PipeInv' /\ [ToClient!Next]_(ToClient!vars)
<1> USE DEF ToClient!vars
<1>1. TypeOK /\ TypeOK' /\ OutInv /\ InInv /\ open \in BOOLEAN
  BY DEF IInv, TypeOK
<1>2. ASSUME UNCHANGED <<client, open, tasks, outbound>>
      PROVE  PipeInv' /\ UNCHANGED ToClient!vars
  BY <1>2 DEF PipeInv, Told, outbound
<1>3. ASSUME UNCHANGED <<announced, shown>>, open' \in {open, FALSE},
             client' \in {client, "gone"} \/ (client = "new" /\ client' = "set")
      PROVE  [ToClient!Next]_(ToClient!vars)
  <2>1. CASE (open /\ client # "gone") = (open' /\ client' # "gone")
    BY <1>3, <2>1
  <2>2. CASE (open /\ client # "gone") # (open' /\ client' # "gone")
    <3>1. (open' /\ client' # "gone") => (open /\ client # "gone")
      BY <1>3
    <3>2. (open /\ client # "gone") /\ ~ (open' /\ client' # "gone")
      BY <2>2, <3>1
    <3>3. ToClient!End
      BY <1>3, <3>2 DEF ToClient!End
    <3>4. QED
      BY <3>3 DEF ToClient!Next
  <2>3. QED
    BY <2>1, <2>2
<1>4. CASE Connect
  BY <1>1, <1>3, <1>4, ConnectPipe DEF Connect
<1>5. CASE RunTask
  <2>1. /\ UNCHANGED <<announced, shown>> /\ open' \in {open, FALSE} /\ client' \in {client, "gone"}
    <3>1. \/ UNCHANGED <<client, open>>
          \/ open' = FALSE /\ UNCHANGED client
          \/ client' = "gone" /\ UNCHANGED open
      BY <1>5 DEF RunTask
    <3>2. UNCHANGED <<announced, shown>>
      BY <1>5 DEF RunTask
    <3>3. QED
      BY <1>1, <3>1, <3>2
  <2>2. [ToClient!Next]_(ToClient!vars)
    BY <1>3, <2>1
  <2>3. QED
    BY <1>1, <1>5, <2>2, RunTaskPipe
<1>6. ASSUME \/ \E t \in Threads : Disconnect(t) \/ Kick(t)
             \/ ConnectionLost
      PROVE  PipeInv' /\ [ToClient!Next]_(ToClient!vars)
  <2>1. /\ UNCHANGED outbound /\ client' \in {client, "gone"} /\ open' \in {open, FALSE}
        /\ \/ tasks' = tasks
           \/ \E g \in Task : g.kind # "packet" /\ tasks' = Append(tasks, g)
    BY <1>1, <1>6, EndTasks
  <2>2. UNCHANGED <<announced, shown>>
    BY <2>1 DEF outbound
  <2>3. [ToClient!Next]_(ToClient!vars)
    BY <1>3, <2>1, <2>2
  <2>4. open' => open
    BY <1>1, <2>1
  <2>5. QED
    BY <1>1, <2>1, <2>3, <2>4, EndPipe
<1>7. ASSUME NEW t \in Threads, Announce(t)
      PROVE  PipeInv' /\ [ToClient!Next]_(ToClient!vars)
  <2>1. PipeInv'
    BY <1>1, <1>7, AnnouncePipe
  <2>2. /\ announced' = [announced EXCEPT ![t] = @ + 1]
        /\ UNCHANGED <<client, open, shown>>
    BY <1>7 DEF Announce
  <2>3. ToClient!Announce(t)
    BY <2>2 DEF ToClient!Announce
  <2>4. QED
    BY <2>1, <2>3 DEF ToClient!Next
<1>8. CASE PeerReads
  <2>1. UNCHANGED <<client, open, announced>>
    BY <1>8 DEF PeerReads
  <2>2. /\ PipeInv'
        /\ \/ UNCHANGED shown
           \/ \E t \in Threads : /\ Len(shown[t]) < announced[t]
                                 /\ shown' = [shown EXCEPT ![t] = Append(@, Len(@) + 1)]
    BY <1>1, <1>8, PeerReadsPipe
  <2>3. ASSUME NEW t \in Threads, Len(shown[t]) < announced[t],
               shown' = [shown EXCEPT ![t] = Append(@, Len(@) + 1)]
        PROVE  ToClient!Next
    BY <2>1, <2>3 DEF ToClient!Arrive, ToClient!Next
  <2>4. QED
    BY <2>1, <2>2, <2>3
<1>9. CASE Receive \/ PeerSends
  BY <1>2, <1>9 DEF Receive, PeerSends
<1>10. CASE Decode
  BY <1>1, <1>2, <1>10, DecodeIn, Halves
<1>11. CASE UNCHANGED vars
  BY <1>2, <1>11 DEF vars
<1>12. QED
  BY <1>4, <1>5, <1>6, <1>7, <1>8, <1>9, <1>10, <1>11 DEF Next

\* MapleClient.announce keeps what a pipe to the client promises, as far as safety goes: of
\* each thread's packets those shown are the first ones, whole, once and in order, whatever
\* tasks of the loop, replies and ends of the session come between.
THEOREM OutboundPipe == Spec => ToClient!Init /\ [][ToClient!Next]_(ToClient!vars)
<1>1. Init => ToClient!Init
  BY DEF Init, ToClient!Init
<1>2. IInv /\ PipeInv /\ IInv' /\ [Next]_vars => PipeInv' /\ [ToClient!Next]_(ToClient!vars)
  BY OutboundStep
<1>3. QED
  BY <1>1, <1>2, InitPipe, Invariance, PTL DEF Spec

\* Once the wire and the loop's queue are empty, everything announced over a connection that
\* is still open has been understood.
Drained == open /\ wire = <<>> /\ tasks = <<>> /\ ~ peerLost =>
    \A t \in Threads : shown[t] = [i \in 1 .. announced[t] |-> i]

\* MaplePacketEncoder and the loop's queue lose nothing: what is neither queued nor on the
\* wire has arrived, all of it and in order.
THEOREM NothingMissing == Spec => []Drained
<1>1. IInv /\ PipeInv => Drained
  <2> SUFFICES ASSUME IInv, PipeInv, open, wire = <<>>, tasks = <<>>, ~ peerLost,
                      NEW t \in Threads
               PROVE  shown[t] = [i \in 1 .. announced[t] |-> i]
    BY DEF Drained
  <2>1. Told /\ Complete(tasks, wire, shown, announced) /\ Len(wire) = 0 /\ Len(tasks) = 0
    BY DEF PipeInv
  <2>2. announced[t] \in Nat /\ Len(shown[t]) \in Nat
    BY PipeTypes DEF IInv
  <2>3. \A n \in Len(shown[t]) + 1 .. announced[t] : FALSE
    BY <2>1 DEF Complete, OnWire, Queued
  <2>4. Len(shown[t]) = announced[t]
    <3>1. Len(shown[t]) <= announced[t]
      BY <2>1 DEF Told
    <3>2. ~ (Len(shown[t]) + 1 <= announced[t])
      BY <2>2, <2>3
    <3>3. QED
      BY <2>2, <3>1, <3>2
  <2>5. QED
    BY <2>1, <2>4 DEF Told
<1>2. IInv /\ PipeInv /\ IInv' /\ [Next]_vars => PipeInv'
  BY OutboundStep
<1>3. QED
  BY <1>1, <1>2, InitPipe, Invariance, PTL DEF Spec

-----------------------------------------------------------------------------
(* Inbound                                                                  *)

\* The bytes under way are of packets that the game client has sent.
SentByte(sent) == [nr : 1 .. sent, pos : Nat \ {0}]
AllSent == buffer \in Seq(SentByte(requests)) /\ net \in Seq(SentByte(requests))

\* No packet is read before it has been sent.
NoneAhead == recvIv <= requests

\* A sequence over a set is one over every larger set.
LEMMA SeqOfMore ==
  ASSUME NEW S, NEW T, S \subseteq T, NEW s \in Seq(S)
  PROVE  s \in Seq(T)
<1>1. Len(s) \in Nat /\ s \in [1 .. Len(s) -> S]
  BY LenProperties
<1>2. s \in [1 .. Len(s) -> T]
  BY <1>1
<1>3. QED
  BY <1>1, <1>2

\* A packet's bytes are bytes of packets sent once it has been.
LEMMA SentBytes ==
  ASSUME NEW n \in DOMAIN Size
  PROVE  HeaderOf(n) \in Seq(SentByte(n)) /\ BodyOf(n) \in Seq(SentByte(n))
<1>1. n \in Nat \ {0} /\ Size[n] \in Nat
  BY Sizes
<1>2. HeaderOf(n) = [i \in 1 .. 4 |-> [nr |-> n, pos |-> i]]
  BY DEF HeaderOf, Bytes
<1>3. BodyOf(n) = [i \in 1 .. Size[n] |-> [nr |-> n, pos |-> 4 + i]]
  BY <1>1 DEF BodyOf, Bytes
<1> DEFINE f(l, o) == [i \in 1 .. l |-> [nr |-> n, pos |-> o + i]]
<1>4. ASSUME NEW l \in Nat, NEW o \in Nat
      PROVE  f(l, o) \in Seq(SentByte(n))
  <2>1. \A i \in 1 .. l : [nr |-> n, pos |-> o + i] \in SentByte(n)
    BY <1>1 DEF SentByte
  <2>2. f(l, o) \in [1 .. l -> SentByte(n)]
    BY <2>1
  <2> HIDE DEF f
  <2>3. QED
    BY <2>2
<1>5. HeaderOf(n) = f(4, 0) /\ BodyOf(n) = f(Size[n], 4)
  BY <1>2, <1>3
<1> HIDE DEF f
<1>6. QED
  BY <1>1, <1>4, <1>5

\* The first numbers, and one more.
LEMMA CountedOn ==
  ASSUME NEW k \in Nat, NEW s, s = [i \in 1 .. k |-> i]
  PROVE  Len(s) = k /\ Append(s, k + 1) = [i \in 1 .. k + 1 |-> i]
<1>1. s \in Seq(Nat) /\ Len(s) = k
  OBVIOUS
<1> DEFINE long == Append(s, k + 1)
           up == [i \in 1 .. k + 1 |-> i]
<1>2. /\ long \in Seq(Nat) /\ Len(long) = k + 1 /\ long[k + 1] = k + 1
      /\ \A i \in 1 .. k : long[i] = s[i]
  BY <1>1, AppendProperties
<1>3. up \in Seq(Nat) /\ Len(up) = k + 1 /\ \A i \in 1 .. k + 1 : up[i] = i
  OBVIOUS
<1> HIDE DEF long, up
<1>4. \A i \in 1 .. k + 1 : long[i] = up[i]
  <2>1. \A i \in 1 .. k + 1 : i = k + 1 \/ i \in 1 .. k
    OBVIOUS
  <2>2. QED
    BY <1>2, <1>3, <2>1
<1>5. long = up
  BY <1>2, <1>3, <1>4, SeqEqual
<1>6. QED
  BY <1>1, <1>5 DEF long, up

\* A call of the decoder reads one packet or none.
LEMMA DecodeCounts ==
  ASSUME TypeOK, InInv, Decode
  PROVE  recvIv' = recvIv \/ recvIv' = recvIv + 1
<1>1. CASE DecodeHeader \/ DecodeBody
  <2>1. UNCHANGED <<net, requests>>
    BY DEF Decode
  <2>2. QED
    BY <1>1, <2>1, DecodeKeeps
<1>2. CASE DecodeNothing
  BY <1>2 DEF DecodeNothing
<1>3. QED
  BY <1>1, <1>2 DEF Decode

\* The decoder waits for a packet that has been sent, or it has read them all.
LEMMA ReadsWhatIsSent == TypeOK /\ InInv /\ AllSent => NoneAhead
<1> SUFFICES ASSUME TypeOK, InInv, AllSent PROVE recvIv <= requests
  BY DEF NoneAhead
<1>1. /\ recvIv \in Nat /\ requests \in Nat
      /\ buffer \in Seq(SentByte(requests)) /\ net \in Seq(SentByte(requests))
  BY Sizes DEF TypeOK, AllSent
<1>2. Stream \in Seq(SentByte(requests))
  BY <1>1, ConcatProperties DEF Stream
<1>3. Starts(Stream, recvIv, packetlength, requests)
  BY DEF InInv
<1>4. CASE Stream = <<>>
  BY <1>1, <1>3, <1>4 DEF Starts
<1>5. CASE Stream # <<>>
  <2>1. Len(Stream) \in Nat \ {0}
    BY <1>2, <1>5, LenProperties, EmptySeq
  <2>2. Stream[1] \in SentByte(requests)
    BY <1>2, <2>1, ElementOfSeq
  <2>3. Stream[1].nr = recvIv + 1
    BY <1>3, <1>5 DEF Starts, Is
  <2>4. Stream[1].nr <= requests
    BY <1>1, <2>2 DEF SentByte
  <2>5. QED
    BY <1>1, <2>3, <2>4
<1>6. QED
  BY <1>4, <1>5

\* So it does after a step.
LEMMA ReadsAfter == TypeOK' /\ InInv' /\ AllSent' => NoneAhead'
BY ReadsWhatIsSent, PTL

\* The decoder only takes bytes from the front of its buffer.
LEMMA DecodeTakes ==
  ASSUME TypeOK, InInv, Decode, NEW S, buffer \in Seq(S)
  PROVE  buffer' \in Seq(S)
<1>1. ASSUME NEW s \in Seq(S), NEW n \in Nat, TakeBody(s, n)
      PROVE  buffer' \in Seq(S)
  BY <1>1, LenProperties, DropIsRest DEF TakeBody
<1>2. CASE DecodeBody
  <2>1. packetlength \in Nat
    BY <1>2, Sizes DEF DecodeBody, TypeOK, Range
  <2>2. QED
    BY <1>1, <1>2, <2>1 DEF DecodeBody
<1>3. CASE DecodeHeader
  <2>1. 4 \in 0 .. Len(buffer) /\ packetlength = -1 /\ Len(buffer) >= 4
    BY <1>3, LenProperties DEF DecodeHeader
  <2>2. /\ CheckPacket(SubSeq(buffer, 1, 4)) /\ recvIv + 1 \in DOMAIN Size
        /\ GetPacketLength(SubSeq(buffer, 1, 4)) = Size[recvIv + 1]
    <3>1. recvIv \in 0 .. Len(Size) /\ recvIv < Len(Size)
      BY <2>1, HeaderFits DEF TypeOK
    <3>2. recvIv + 1 \in DOMAIN Size
      BY <3>1, Sizes
    <3>3. QED
      BY <2>1, <3>2, HeaderFits
  <2>3. Drop(buffer, 4) \in Seq(S) /\ Size[recvIv + 1] \in Nat
    BY <2>1, <2>2, DropIsRest, Sizes
  <2>4. TakeBody(Drop(buffer, 4), Size[recvIv + 1])
    BY <1>3, <2>2 DEF DecodeHeader
  <2>5. QED
    BY <1>1, <2>3, <2>4
<1>4. CASE DecodeNothing
  BY <1>4 DEF DecodeNothing
<1>5. QED
  BY <1>2, <1>3, <1>4 DEF Decode

\* The game client sends before the server reads.
LEMMA AllSentKeeps ==
  ASSUME TypeOK, InInv, AllSent, [Next]_vars
  PROVE  AllSent'
<1>1. requests \in Nat /\ net \in Seq(SentByte(requests)) /\ buffer \in Seq(SentByte(requests))
  BY Sizes DEF TypeOK, AllSent
<1>2. CASE UNCHANGED <<buffer, net, requests>>
  BY <1>2 DEF AllSent
<1>3. CASE Receive
  <2>1. PICK n \in 1 .. Len(net) : buffer' = buffer \o SubSeq(net, 1, n) /\ net' = Drop(net, n)
    BY <1>3 DEF Receive
  <2>2. n \in 0 .. Len(net)
    BY <1>1, LenProperties
  <2>3. buffer' \in Seq(SentByte(requests)) /\ net' \in Seq(SentByte(requests))
    BY <1>1, <2>1, <2>2, Prefix, DropIsRest, ConcatProperties
  <2>4. QED
    BY <1>3, <2>3 DEF AllSent, Receive
<1>4. CASE Decode
  <2>1. buffer' \in Seq(SentByte(requests))
    BY <1>1, <1>4, DecodeTakes
  <2>2. QED
    BY <1>1, <1>4, <2>1 DEF AllSent, Decode
<1>5. CASE PeerSends
  <2> DEFINE n == requests + 1
             S == SentByte(n)
             h == HeaderOf(n)
             b == BodyOf(n)
  <2>1. requests' = n /\ net' = net \o h \o b /\ buffer' = buffer /\ requests < Len(Size)
    BY <1>5 DEF PeerSends
  <2>2. n \in DOMAIN Size /\ n \in Nat
    BY <1>1, <2>1, Sizes
  <2>3. SentByte(requests) \subseteq S
    BY <1>1 DEF SentByte
  <2>4. net \in Seq(S) /\ buffer \in Seq(S)
    BY <1>1, <2>3, SeqOfMore
  <2>5. h \in Seq(S) /\ b \in Seq(S)
    BY <2>2, SentBytes
  <2> HIDE DEF n, S, h, b
  <2>6. net' \in Seq(S)
    BY <2>1, <2>4, <2>5, ConcatProperties
  <2>7. QED
    BY <2>1, <2>4, <2>6 DEF AllSent, S
<1>6. QED
  BY <1>2, <1>3, <1>4, <1>5 DEF Next, vars, inbound, Connect, RunTask, ConnectionLost,
     Announce, Disconnect, Kick, PeerReads

\* Every step of the connection is a step of the pipe to the server, or none.
LEMMA InboundStep ==
  ASSUME IInv, IInv', AllSent, [Next]_vars
  PROVE  AllSent' /\ [ToServer!Next]_(ToServer!vars)
<1> USE DEF ToServer!vars
<1>1. TypeOK /\ TypeOK' /\ InInv /\ InInv' /\ open \in BOOLEAN
  BY DEF IInv, TypeOK
<1>2. AllSent'
  BY <1>1, AllSentKeeps
<1>3. ASSUME UNCHANGED <<requests, received>>, open' \in {open, FALSE},
             client' \in {client, "gone"} \/ (client = "new" /\ client' = "set")
      PROVE  [ToServer!Next]_(ToServer!vars)
  <2>1. CASE (open /\ client # "gone") = (open' /\ client' # "gone")
    BY <1>3, <2>1
  <2>2. CASE (open /\ client # "gone") # (open' /\ client' # "gone")
    <3>1. (open' /\ client' # "gone") => (open /\ client # "gone")
      BY <1>3
    <3>2. (open /\ client # "gone") /\ ~ (open' /\ client' # "gone")
      BY <2>2, <3>1
    <3>3. ToServer!End
      BY <1>3, <3>2 DEF ToServer!End
    <3>4. QED
      BY <3>3 DEF ToServer!Next
  <2>3. QED
    BY <2>1, <2>2
<1>4. CASE Connect
  BY <1>2, <1>3, <1>4 DEF Connect, inbound
<1>5. CASE RunTask
  <2>1. \/ UNCHANGED <<client, open>>
        \/ open' = FALSE /\ UNCHANGED client
        \/ client' = "gone" /\ UNCHANGED open
    BY <1>5 DEF RunTask
  <2>2. UNCHANGED <<requests, received>>
    BY <1>5 DEF RunTask, inbound
  <2>3. QED
    BY <1>2, <1>3, <2>1, <2>2
<1>6. CASE \/ \E t \in Threads : Disconnect(t) \/ Kick(t)
           \/ ConnectionLost
  <2>1. client' \in {client, "gone"} /\ open' \in {open, FALSE}
    BY <1>1, <1>6, EndTasks
  <2>2. UNCHANGED <<requests, received>>
    BY <1>6 DEF Disconnect, Kick, ConnectionLost, inbound
  <2>3. QED
    BY <1>2, <1>3, <2>1, <2>2
<1>7. CASE (\E t \in Threads : Announce(t)) \/ PeerReads \/ Receive
  BY <1>2, <1>3, <1>7 DEF Announce, PeerReads, Receive, inbound
<1>8. CASE PeerSends
  <2>1. requests' = requests + 1 /\ UNCHANGED <<client, open, received>>
    BY <1>8 DEF PeerSends
  <2>2. ToServer!Announce("peer")
    BY <2>1 DEF ToServer!Announce, Peer
  <2>3. QED
    BY <1>2, <2>2 DEF ToServer!Next, Peer
<1>9. CASE Decode
  <2>1. UNCHANGED <<client, open, requests>>
    BY <1>1, <1>9, DecodeIn, Halves DEF Decode
  <2>2. /\ received = [i \in 1 .. recvIv |-> i] /\ received' = [i \in 1 .. recvIv' |-> i]
        /\ recvIv \in Nat /\ requests \in Nat
    BY <1>1, Sizes DEF InInv, TypeOK
  <2>3. recvIv' <= requests
    BY <1>1, <1>2, <2>1, ReadsAfter DEF NoneAhead
  <2>4. CASE recvIv' = recvIv
    BY <1>2, <2>1, <2>2, <2>4
  <2>5. CASE recvIv' = recvIv + 1
    <3>1. Len(received) = recvIv /\ received' = Append(received, Len(received) + 1)
      BY <2>2, <2>5, CountedOn
    <3>2. ToServer!Arrive("peer")
      BY <2>1, <2>2, <2>3, <2>5, <3>1 DEF ToServer!Arrive, Peer
    <3>3. QED
      BY <1>2, <3>2 DEF ToServer!Next, Peer
  <2>6. QED
    BY <1>1, <1>2, <1>9, <2>4, <2>5, DecodeCounts
<1>10. CASE UNCHANGED vars
  BY <1>2, <1>3, <1>10 DEF vars, inbound
<1>11. QED
  BY <1>2, <1>4, <1>5, <1>6, <1>7, <1>8, <1>9, <1>10 DEF Next

\* MaplePacketDecoder keeps what a pipe to the server promises, as far as safety goes: the
\* packets handed to the handlers are the first of those the game client sent, whole, once
\* and in order, however their bytes were fragmented and whenever the session ends.
THEOREM InboundPipe == Spec => ToServer!Init /\ [][ToServer!Next]_(ToServer!vars)
<1>1. Init => ToServer!Init /\ AllSent
  BY EmptySeq DEF Init, ToServer!Init, AllSent
<1>2. IInv /\ AllSent /\ IInv' /\ [Next]_vars => AllSent' /\ [ToServer!Next]_(ToServer!vars)
  BY InboundStep
<1>3. QED
  BY <1>1, <1>2, Invariance, PTL DEF Spec

-----------------------------------------------------------------------------
(***************************************************************************)
(* The third part: every packet a header has room for comes back from      *)
(* sealing and opening (PacketCipher), and its header tells its length.    *)
(*                                                                         *)
(* From the bytes up: XOR is taken bit by bit (XorBit) and undoes itself   *)
(* (XorTwice); the two rotations undo each other (RollBack, RollForth);    *)
(* what was added modulo 256 is taken off again (TakenOff).  Mixing is a   *)
(* recursive function: a run of it exists for every length (MixRunExists), *)
(* each byte of which is the XOR of its own part and the byte made before  *)
(* (MixedBytes), so that unmixing finds both at hand (UnmixedMixed).  Each *)
(* round is then undone by its inverse (ForthUndone, BackUndone), and the  *)
(* keystream by itself (CryptTwice).                                       *)
(***************************************************************************)

-----------------------------------------------------------------------------
(* Bits and bytes                                                           *)

Bit == 0 .. 1

LEMMA BitsOf ==
  ASSUME NEW a \in Octets
  PROVE  /\ a % 2 \in Bit
         /\ (a \div 2) % 2 \in Bit /\ (a \div 4) % 2 \in Bit /\ (a \div 8) % 2 \in Bit
         /\ (a \div 16) % 2 \in Bit /\ (a \div 32) % 2 \in Bit /\ (a \div 64) % 2 \in Bit
         /\ (a \div 128) % 2 \in Bit
         /\ a = (a % 2) + 2 * ((a \div 2) % 2) + 4 * ((a \div 4) % 2) + 8 * ((a \div 8) % 2)
                + 16 * ((a \div 16) % 2) + 32 * ((a \div 32) % 2) + 64 * ((a \div 64) % 2)
                + 128 * ((a \div 128) % 2)
BY DEF Octets, Bit

\* The sum of two numbers has the parity of the sum of their parities.
LEMMA Parity ==
  ASSUME NEW m \in Nat, NEW n \in Nat
  PROVE  (m + n) % 2 = ((m % 2) + (n % 2)) % 2
OBVIOUS

LEMMA BitTwice ==
  ASSUME NEW x \in Bit, NEW y \in Bit
  PROVE  (x + y) % 2 \in Bit /\ (((x + y) % 2) + y) % 2 = x /\ (x + y) % 2 = (y + x) % 2
BY DEF Bit

LEMMA XorSum ==
  ASSUME NEW a \in Octets, NEW b \in Octets
  PROVE  Xor[a][b] = ((a + b) % 2) + 2 * (((a \div 2) + (b \div 2)) % 2)
                     + 4 * (((a \div 4) + (b \div 4)) % 2) + 8 * (((a \div 8) + (b \div 8)) % 2)
                     + 16 * (((a \div 16) + (b \div 16)) % 2) + 32 * (((a \div 32) + (b \div 32)) % 2)
                     + 64 * (((a \div 64) + (b \div 64)) % 2)
                     + 128 * (((a \div 128) + (b \div 128)) % 2)
<1>1. a \in Nat /\ b \in Nat /\ a \div 1 = a /\ b \div 1 = b
  BY DEF Octets
<1>2. Xor[a][b] = 1 * (((a \div 1) + (b \div 1)) % 2) + 2 * (((a \div 2) + (b \div 2)) % 2)
                  + 4 * (((a \div 4) + (b \div 4)) % 2) + 8 * (((a \div 8) + (b \div 8)) % 2)
                  + 16 * (((a \div 16) + (b \div 16)) % 2) + 32 * (((a \div 32) + (b \div 32)) % 2)
                  + 64 * (((a \div 64) + (b \div 64)) % 2)
                  + 128 * (((a \div 128) + (b \div 128)) % 2)
  BY DEF Xor
<1>3. 1 * ((a + b) % 2) = (a + b) % 2
  BY <1>1
<1>4. QED
  BY <1>1, <1>2, <1>3

\* Each bit of a XOR is the sum of the two bits.
LEMMA XorBit ==
  ASSUME NEW a \in Octets, NEW b \in Octets
  PROVE  /\ Xor[a][b] \in Octets
         /\ Xor[a][b] % 2 = ((a % 2) + (b % 2)) % 2
         /\ (Xor[a][b] \div 2) % 2 = (((a \div 2) % 2) + ((b \div 2) % 2)) % 2
         /\ (Xor[a][b] \div 4) % 2 = (((a \div 4) % 2) + ((b \div 4) % 2)) % 2
         /\ (Xor[a][b] \div 8) % 2 = (((a \div 8) % 2) + ((b \div 8) % 2)) % 2
         /\ (Xor[a][b] \div 16) % 2 = (((a \div 16) % 2) + ((b \div 16) % 2)) % 2
         /\ (Xor[a][b] \div 32) % 2 = (((a \div 32) % 2) + ((b \div 32) % 2)) % 2
         /\ (Xor[a][b] \div 64) % 2 = (((a \div 64) % 2) + ((b \div 64) % 2)) % 2
         /\ (Xor[a][b] \div 128) % 2 = (((a \div 128) % 2) + ((b \div 128) % 2)) % 2
<1> DEFINE x0 == (a + b) % 2
           x1 == ((a \div 2) + (b \div 2)) % 2
           x2 == ((a \div 4) + (b \div 4)) % 2
           x3 == ((a \div 8) + (b \div 8)) % 2
           x4 == ((a \div 16) + (b \div 16)) % 2
           x5 == ((a \div 32) + (b \div 32)) % 2
           x6 == ((a \div 64) + (b \div 64)) % 2
           x7 == ((a \div 128) + (b \div 128)) % 2
           c == Xor[a][b]
<1>1. /\ x0 \in Bit /\ x1 \in Bit /\ x2 \in Bit /\ x3 \in Bit
      /\ x4 \in Bit /\ x5 \in Bit /\ x6 \in Bit /\ x7 \in Bit
  BY DEF Bit, Octets
<1>2. /\ a \in Nat /\ a \div 2 \in Nat /\ a \div 4 \in Nat /\ a \div 8 \in Nat /\ a \div 16 \in Nat
      /\ a \div 32 \in Nat /\ a \div 64 \in Nat /\ a \div 128 \in Nat
      /\ b \in Nat /\ b \div 2 \in Nat /\ b \div 4 \in Nat /\ b \div 8 \in Nat /\ b \div 16 \in Nat
      /\ b \div 32 \in Nat /\ b \div 64 \in Nat /\ b \div 128 \in Nat
  BY DEF Octets
<1>3. /\ x0 = ((a % 2) + (b % 2)) % 2
      /\ x1 = (((a \div 2) % 2) + ((b \div 2) % 2)) % 2
      /\ x2 = (((a \div 4) % 2) + ((b \div 4) % 2)) % 2
      /\ x3 = (((a \div 8) % 2) + ((b \div 8) % 2)) % 2
      /\ x4 = (((a \div 16) % 2) + ((b \div 16) % 2)) % 2
      /\ x5 = (((a \div 32) % 2) + ((b \div 32) % 2)) % 2
      /\ x6 = (((a \div 64) % 2) + ((b \div 64) % 2)) % 2
      /\ x7 = (((a \div 128) % 2) + ((b \div 128) % 2)) % 2
  BY <1>2, Parity
<1>4. c = x0 + 2 * x1 + 4 * x2 + 8 * x3 + 16 * x4 + 32 * x5 + 64 * x6 + 128 * x7
  BY XorSum
<1> HIDE DEF x0, x1, x2, x3, x4, x5, x6, x7, c
<1>5. /\ c \in Octets
      /\ c % 2 = x0 /\ (c \div 2) % 2 = x1 /\ (c \div 4) % 2 = x2 /\ (c \div 8) % 2 = x3
      /\ (c \div 16) % 2 = x4 /\ (c \div 32) % 2 = x5 /\ (c \div 64) % 2 = x6
      /\ (c \div 128) % 2 = x7
  BY <1>1, <1>4 DEF Bit, Octets
<1>6. QED
  BY <1>3, <1>5 DEF c

\* Bytes with the same bits are the same.
LEMMA SameBits ==
  ASSUME NEW a \in Octets, NEW b \in Octets,
         a % 2 = b % 2, (a \div 2) % 2 = (b \div 2) % 2, (a \div 4) % 2 = (b \div 4) % 2,
         (a \div 8) % 2 = (b \div 8) % 2, (a \div 16) % 2 = (b \div 16) % 2,
         (a \div 32) % 2 = (b \div 32) % 2, (a \div 64) % 2 = (b \div 64) % 2,
         (a \div 128) % 2 = (b \div 128) % 2
  PROVE  a = b
<1>1. a = (a % 2) + 2 * ((a \div 2) % 2) + 4 * ((a \div 4) % 2) + 8 * ((a \div 8) % 2)
          + 16 * ((a \div 16) % 2) + 32 * ((a \div 32) % 2) + 64 * ((a \div 64) % 2)
          + 128 * ((a \div 128) % 2)
  BY BitsOf
<1>2. b = (b % 2) + 2 * ((b \div 2) % 2) + 4 * ((b \div 4) % 2) + 8 * ((b \div 8) % 2)
          + 16 * ((b \div 16) % 2) + 32 * ((b \div 32) % 2) + 64 * ((b \div 64) % 2)
          + 128 * ((b \div 128) % 2)
  BY BitsOf
<1>3. QED
  BY <1>1, <1>2

LEMMA XorCommutes ==
  ASSUME NEW a \in Octets, NEW b \in Octets
  PROVE  Xor[a][b] = Xor[b][a]
<1>1. Xor[a][b] \in Octets /\ Xor[b][a] \in Octets
  BY XorBit
<1> DEFINE c == Xor[a][b]
           d == Xor[b][a]
<1>2. /\ c % 2 = d % 2 /\ (c \div 2) % 2 = (d \div 2) % 2 /\ (c \div 4) % 2 = (d \div 4) % 2
      /\ (c \div 8) % 2 = (d \div 8) % 2 /\ (c \div 16) % 2 = (d \div 16) % 2
      /\ (c \div 32) % 2 = (d \div 32) % 2 /\ (c \div 64) % 2 = (d \div 64) % 2
      /\ (c \div 128) % 2 = (d \div 128) % 2
  BY XorBit, BitsOf, BitTwice
<1> HIDE DEF c, d
<1>3. c = d
  BY <1>1, <1>2, SameBits DEF c, d
<1>4. QED
  BY <1>3 DEF c, d

\* What is XORed twice with the same byte is what it was.
LEMMA XorTwice ==
  ASSUME NEW a \in Octets, NEW b \in Octets
  PROVE  Xor[Xor[a][b]][b] = a
<1> DEFINE c == Xor[a][b]
           d == Xor[c][b]
<1>1. c \in Octets
  BY XorBit
<1>2. d \in Octets
  BY <1>1, XorBit
<1>3. /\ d % 2 = a % 2 /\ (d \div 2) % 2 = (a \div 2) % 2 /\ (d \div 4) % 2 = (a \div 4) % 2
      /\ (d \div 8) % 2 = (a \div 8) % 2 /\ (d \div 16) % 2 = (a \div 16) % 2
      /\ (d \div 32) % 2 = (a \div 32) % 2 /\ (d \div 64) % 2 = (a \div 64) % 2
      /\ (d \div 128) % 2 = (a \div 128) % 2
  <2>1. /\ d % 2 = ((c % 2) + (b % 2)) % 2
        /\ (d \div 2) % 2 = (((c \div 2) % 2) + ((b \div 2) % 2)) % 2
        /\ (d \div 4) % 2 = (((c \div 4) % 2) + ((b \div 4) % 2)) % 2
        /\ (d \div 8) % 2 = (((c \div 8) % 2) + ((b \div 8) % 2)) % 2
        /\ (d \div 16) % 2 = (((c \div 16) % 2) + ((b \div 16) % 2)) % 2
        /\ (d \div 32) % 2 = (((c \div 32) % 2) + ((b \div 32) % 2)) % 2
        /\ (d \div 64) % 2 = (((c \div 64) % 2) + ((b \div 64) % 2)) % 2
        /\ (d \div 128) % 2 = (((c \div 128) % 2) + ((b \div 128) % 2)) % 2
    BY <1>1, XorBit
  <2>2. /\ c % 2 = ((a % 2) + (b % 2)) % 2
        /\ (c \div 2) % 2 = (((a \div 2) % 2) + ((b \div 2) % 2)) % 2
        /\ (c \div 4) % 2 = (((a \div 4) % 2) + ((b \div 4) % 2)) % 2
        /\ (c \div 8) % 2 = (((a \div 8) % 2) + ((b \div 8) % 2)) % 2
        /\ (c \div 16) % 2 = (((a \div 16) % 2) + ((b \div 16) % 2)) % 2
        /\ (c \div 32) % 2 = (((a \div 32) % 2) + ((b \div 32) % 2)) % 2
        /\ (c \div 64) % 2 = (((a \div 64) % 2) + ((b \div 64) % 2)) % 2
        /\ (c \div 128) % 2 = (((a \div 128) % 2) + ((b \div 128) % 2)) % 2
    BY XorBit
  <2> HIDE DEF c, d
  <2>3. QED
    BY <2>1, <2>2, BitsOf, BitTwice
<1> HIDE DEF c, d
<1>4. d = a
  BY <1>2, <1>3, SameBits
<1>5. QED
  BY <1>4 DEF c, d

\* XOR with a byte of what the byte was XORed with.
LEMMA XorBack ==
  ASSUME NEW a \in Octets, NEW b \in Octets
  PROVE  Xor[a][Xor[a][b]] = b /\ Xor[Xor[a][b]][a] = b
<1>1. Xor[a][b] \in Octets /\ Xor[a][b] = Xor[b][a]
  BY XorBit, XorCommutes
<1>2. Xor[Xor[b][a]][a] = b
  BY XorTwice
<1>3. Xor[a][Xor[a][b]] = Xor[Xor[a][b]][a]
  BY <1>1, XorCommutes
<1>4. QED
  BY <1>1, <1>2, <1>3

-----------------------------------------------------------------------------
(* Rotations and sums                                                       *)

Shifts == {1, 2, 4, 8, 16, 32, 64, 128}

LEMMA ShiftIsShift ==
  ASSUME NEW count \in Int
  PROVE  Shift(count) \in Shifts
<1>1. (count % 8) + 1 \in 1 .. 8
  OBVIOUS
<1> DEFINE k == (count % 8) + 1
<1>2. k = 1 \/ k = 2 \/ k = 3 \/ k = 4 \/ k = 5 \/ k = 6 \/ k = 7 \/ k = 8
  BY <1>1
<1>3. Shift(count) = <<1, 2, 4, 8, 16, 32, 64, 128>>[k]
  BY DEF Shift
<1> HIDE DEF k
<1>4. QED
  BY <1>2, <1>3 DEF Shifts

LEMMA Rotated ==
  ASSUME NEW p \in Shifts, NEW b \in Octets
  PROVE  /\ ((b * p) % 256) + ((b * p) \div 256) \in Octets
         /\ (((b * 256) \div p) % 256) + (((b * 256) \div p) \div 256) \in Octets
<1>1. CASE p = 1   BY <1>1 DEF Octets
<1>2. CASE p = 2   BY <1>2 DEF Octets
<1>3. CASE p = 4   BY <1>3 DEF Octets
<1>4. CASE p = 8   BY <1>4 DEF Octets
<1>5. CASE p = 16  BY <1>5 DEF Octets
<1>6. CASE p = 32  BY <1>6 DEF Octets
<1>7. CASE p = 64  BY <1>7 DEF Octets
<1>8. CASE p = 128 BY <1>8 DEF Octets
<1>9. QED
  BY <1>1, <1>2, <1>3, <1>4, <1>5, <1>6, <1>7, <1>8 DEF Shifts

\* Rotating left and back: h are the bits that are shifted out, l the others.
LEMMA RotatedBack ==
  ASSUME NEW p \in Shifts, NEW b \in Octets, NEW c \in Octets,
         c = ((b * p) % 256) + ((b * p) \div 256)
  PROVE  (((c * 256) \div p) % 256) + (((c * 256) \div p) \div 256) = b
<1>1. CASE p = 1
  <2>1. c = b
    BY <1>1 DEF Octets
  <2>2. (c * 256) \div p = 256 * b
    BY <1>1, <2>1 DEF Octets
  <2>3. QED
    BY <2>2 DEF Octets
<1>2. CASE p = 2
  <2> DEFINE h == b \div 128
             l == b % 128
  <2>1. h \in 0 .. 1 /\ l \in 0 .. 127 /\ b = 128 * h + l
    BY DEF Octets
  <2> HIDE DEF h, l
  <2>2. c = 2 * l + h
    BY <1>2, <2>1
  <2>3. (c * 256) \div p = 256 * l + 128 * h
    BY <1>2, <2>1, <2>2
  <2>4. QED
    BY <1>2, <2>1, <2>3
<1>3. CASE p = 4
  <2> DEFINE h == b \div 64
             l == b % 64
  <2>1. h \in 0 .. 3 /\ l \in 0 .. 63 /\ b = 64 * h + l
    BY DEF Octets
  <2> HIDE DEF h, l
  <2>2. c = 4 * l + h
    BY <1>3, <2>1
  <2>3. (c * 256) \div p = 256 * l + 64 * h
    BY <1>3, <2>1, <2>2
  <2>4. QED
    BY <1>3, <2>1, <2>3
<1>4. CASE p = 8
  <2> DEFINE h == b \div 32
             l == b % 32
  <2>1. h \in 0 .. 7 /\ l \in 0 .. 31 /\ b = 32 * h + l
    BY DEF Octets
  <2> HIDE DEF h, l
  <2>2. c = 8 * l + h
    BY <1>4, <2>1
  <2>3. (c * 256) \div p = 256 * l + 32 * h
    BY <1>4, <2>1, <2>2
  <2>4. QED
    BY <1>4, <2>1, <2>3
<1>5. CASE p = 16
  <2> DEFINE h == b \div 16
             l == b % 16
  <2>1. h \in 0 .. 15 /\ l \in 0 .. 15 /\ b = 16 * h + l
    BY DEF Octets
  <2> HIDE DEF h, l
  <2>2. c = 16 * l + h
    BY <1>5, <2>1
  <2>3. (c * 256) \div p = 256 * l + 16 * h
    BY <1>5, <2>1, <2>2
  <2>4. QED
    BY <1>5, <2>1, <2>3
<1>6. CASE p = 32
  <2> DEFINE h == b \div 8
             l == b % 8
  <2>1. h \in 0 .. 31 /\ l \in 0 .. 7 /\ b = 8 * h + l
    BY DEF Octets
  <2> HIDE DEF h, l
  <2>2. c = 32 * l + h
    BY <1>6, <2>1
  <2>3. (c * 256) \div p = 256 * l + 8 * h
    BY <1>6, <2>1, <2>2
  <2>4. QED
    BY <1>6, <2>1, <2>3
<1>7. CASE p = 64
  <2> DEFINE h == b \div 4
             l == b % 4
  <2>1. h \in 0 .. 63 /\ l \in 0 .. 3 /\ b = 4 * h + l
    BY DEF Octets
  <2> HIDE DEF h, l
  <2>2. c = 64 * l + h
    BY <1>7, <2>1
  <2>3. (c * 256) \div p = 256 * l + 4 * h
    BY <1>7, <2>1, <2>2
  <2>4. QED
    BY <1>7, <2>1, <2>3
<1>8. CASE p = 128
  <2> DEFINE h == b \div 2
             l == b % 2
  <2>1. h \in 0 .. 127 /\ l \in 0 .. 1 /\ b = 2 * h + l
    BY DEF Octets
  <2> HIDE DEF h, l
  <2>2. c = 128 * l + h
    BY <1>8, <2>1
  <2>3. (c * 256) \div p = 256 * l + 2 * h
    BY <1>8, <2>1, <2>2
  <2>4. QED
    BY <1>8, <2>1, <2>3
<1>9. QED
  BY <1>1, <1>2, <1>3, <1>4, <1>5, <1>6, <1>7, <1>8 DEF Shifts

\* Rotating right and back: l are the bits that are shifted out, h the others.
LEMMA RotatedForth ==
  ASSUME NEW p \in Shifts, NEW b \in Octets, NEW c \in Octets,
         c = (((b * 256) \div p) % 256) + (((b * 256) \div p) \div 256)
  PROVE  ((c * p) % 256) + ((c * p) \div 256) = b
<1>1. CASE p = 1
  BY <1>1 DEF Octets
<1>2. CASE p = 2
  <2> DEFINE h == b \div 2
             l == b % 2
  <2>1. h \in 0 .. 127 /\ l \in 0 .. 1 /\ b = 2 * h + l
    BY DEF Octets
  <2> HIDE DEF h, l
  <2>2. c = 128 * l + h
    BY <1>2, <2>1
  <2>3. c * p = 256 * l + 2 * h
    BY <1>2, <2>1, <2>2
  <2>4. QED
    BY <1>2, <2>1, <2>3
<1>3. CASE p = 4
  <2> DEFINE h == b \div 4
             l == b % 4
  <2>1. h \in 0 .. 63 /\ l \in 0 .. 3 /\ b = 4 * h + l
    BY DEF Octets
  <2> HIDE DEF h, l
  <2>2. c = 64 * l + h
    BY <1>3, <2>1
  <2>3. c * p = 256 * l + 4 * h
    BY <1>3, <2>1, <2>2
  <2>4. QED
    BY <1>3, <2>1, <2>3
<1>4. CASE p = 8
  <2> DEFINE h == b \div 8
             l == b % 8
  <2>1. h \in 0 .. 31 /\ l \in 0 .. 7 /\ b = 8 * h + l
    BY DEF Octets
  <2> HIDE DEF h, l
  <2>2. c = 32 * l + h
    BY <1>4, <2>1
  <2>3. c * p = 256 * l + 8 * h
    BY <1>4, <2>1, <2>2
  <2>4. QED
    BY <1>4, <2>1, <2>3
<1>5. CASE p = 16
  <2> DEFINE h == b \div 16
             l == b % 16
  <2>1. h \in 0 .. 15 /\ l \in 0 .. 15 /\ b = 16 * h + l
    BY DEF Octets
  <2> HIDE DEF h, l
  <2>2. c = 16 * l + h
    BY <1>5, <2>1
  <2>3. c * p = 256 * l + 16 * h
    BY <1>5, <2>1, <2>2
  <2>4. QED
    BY <1>5, <2>1, <2>3
<1>6. CASE p = 32
  <2> DEFINE h == b \div 32
             l == b % 32
  <2>1. h \in 0 .. 7 /\ l \in 0 .. 31 /\ b = 32 * h + l
    BY DEF Octets
  <2> HIDE DEF h, l
  <2>2. c = 8 * l + h
    BY <1>6, <2>1
  <2>3. c * p = 256 * l + 32 * h
    BY <1>6, <2>1, <2>2
  <2>4. QED
    BY <1>6, <2>1, <2>3
<1>7. CASE p = 64
  <2> DEFINE h == b \div 64
             l == b % 64
  <2>1. h \in 0 .. 3 /\ l \in 0 .. 63 /\ b = 64 * h + l
    BY DEF Octets
  <2> HIDE DEF h, l
  <2>2. c = 4 * l + h
    BY <1>7, <2>1
  <2>3. c * p = 256 * l + 64 * h
    BY <1>7, <2>1, <2>2
  <2>4. QED
    BY <1>7, <2>1, <2>3
<1>8. CASE p = 128
  <2> DEFINE h == b \div 128
             l == b % 128
  <2>1. h \in 0 .. 1 /\ l \in 0 .. 127 /\ b = 128 * h + l
    BY DEF Octets
  <2> HIDE DEF h, l
  <2>2. c = 2 * l + h
    BY <1>8, <2>1
  <2>3. c * p = 256 * l + 128 * h
    BY <1>8, <2>1, <2>2
  <2>4. QED
    BY <1>8, <2>1, <2>3
<1>9. QED
  BY <1>1, <1>2, <1>3, <1>4, <1>5, <1>6, <1>7, <1>8 DEF Shifts

LEMMA RollOctets ==
  ASSUME NEW b \in Octets, NEW count \in Int
  PROVE  RollLeft(b, count) \in Octets /\ RollRight(b, count) \in Octets
BY ShiftIsShift, Rotated DEF RollLeft, RollRight, Byte

\* Rotating left, then right, by the same count.
LEMMA RollBack ==
  ASSUME NEW b \in Octets, NEW count \in Int
  PROVE  RollRight(RollLeft(b, count), count) = b
<1> DEFINE p == Shift(count)
           c == RollLeft(b, count)
<1>1. p \in Shifts /\ c \in Octets
  BY ShiftIsShift, RollOctets
<1>2. c = ((b * p) % 256) + ((b * p) \div 256)
  BY DEF RollLeft, Byte
<1>3. RollRight(c, count) = (((c * 256) \div p) % 256) + (((c * 256) \div p) \div 256)
  BY DEF RollRight, Byte
<1> HIDE DEF p, c
<1>4. RollRight(c, count) = b
  BY <1>1, <1>2, <1>3, RotatedBack
<1>5. QED
  BY <1>4 DEF c

\* Rotating right, then left.
LEMMA RollForth ==
  ASSUME NEW b \in Octets, NEW count \in Int
  PROVE  RollLeft(RollRight(b, count), count) = b
<1> DEFINE p == Shift(count)
           c == RollRight(b, count)
<1>1. p \in Shifts /\ c \in Octets
  BY ShiftIsShift, RollOctets
<1>2. c = (((b * 256) \div p) % 256) + (((b * 256) \div p) \div 256)
  BY DEF RollRight, Byte
<1>3. RollLeft(c, count) = ((c * p) % 256) + ((c * p) \div 256)
  BY DEF RollLeft, Byte
<1> HIDE DEF p, c
<1>4. RollLeft(c, count) = b
  BY <1>1, <1>2, <1>3, RotatedForth
<1>5. QED
  BY <1>4 DEF c

LEMMA ByteOctet ==
  ASSUME NEW n \in Int
  PROVE  Byte(n) \in Octets
BY DEF Byte, Octets

\* What was added to a byte is taken off again, however the sum wraps.
LEMMA TakenOff ==
  ASSUME NEW a \in Octets, NEW n \in Int
  PROVE  Byte(Byte(a + n) - n) = a
BY DEF Byte, Octets

-----------------------------------------------------------------------------
(* Mixing                                                                   *)

\* A set of numbers that is not empty has a least element.
LEMMA Least ==
  ASSUME NEW S, S \subseteq Nat, S # {}
  PROVE  \E n \in S : \A m \in S : n <= m
<1> DEFINE R == OpToRel(<, Nat)
<1>1. IsWellFoundedOn(R, Nat)
  BY NatLessThanWellFounded
<1>2. \A x, y \in Nat : <<y, x>> \in R <=> y < x
  BY DEF OpToRel
<1> HIDE DEF R
<1>3. PICK x \in S : \A y \in S : ~ (<<y, x>> \in R)
  BY <1>1, WFMin
<1>4. \A y \in S : ~ (y < x)
  BY <1>2, <1>3
<1>5. \A y \in S : x <= y
  BY <1>4
<1>6. QED
  BY <1>5

\* A set with 0 and with the successor of each of its numbers has them all.
LEMMA Induction ==
  ASSUME NEW S, 0 \in S, \A n \in Nat : n \in S => n + 1 \in S
  PROVE  Nat \subseteq S
<1> DEFINE T == Nat \ S
<1>1. CASE T = {}
  BY <1>1
<1>2. CASE T # {}
  <2>1. PICK n \in T : \A m \in T : n <= m
    BY <1>2, Least
  <2>2. n # 0 /\ n - 1 \in Nat
    BY <2>1
  <2>3. n - 1 \in S
    BY <2>1, <2>2
  <2>4. QED
    BY <2>1, <2>2, <2>3
<1>3. QED
  BY <1>1, <1>2

\* The byte at i before it takes in the one before it.
Own(data, count, i) == Byte(RollLeft(data[i], count) + Left(Len(data), i))

\* The first n bytes of a round, mixed.
MixRun(data, count, run, n) ==
    run = [i \in 0 .. n |-> IF i = 0 THEN 0 ELSE Xor[Own(data, count, i)][run[i - 1]]]

LEMMA MixRunExists ==
  ASSUME NEW data, NEW count
  PROVE  \A n \in Nat : \E run : MixRun(data, count, run, n)
<1> DEFINE S == {n \in Nat : \E run : MixRun(data, count, run, n)}
<1>1. 0 \in S
  <2>1. MixRun(data, count, [i \in 0 .. 0 |-> 0], 0)
    BY DEF MixRun
  <2>2. QED
    BY <2>1
<1>2. ASSUME NEW n \in Nat, n \in S
      PROVE  n + 1 \in S
  <2>1. PICK r : MixRun(data, count, r, n)
    BY <1>2
  <2> DEFINE x == Xor[Own(data, count, n + 1)][r[n]]
             r2 == [i \in 0 .. n + 1 |-> IF i = n + 1 THEN x ELSE r[i]]
             r3 == [i \in 0 .. n + 1 |-> IF i = 0 THEN 0 ELSE Xor[Own(data, count, i)][r2[i - 1]]]
  <2>2. \A i \in 0 .. n : r[i] = IF i = 0 THEN 0 ELSE Xor[Own(data, count, i)][r[i - 1]]
    BY <2>1 DEF MixRun
  <2>3. ASSUME NEW i \in 0 .. n + 1
        PROVE  r2[i] = r3[i]
    <3>1. CASE i = 0
      <4>1. r[0] = 0
        <5>1. 0 \in 0 .. n
          OBVIOUS
        <5>2. r[0] = IF 0 = 0 THEN 0 ELSE Xor[Own(data, count, 0)][r[0 - 1]]
          BY <5>1, <2>2
        <5>3. QED
          BY <5>2
      <4>2. r2[0] = r[0] /\ r3[0] = 0
        OBVIOUS
      <4>3. QED
        BY <3>1, <4>1, <4>2
    <3>2. CASE i \in 1 .. n
      <4>1. r2[i] = r[i] /\ r2[i - 1] = r[i - 1]
        BY <3>2
      <4>2. QED
        BY <4>1, <3>2, <2>2
    <3>3. CASE i = n + 1
      <4>1. r2[i] = x /\ r2[i - 1] = r[n] /\ i # 0
        BY <3>3
      <4>2. QED
        BY <4>1, <3>3
    <3>4. QED
      BY <3>1, <3>2, <3>3
  <2>4. r2 = r3
    BY <2>3
  <2>5. MixRun(data, count, r2, n + 1)
    BY <2>4 DEF MixRun
  <2>6. QED
    BY <2>5
<1> HIDE DEF S
<1>3. Nat \subseteq S
  BY <1>1, <1>2, Induction
<1>4. QED
  BY <1>3 DEF S

LEMMA SeqBytes ==
  ASSUME NEW data \in Seq(Octets)
  PROVE  /\ Len(data) \in Nat
         /\ \A i \in 1 .. Len(data) : data[i] \in Octets
         /\ data = [i \in 1 .. Len(data) |-> data[i]]
OBVIOUS

LEMMA SequenceOfOctets ==
  ASSUME NEW n \in Nat, NEW f \in [1 .. n -> Octets]
  PROVE  f \in Seq(Octets) /\ Len(f) = n
<1>1. f \in Seq(Octets)
  OBVIOUS
<1>2. DOMAIN f = 1 .. n
  OBVIOUS
<1>3. QED
  BY <1>1, <1>2

LEMMA LeftOctet ==
  ASSUME NEW n \in Int, NEW i \in Int
  PROVE  Left(n, i) \in Octets
BY ByteOctet DEF Left

LEMMA OctetSum ==
  ASSUME NEW a \in Octets, NEW b \in Octets
  PROVE  a \in Int /\ a + b \in Int
BY DEF Octets

LEMMA OwnOctet ==
  ASSUME NEW data \in Seq(Octets), NEW count \in Int, NEW i \in 1 .. Len(data)
  PROVE  Own(data, count, i) \in Octets
<1>1. data[i] \in Octets /\ Len(data) \in Int
  BY SeqBytes
<1>2. RollLeft(data[i], count) \in Octets /\ Left(Len(data), i) \in Octets
  BY <1>1, RollOctets, LeftOctet
<1>3. RollLeft(data[i], count) + Left(Len(data), i) \in Int
  BY <1>2, OctetSum
<1>4. QED
  BY <1>3, ByteOctet DEF Own

\* Mixing makes of each byte its own part XORed with the byte made before.
LEMMA MixedBytes ==
  ASSUME NEW data \in Seq(Octets), NEW count \in Int
  PROVE  /\ Mixed(data, count) \in Seq(Octets)
         /\ Len(Mixed(data, count)) = Len(data)
         /\ \A i \in 1 .. Len(data) :
               Mixed(data, count)[i] =
                  Xor[Own(data, count, i)][IF i = 1 THEN 0 ELSE Mixed(data, count)[i - 1]]
<1> DEFINE n == Len(data)
           P(run) == MixRun(data, count, run, n)
           x == CHOOSE run : P(run)
<1>1. n \in Nat
  OBVIOUS
<1>2. \E run : P(run)
  BY <1>1, MixRunExists
<1>3. P(x)
  BY <1>2
<1>4. Mixed(data, count) = [i \in 1 .. n |-> x[i]]
  BY DEF Mixed, MixRun, Own
<1> HIDE DEF x
<1>5. x = [i \in 0 .. n |-> IF i = 0 THEN 0 ELSE Xor[Own(data, count, i)][x[i - 1]]]
  BY <1>3 DEF MixRun
<1> HIDE DEF n, P
<1>6. x[0] = 0
  BY <1>1, <1>5
<1>7. \A i \in 1 .. n : x[i] = Xor[Own(data, count, i)][x[i - 1]]
  <2>1. TAKE i \in 1 .. n
  <2>2. i \in 0 .. n /\ i # 0
    BY <1>1
  <2>3. QED
    BY <2>2, <1>5
<1> DEFINE S == {k \in Nat : k <= n => x[k] \in Octets}
<1>8. 0 \in S
  BY <1>6 DEF Octets
<1>9. ASSUME NEW k \in Nat, k \in S
      PROVE  k + 1 \in S
  <2>1. CASE k + 1 <= n
    <3>1. k + 1 \in 1 .. n /\ (k + 1) - 1 = k /\ x[k] \in Octets
      BY <1>1, <1>9, <2>1
    <3>2. Own(data, count, k + 1) \in Octets
      BY <3>1, OwnOctet DEF n
    <3>3. x[k + 1] = Xor[Own(data, count, k + 1)][x[k]]
      BY <3>1, <1>7
    <3>4. x[k + 1] \in Octets
      BY <3>1, <3>2, <3>3, XorBit
    <3>5. QED
      BY <3>4
  <2>2. QED
    BY <2>1
<1> HIDE DEF S
<1>10. Nat \subseteq S
  BY <1>8, <1>9, Induction
<1>11. \A i \in 1 .. n : x[i] \in Octets
  BY <1>1, <1>10 DEF S
<1>12. Mixed(data, count) \in [1 .. n -> Octets]
  BY <1>4, <1>11
<1>13. Mixed(data, count) \in Seq(Octets) /\ Len(Mixed(data, count)) = n
  <2> DEFINE m == Mixed(data, count)
  <2>1. m \in [1 .. n -> Octets]
    BY <1>12
  <2> HIDE DEF m
  <2>2. m \in Seq(Octets) /\ Len(m) = n
    BY <1>1, <2>1, SequenceOfOctets
  <2>3. QED
    BY <2>2 DEF m
<1>14. ASSUME NEW i \in 1 .. n
       PROVE  Mixed(data, count)[i] =
                 Xor[Own(data, count, i)][IF i = 1 THEN 0 ELSE Mixed(data, count)[i - 1]]
  <2>1. Mixed(data, count)[i] = Xor[Own(data, count, i)][x[i - 1]]
    BY <1>4, <1>7
  <2>2. x[i - 1] = IF i = 1 THEN 0 ELSE Mixed(data, count)[i - 1]
    <3>1. CASE i = 1
      BY <3>1, <1>6
    <3>2. CASE i # 1
      <4>1. i - 1 \in 1 .. n
        BY <1>1, <3>2
      <4>2. QED
        BY <4>1, <3>2, <1>4
    <3>3. QED
      BY <3>1, <3>2
  <2>3. QED
    BY <2>1, <2>2
<1>15. QED
  BY <1>13, <1>14 DEF n

\* Unmixing, which has the byte before still mixed, gives back what was mixed.
LEMMA UnmixedMixed ==
  ASSUME NEW data \in Seq(Octets), NEW count \in Int
  PROVE  Unmixed(Mixed(data, count), count) = data
<1> DEFINE n == Len(data)
           m == Mixed(data, count)
           before(i) == IF i = 1 THEN 0 ELSE m[i - 1]
<1>1. n \in Nat
  OBVIOUS
<1>2. m \in Seq(Octets) /\ Len(m) = n /\ \A i \in 1 .. n : m[i] = Xor[Own(data, count, i)][before(i)]
  BY MixedBytes
<1>3. Unmixed(m, count) =
         [i \in 1 .. n |-> RollRight(Byte(Xor[m[i]][before(i)] - Left(n, i)), count)]
  BY <1>2 DEF Unmixed
<1> HIDE DEF m, n
<1>4. ASSUME NEW i \in 1 .. n
      PROVE  RollRight(Byte(Xor[m[i]][before(i)] - Left(n, i)), count) = data[i]
  <2>1. before(i) \in Octets
    <3>1. CASE i = 1
      BY <3>1 DEF Octets
    <3>2. CASE i # 1
      <4>1. i - 1 \in 1 .. Len(m)
        BY <1>1, <1>2, <3>2
      <4>2. m[i - 1] \in Octets
        BY <4>1, <1>2, SeqBytes
      <4>3. QED
        BY <4>2, <3>2
    <3>3. QED
      BY <3>1, <3>2
  <2> HIDE DEF before
  <2>2. Own(data, count, i) \in Octets
    BY OwnOctet DEF n
  <2>3. Xor[m[i]][before(i)] = Own(data, count, i)
    BY <1>2, <2>1, <2>2, XorTwice
  <2>4. data[i] \in Octets
    BY SeqBytes DEF n
  <2>5. RollLeft(data[i], count) \in Octets /\ Left(n, i) \in Int
    <3>1. RollLeft(data[i], count) \in Octets
      BY <2>4, RollOctets
    <3>2. i \in Int /\ n \in Int
      BY <1>1
    <3>3. Left(n, i) \in Octets
      BY <3>2, LeftOctet
    <3>4. QED
      BY <3>1, <3>3, OctetSum
  <2>6. Own(data, count, i) = Byte(RollLeft(data[i], count) + Left(n, i))
    BY DEF Own, n
  <2>7. Byte(Own(data, count, i) - Left(n, i)) = RollLeft(data[i], count)
    BY <2>5, <2>6, TakenOff
  <2>8. QED
    BY <2>3, <2>4, <2>7, RollBack
<1> HIDE DEF before
<1>5. Unmixed(m, count) = [i \in 1 .. n |-> data[i]]
  BY <1>3, <1>4
<1>6. QED
  BY <1>5, SeqBytes DEF m, n

-----------------------------------------------------------------------------
(* The rounds                                                               *)

LEMMA Reversed ==
  ASSUME NEW s \in Seq(Octets)
  PROVE  /\ Reverse(s) \in Seq(Octets) /\ Len(Reverse(s)) = Len(s)
         /\ Reverse(Reverse(s)) = s
<1> DEFINE n == Len(s)
           r == Reverse(s)
<1>1. n \in Nat /\ \A i \in 1 .. n : s[i] \in Octets
  BY SeqBytes
<1>2. r = [i \in 1 .. n |-> s[(n - i) + 1]]
  BY DEF Reverse
<1> HIDE DEF n, r
<1>3. r \in [1 .. n -> Octets]
  BY <1>1, <1>2
<1>4. r \in Seq(Octets) /\ Len(r) = n
  BY <1>1, <1>3, SequenceOfOctets
<1>5. Reverse(r) = [i \in 1 .. n |-> r[(n - i) + 1]]
  BY <1>4 DEF Reverse
<1>6. ASSUME NEW i \in 1 .. n
      PROVE  r[(n - i) + 1] = s[i]
  <2>1. (n - i) + 1 \in 1 .. n /\ (n - ((n - i) + 1)) + 1 = i
    BY <1>1
  <2>2. QED
    BY <2>1, <1>2
<1>7. Reverse(r) = [i \in 1 .. n |-> s[i]]
  BY <1>5, <1>6
<1>8. QED
  BY <1>4, <1>7, SeqBytes DEF n, r

\* ~cur + 72 of a byte, and back.
LEMMA Negated ==
  ASSUME NEW a \in Octets
  PROVE  /\ Byte(255 - a + 72) \in Octets
         /\ 255 - Byte(Byte(255 - a + 72) - 72) = a
<1>1. 255 - a \in Octets
  BY DEF Octets
<1>2. Byte(Byte((255 - a) + 72) - 72) = 255 - a
  BY <1>1, TakenOff
<1>3. 255 - a + 72 \in Int
  BY DEF Octets
<1>4. Byte(255 - a + 72) \in Octets
  BY <1>3, ByteOctet
<1>5. 255 - (255 - a) = a
  BY DEF Octets
<1>6. QED
  BY <1>2, <1>4, <1>5

\* A round from the first byte to the last is undone by its inverse.
LEMMA ForthUndone ==
  ASSUME NEW data \in Seq(Octets)
  PROVE  /\ EncryptForth(data) \in Seq(Octets) /\ Len(EncryptForth(data)) = Len(data)
         /\ DecryptForth(EncryptForth(data)) = data
<1> DEFINE n == Len(data)
           m == Mixed(data, 3)
           e == EncryptForth(data)
           r(i) == RollRight(m[i], Left(n, i))
<1>1. n \in Nat /\ m \in Seq(Octets) /\ Len(m) = n
  BY MixedBytes
<1>2. e = [i \in 1 .. n |-> Byte(255 - r(i) + 72)]
  BY DEF EncryptForth
<1>3. Unmixed(m, 3) = data
  BY UnmixedMixed
<1> HIDE DEF n, m, e
<1>4. ASSUME NEW i \in 1 .. n
      PROVE  r(i) \in Octets /\ RollLeft(r(i), Left(n, i)) = m[i]
  <2>1. m[i] \in Octets
    BY <1>1, SeqBytes
  <2>2. i \in Int /\ n \in Int
    BY <1>1
  <2>3. Left(n, i) \in Int
    BY <2>2, LeftOctet, OctetSum
  <2>4. QED
    BY <2>1, <2>3, RollOctets, RollForth
<1> HIDE DEF r
<1>5. e \in [1 .. n -> Octets]
  BY <1>2, <1>4, Negated
<1>6. e \in Seq(Octets) /\ Len(e) = n
  BY <1>1, <1>5, SequenceOfOctets
<1>7. ASSUME NEW i \in 1 .. n
      PROVE  RollLeft(255 - Byte(e[i] - 72), Left(n, i)) = m[i]
  <2>1. 255 - Byte(e[i] - 72) = r(i)
    BY <1>2, <1>4, Negated
  <2>2. QED
    BY <2>1, <1>4
<1>8. [i \in 1 .. n |-> RollLeft(255 - Byte(e[i] - 72), Left(n, i))] = m
  <2>1. m = [i \in 1 .. n |-> m[i]]
    BY <1>1, SeqBytes
  <2>2. QED
    BY <2>1, <1>7
<1>9. DecryptForth(e) = Unmixed(m, 3)
  BY <1>6, <1>8 DEF DecryptForth
<1>10. QED
  BY <1>3, <1>6, <1>9 DEF n, e

\* So is a round from the last byte to the first.
LEMMA BackUndone ==
  ASSUME NEW data \in Seq(Octets)
  PROVE  /\ EncryptBack(data) \in Seq(Octets) /\ Len(EncryptBack(data)) = Len(data)
         /\ DecryptBack(EncryptBack(data)) = data
<1> DEFINE n == Len(data)
           b == Reverse(data)
           m == Mixed(b, 4)
           r(i) == RollRight(Xor[m[i]][19], 3)
           f == [i \in 1 .. n |-> r(i)]
<1>1. n \in Nat /\ b \in Seq(Octets) /\ Len(b) = n /\ Reverse(b) = data
  BY Reversed
<1> HIDE DEF b
<1>2. m \in Seq(Octets) /\ Len(m) = n /\ Unmixed(m, 4) = b
  BY <1>1, MixedBytes, UnmixedMixed
<1>3. EncryptBack(data) = Reverse(f)
  BY <1>1 DEF EncryptBack, b
<1> HIDE DEF n, m
<1>4. ASSUME NEW i \in 1 .. n
      PROVE  r(i) \in Octets /\ Xor[RollLeft(r(i), 3)][19] = m[i]
  <2>1. m[i] \in Octets
    BY <1>1, <1>2, SeqBytes
  <2>2. 19 \in Octets
    BY DEF Octets
  <2> DEFINE x == Xor[m[i]][19]
  <2>3. x \in Octets /\ Xor[x][19] = m[i]
    BY <2>1, <2>2, XorBit, XorTwice
  <2> HIDE DEF x
  <2>4. RollRight(x, 3) \in Octets
    BY <2>3, RollOctets
  <2>5. RollLeft(RollRight(x, 3), 3) = x
    BY <2>3, RollForth
  <2>6. r(i) = RollRight(x, 3)
    BY DEF x
  <2> HIDE DEF r
  <2>7. QED
    BY <2>3, <2>4, <2>5, <2>6
<1> HIDE DEF r
<1>5. f \in [1 .. n -> Octets]
  BY <1>4
<1>6. \A i \in 1 .. n : f[i] = r(i)
  OBVIOUS
<1> HIDE DEF f
<1>7. f \in Seq(Octets) /\ Len(f) = n
  BY <1>1, <1>5, SequenceOfOctets
<1>8. /\ Reverse(f) \in Seq(Octets) /\ Len(Reverse(f)) = n
      /\ Reverse(Reverse(f)) = f
  BY <1>7, Reversed
<1>9. [i \in DOMAIN f |-> Xor[RollLeft(f[i], 3)][19]] = m
  <2>1. m = [i \in 1 .. n |-> m[i]]
    BY <1>1, <1>2, SeqBytes
  <2>2. DOMAIN f = 1 .. n
    BY <1>5
  <2>3. \A i \in 1 .. n : Xor[RollLeft(f[i], 3)][19] = m[i]
    BY <1>4, <1>6
  <2>4. QED
    BY <2>1, <2>2, <2>3
<1>10. DecryptBack(Reverse(f)) = Reverse(Unmixed(m, 4))
  BY <1>8, <1>9 DEF DecryptBack
<1>11. DecryptBack(Reverse(f)) = data
  BY <1>1, <1>2, <1>10
<1>12. QED
  BY <1>3, <1>8, <1>11 DEF n

\* All six rounds are undone, the last first.
LEMMA RoundsUndone ==
  ASSUME NEW data \in Seq(Octets)
  PROVE  /\ EncryptData(data) \in Seq(Octets) /\ Len(EncryptData(data)) = Len(data)
         /\ DecryptData(EncryptData(data)) = data
<1> DEFINE E(d) == EncryptBack(EncryptForth(d))
           D(d) == DecryptForth(DecryptBack(d))
<1>1. ASSUME NEW d \in Seq(Octets)
      PROVE  E(d) \in Seq(Octets) /\ Len(E(d)) = Len(d) /\ D(E(d)) = d
  <2>1. EncryptForth(d) \in Seq(Octets) /\ Len(EncryptForth(d)) = Len(d)
    BY ForthUndone
  <2>2. /\ E(d) \in Seq(Octets) /\ Len(E(d)) = Len(EncryptForth(d))
        /\ DecryptBack(E(d)) = EncryptForth(d)
    BY <2>1, BackUndone
  <2>3. D(E(d)) = DecryptForth(EncryptForth(d))
    BY <2>2
  <2>4. QED
    BY <2>1, <2>2, <2>3, ForthUndone
<1>2. EncryptData(data) = E(E(E(data))) /\ \A d : DecryptData(d) = D(D(D(d)))
  BY DEF EncryptData, DecryptData
<1> HIDE DEF E, D
<1>3. E(data) \in Seq(Octets) /\ Len(E(data)) = Len(data) /\ D(E(data)) = data
  BY <1>1
<1>4. E(E(data)) \in Seq(Octets) /\ Len(E(E(data))) = Len(E(data)) /\ D(E(E(data))) = E(data)
  BY <1>1, <1>3
<1>5. /\ E(E(E(data))) \in Seq(Octets) /\ Len(E(E(E(data)))) = Len(E(E(data)))
      /\ D(E(E(E(data)))) = E(E(data))
  BY <1>1, <1>4
<1>6. QED
  BY <1>2, <1>3, <1>4, <1>5

-----------------------------------------------------------------------------
(* The keystream and the header                                             *)

LEMMA MaxIsNat == MaxLength \in Nat /\ MaxLength < 256 * 256
BY DEF MaxLength

\* The keystream twice over is nothing.
LEMMA CryptTwice ==
  ASSUME NEW data \in Packets, NEW iv \in Ivs
  PROVE  /\ Crypt(data, iv) \in Packets /\ Len(Crypt(data, iv)) = Len(data)
         /\ Crypt(Crypt(data, iv), iv) = data
<1> DEFINE n == Len(data)
           c == Crypt(data, iv)
<1>1. n \in 0 .. MaxLength /\ data \in Seq(Octets)
  BY DEF Packets
<1>2. DOMAIN data = 1 .. n
  BY <1>1
<1>3. \A i \in 1 .. n : data[i] \in Octets
  BY <1>1, SeqBytes
<1> HIDE DEF n
<1>4. \A i \in 1 .. n : Keystream(iv, i) \in Octets
  <2>1. TAKE i \in 1 .. n
  <2>2. i \in 1 .. MaxLength
    BY <1>1, MaxIsNat
  <2>3. QED
    BY <2>2, CipherAssumption
<1>5. c = [i \in 1 .. n |-> Xor[data[i]][Keystream(iv, i)]]
  BY <1>2 DEF Crypt
<1> HIDE DEF c
<1>6. c \in [1 .. n -> Octets]
  BY <1>3, <1>4, <1>5, XorBit
<1>7. c \in Seq(Octets) /\ Len(c) = n /\ DOMAIN c = 1 .. n
  BY <1>1, <1>6, SequenceOfOctets
<1>8. Crypt(c, iv) = [i \in 1 .. n |-> Xor[c[i]][Keystream(iv, i)]]
  BY <1>7 DEF Crypt
<1>9. \A i \in 1 .. n : Xor[c[i]][Keystream(iv, i)] = data[i]
  BY <1>3, <1>4, <1>5, XorTwice
<1>10. Crypt(c, iv) = [i \in 1 .. n |-> data[i]]
  BY <1>8, <1>9
<1>11. data = [i \in 1 .. n |-> data[i]]
  BY <1>1, SeqBytes DEF n
<1>12. c \in Packets
  BY <1>1, <1>7 DEF Packets
<1>13. QED
  BY <1>7, <1>10, <1>11, <1>12 DEF c, n

LEMMA Word ==
  ASSUME NEW v \in Words
  PROVE  v[1] \in Octets /\ v[2] \in Octets /\ v = <<v[1], v[2]>>
BY DEF Words

LEMMA XorWords ==
  ASSUME NEW v \in Words, NEW w \in Words
  PROVE  /\ XorEach(v, w) \in Words
         /\ XorEach(XorEach(v, w), v) = w
         /\ XorEach(v, XorEach(v, w)) = w
<1>1. v[1] \in Octets /\ v[2] \in Octets /\ w[1] \in Octets /\ w[2] \in Octets /\ w = <<w[1], w[2]>>
  BY Word
<1> DEFINE x == Xor[v[1]][w[1]]
           y == Xor[v[2]][w[2]]
<1>2. x \in Octets /\ y \in Octets
  BY <1>1, XorBit
<1>3. Xor[x][v[1]] = w[1] /\ Xor[v[1]][x] = w[1] /\ Xor[y][v[2]] = w[2] /\ Xor[v[2]][y] = w[2]
  BY <1>1, XorBack
<1>4. XorEach(v, w) = <<x, y>>
  BY DEF XorEach
<1> HIDE DEF x, y
<1>5. <<x, y>> \in Words
  BY <1>2 DEF Words
<1>6. XorEach(<<x, y>>, v) = <<Xor[x][v[1]], Xor[y][v[2]]>>
  BY DEF XorEach
<1>7. XorEach(v, <<x, y>>) = <<Xor[v[1]][x], Xor[v[2]][y]>>
  BY DEF XorEach
<1>8. QED
  BY <1>1, <1>3, <1>4, <1>5, <1>6, <1>7

\* A header gives back the length it was made with, whatever the IV.
LEMMA LengthTold ==
  ASSUME NEW n \in 0 .. MaxLength, NEW iv \in Words
  PROVE  LengthIn(PacketHeader(n, iv)) = n
<1> DEFINE iiv == XorEach(iv, Version)
           word == Exchanged(n)
           header == PacketHeader(n, iv)
<1>1. Version \in Words
  BY CipherAssumption
<1>2. iiv \in Words
  BY <1>1, XorWords
<1>3. word = <<n % 256, n \div 256>>
  BY DEF Exchanged, Byte
<1>4. n % 256 \in Octets /\ n \div 256 \in Octets
  <2>1. n \in Nat /\ n < 256 * 256
    BY MaxIsNat
  <2>2. n % 256 \in 0 .. 255 /\ n \div 256 \in 0 .. 255
    BY <2>1
  <2>3. QED
    BY <2>2 DEF Octets
<1>5. word \in Words
  BY <1>3, <1>4 DEF Words
<1>6. header = <<iiv, XorEach(iiv, word)>>
  BY DEF PacketHeader
<1> HIDE DEF iiv, word, header
<1>7. header[1] = iiv /\ header[2] = XorEach(iiv, word)
  BY <1>6
<1>8. XorEach(header[1], header[2]) = word
  BY <1>2, <1>5, <1>7, XorWords
<1>9. LengthIn(header) = word[1] + 256 * word[2]
  BY <1>8 DEF LengthIn
<1>10. word[1] = n % 256 /\ word[2] = n \div 256
  BY <1>3
<1>11. (n % 256) + 256 * (n \div 256) = n
  <2>1. n \in Nat
    BY MaxIsNat
  <2>2. QED
    BY <2>1
<1>12. QED
  BY <1>9, <1>10, <1>11 DEF header

\* A header fits the IV it was made with and no other.
LEMMA FitsOne ==
  ASSUME NEW n \in 0 .. MaxLength, NEW iv \in Words, NEW other \in Words
  PROVE  Fits(PacketHeader(n, iv), other) <=> other = iv
<1> DEFINE iiv == XorEach(iv, Version)
<1>1. Version \in Words
  BY CipherAssumption
<1>2. iiv \in Words /\ XorEach(iiv, iv) = Version
  BY <1>1, XorWords
<1>3. PacketHeader(n, iv)[1] = iiv
  BY DEF PacketHeader
<1> HIDE DEF iiv
<1>4. Fits(PacketHeader(n, iv), other) <=> XorEach(iiv, other) = Version
  BY <1>3 DEF Fits
<1>5. XorEach(iiv, XorEach(iiv, other)) = other /\ XorEach(iiv, XorEach(iiv, iv)) = iv
  BY <1>2, XorWords
<1>6. QED
  BY <1>2, <1>4, <1>5

-----------------------------------------------------------------------------
(* The theorems                                                             *)

\* MaplePacketDecoder.decode undoes MaplePacketEncoder.encode: any packet of at
\* most MaxLength bytes comes back, whatever its bytes, the keystream and the IV.
THEOREM OpenedIsSealed ==
  ASSUME NEW packet \in Packets, NEW iv \in Ivs
  PROVE  Opened(Sealed(packet, iv), iv) = packet
<1> DEFINE data == EncryptData(packet)
           body == Crypt(data, iv)
           frame == Sealed(packet, iv)
           n == Len(packet)
<1>1. packet \in Seq(Octets) /\ n \in 0 .. MaxLength /\ iv \in Words
  BY CipherAssumption DEF Packets
<1>2. data \in Seq(Octets) /\ Len(data) = n /\ DecryptData(data) = packet
  BY <1>1, RoundsUndone
<1>3. frame.header = PacketHeader(n, iv) /\ frame.body = body
  BY DEF Sealed
<1> HIDE DEF data, frame, n
<1>4. data \in Packets
  BY <1>1, <1>2 DEF Packets
<1>5. body \in Packets /\ Len(body) = n /\ Crypt(body, iv) = data
  BY <1>2, <1>4, CryptTwice
<1> HIDE DEF body
<1>6. LengthIn(frame.header) = n
  BY <1>1, <1>3, LengthTold
<1>7. SubSeq(body, 1, n) = body
  <2>1. body \in Seq(Octets)
    BY <1>5 DEF Packets
  <2>2. QED
    BY <2>1, <1>5
<1>8. Opened(frame, iv) = DecryptData(Crypt(SubSeq(body, 1, n), iv))
  BY <1>3, <1>6 DEF Opened
<1>9. Opened(frame, iv) = packet
  BY <1>2, <1>5, <1>7, <1>8
<1>10. QED
  BY <1>9 DEF frame

\* The same as the property the run checks.
THEOREM OpenedIsPacketHolds == Spec => []OpenedIsPacket
<1>1. OpenedIsPacket
  BY OpenedIsSealed, CipherAssumption DEF OpenedIsPacket
<1>2. QED
  BY <1>1, PTL

\* MapleAESOFB.getPacketLength reads back the length getPacketHeader was given, and
\* checkPacket accepts the header with the IV it was made with and with no other.
THEOREM HeaderTellsLengthHolds == Spec => []HeaderTellsLength
<1>1. \A packet \in Samples : Len(packet) \in 0 .. MaxLength
  <2>1. TAKE packet \in Samples
  <2>2. packet \in Seq(Octets) /\ Len(packet) <= MaxLength
    BY CipherAssumption DEF Packets
  <2>3. QED
    BY <2>2
<1>2. Lengths \cup {Len(packet) : packet \in Samples} \subseteq 0 .. MaxLength /\ Ivs \subseteq Words
  BY <1>1, CipherAssumption
<1>3. HeaderTellsLength
  BY <1>2, LengthTold, FitsOne DEF HeaderTellsLength
<1>4. QED
  BY <1>3, PTL

=============================================================================
