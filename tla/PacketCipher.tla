---------------------------- MODULE PacketCipher ----------------------------
(***************************************************************************)
(* What the codec computes for one packet: MapleCustomEncryption's six     *)
(* rounds over the bytes, the keystream of MapleAESOFB on top, and the     *)
(* header that carries the length.  A packet is sealed, then opened, with  *)
(* the IV that PacketCodec keeps and counts for both ends.                 *)
(* Octets are 0 .. 255 and every sum wraps, as it does in a Java byte.      *)
(***************************************************************************)
EXTENDS Integers, Sequences, SequencesExt

CONSTANTS
    Samples,  \* the packets sealed
    Ivs,      \* the third and fourth byte of an IV
    Lengths,  \* further lengths of which the header is checked
    Version,  \* mapleVersion, its bytes exchanged as the constructor does
    Keystream(_, _) \* IV, place -> what AES gives there

Octets == 0 .. 255
Words == Octets \X Octets

\* What a header has room for: a longer packet is cut.
MaxLength == 256 * 256 - 1
Packets == {packet \in Seq(Octets) : Len(packet) <= MaxLength}

ASSUME CipherAssumption ==
    /\ Samples \subseteq Packets
    /\ Ivs \subseteq Words /\ Version \in Words
    /\ Lengths \subseteq 0 .. MaxLength
    /\ \A iv \in Ivs, i \in 1 .. MaxLength : Keystream(iv, i) \in Octets

Byte(n) == n % 256

\* a ^ b of two bytes, bit by bit.
Xor == [a \in Octets |-> [b \in Octets |->
    LET bit(p) == p * (((a \div p) + (b \div p)) % 2)
    IN  bit(1) + bit(2) + bit(4) + bit(8) + bit(16) + bit(32) + bit(64) + bit(128)]]

XorEach(v, w) == <<Xor[v[1]][w[1]], Xor[v[2]][w[2]]>>

\* What shifting by count % 8 multiplies by.
Shift(count) == <<1, 2, 4, 8, 16, 32, 64, 128>>[(count % 8) + 1]

RollLeft(b, count) ==
    LET tmp == b * Shift(count) IN Byte(tmp) + (tmp \div 256)

RollRight(b, count) ==
    LET tmp == (b * 256) \div Shift(count) IN Byte(tmp) + (tmp \div 256)

-----------------------------------------------------------------------------
(* MapleCustomEncryption                                                    *)

\* dataLength when a round of n bytes comes to its i-th.
Left(n, i) == Byte(n - i + 1)

\* A round's bytes after mixing: each takes in what the one before it became.
Mixed(data, count) ==
    LET n == Len(data)
        cur[i \in 0 .. n] == IF i = 0 THEN 0
                             ELSE Xor[Byte(RollLeft(data[i], count) + Left(n, i))][cur[i - 1]]
    IN  [i \in 1 .. n |-> cur[i]]

EncryptForth(data) ==
    LET n == Len(data)
        cur == Mixed(data, 3)
    IN  [i \in 1 .. n |-> Byte(255 - RollRight(cur[i], Left(n, i)) + 72)]

\* The odd rounds run from the last byte to the first.
EncryptBack(data) ==
    LET n == Len(data)
        cur == Mixed(Reverse(data), 4)
    IN  Reverse([i \in 1 .. n |-> RollRight(Xor[cur[i]][19], 3)])

\* Mutant: unmixed in the order in which it was mixed.
UnmixedInOrder(cur, count) ==
    LET n == Len(cur)
        remember(i) == IF i = 1 THEN 0 ELSE cur[i - 1]
    IN  [i \in 1 .. n |-> RollRight(Xor[Byte(cur[i] - Left(n, i))][remember(i)], count)]

Unmixed(cur, count) ==
    LET n == Len(cur)
        remember(i) == IF i = 1 THEN 0 ELSE cur[i - 1]
    IN  [i \in 1 .. n |-> RollRight(Byte(Xor[cur[i]][remember(i)] - Left(n, i)), count)]

DecryptForth(data) ==
    LET n == Len(data)
    IN  Unmixed([i \in 1 .. n |-> RollLeft(255 - Byte(data[i] - 72), Left(n, i))], 3)

DecryptBack(data) ==
    LET back == Reverse(data)
    IN  Reverse(Unmixed([i \in DOMAIN back |-> Xor[RollLeft(back[i], 3)][19]], 4))

EncryptData(data) ==
    LET Twice(d) == EncryptBack(EncryptForth(d)) IN Twice(Twice(Twice(data)))

DecryptData(data) ==
    LET Twice(d) == DecryptForth(DecryptBack(d)) IN Twice(Twice(Twice(data)))

-----------------------------------------------------------------------------
(* MapleAESOFB                                                              *)

Crypt(data, iv) == [i \in DOMAIN data |-> Xor[data[i]][Keystream(iv, i)]]

\* The length's bytes, the low one first.
Exchanged(length) == <<Byte(length), length \div 256>>

\* Mutant: the length's bytes are not exchanged.
PacketHeaderUnswapped(length, iv) ==
    LET iiv == XorEach(iv, Version)
    IN  <<iiv, XorEach(iiv, <<length \div 256, Byte(length)>>)>>

\* getPacketHeader, as two words.
PacketHeader(length, iv) ==
    LET iiv == XorEach(iv, Version)
    IN  <<iiv, XorEach(iiv, Exchanged(length))>>

\* getPacketLength
LengthIn(header) ==
    LET word == XorEach(header[1], header[2]) IN word[1] + 256 * word[2]

\* checkPacket
Fits(header, iv) == XorEach(header[1], iv) = Version

-----------------------------------------------------------------------------
\* MaplePacketEncoder.encode
Sealed(packet, iv) ==
    [header |-> PacketHeader(Len(packet), iv), body |-> Crypt(EncryptData(packet), iv)]

\* MaplePacketDecoder.decode
Opened(frame, iv) ==
    DecryptData(Crypt(SubSeq(frame.body, 1, LengthIn(frame.header)), iv))

=============================================================================
