--------------------------- MODULE MCPacketCodec ---------------------------
\* One connection, announced to by its event loop and by a timer, and what is done
\* to the bytes of the packets that travel on it.
EXTENDS PacketCodec, PacketCipher

CONSTANTS loop, timer

\* A body shorter than a header and one longer than it.
MCSize == <<2, 5>>

\* All short packets over bytes at the edges of the arithmetic, and one that is
\* longer than a signed byte can count.
MCBytes == {0, 1, 19, 72, 127, 128, 183, 255}
MCSamples ==
    UNION {[1 .. n -> MCBytes] : n \in 1 .. 2} \cup {[i \in 1 .. 130 |-> (i * 37) % 256]}
MCKeystream(v, i) == (v[2] + 101 * i) % 256

\* The least, the greatest, one between; the version is that of 95.
MCIvs == {<<0, 0>>, <<0, 255>>, <<48, 117>>, <<255, 255>>}
MCVersion == <<160, 255>>

\* The two properties of the ciphering say nothing of a state: the connection's
\* first is enough to look at them.
AtFirst == client = "new"

\* The twelve rounds and the keystream undo each other, whatever the bytes and
\* however the lengths and sums wrap.
OpenedIsPacket ==
    AtFirst => \A packet \in Samples, iv \in Ivs : Opened(Sealed(packet, iv), iv) = packet

\* The header tells the length to whoever holds the IV it was made with, and
\* is refused by whoever holds another.
HeaderTellsLength ==
    AtFirst =>
        \A n \in Lengths \cup {Len(packet) : packet \in Samples}, iv \in Ivs :
            LET header == PacketHeader(n, iv) IN
            /\ LengthIn(header) = n
            /\ \A other \in Ivs : Fits(header, other) <=> other = iv
=============================================================================
