---------------------------- MODULE PacketCodec ----------------------------
(***************************************************************************)
(* One connection between the server and a game client.                    *)
(*                                                                         *)
(* Outbound: any thread of the server announces packets; all are encoded   *)
(* on the connection's event loop, the loop's own at once, those of the    *)
(* others as tasks of the loop.  Each frame is ciphered with an IV that    *)
(* both ends step forward in lockstep; the IV is a counter here.  Inbound: *)
(* bytes arrive in fragments of any size, which the decoder puts together  *)
(* again; a byte is known by its packet and its place in it.               *)
(*                                                                         *)
(* The game client is not part of the repository: it is taken to be the    *)
(* mirror image of these classes.                                          *)
(***************************************************************************)
EXTENDS Integers, Sequences, Functions

CONSTANTS
    Threads,    \* the server's threads that announce to this client
    Loop,       \* the one of them that is the connection's event loop
    MaxPackets, \* bound: how many packets each of them announces
    Size,       \* request number -> length of its body in bytes
    Garbage     \* a packet deciphered from the wrong bytes

ASSUME CodecAssumption ==
    /\ Loop \in Threads /\ MaxPackets \in Nat
    /\ Size \in Seq(Nat) /\ Garbage \notin Nat

VARIABLES
    client,    \* the channel's CLIENT_KEY attribute
    open,      \* the channel
    tasks,     \* the event loop's queue
    announced, \* thread -> how many packets it has announced
    sendIv,    \* sendCypher's IV
    wire,      \* frames on their way to the game client
    peerIv,    \* the game client's copy of sendIv; -1: no hello yet
    shown,     \* thread -> its packets that the game client understood
    peerLost,  \* the game client met a frame that it could not decipher
    requests,  \* how many packets the game client has sent
    net,       \* bytes on their way to the server
    buffer,    \* the decoder's cumulated bytes
    packetlength, \* DecoderState.packetlength
    recvIv,    \* recvCypher's IV
    reading,   \* the loop is inside callDecode
    received,  \* the packets handed to the handlers
    rejected   \* checkPacket said no

outbound == <<announced, sendIv, wire, peerIv, shown, peerLost>>
inbound == <<requests, net, buffer, packetlength, recvIv, reading, received, rejected>>
vars == <<client, open, tasks, outbound, inbound>>

Plain == -1

Packet(t) == [kind |-> "packet", from |-> t, nr |-> announced[t] + 1]
Close == [kind |-> "close", from |-> Loop, nr |-> 0]
Inactive == [kind |-> "inactive", from |-> Loop, nr |-> 0]
Hello == [iv |-> Plain, from |-> Loop, nr |-> 0]

-----------------------------------------------------------------------------
(* MapleServerHandler.channelActive                                         *)

\* The hello goes out in plain, then the attribute is set.
Connect ==
    /\ client = "new" /\ open
    /\ client' = "set"
    /\ wire' = <<Hello>>
    /\ UNCHANGED <<open, tasks, announced, sendIv, peerIv, shown, peerLost, inbound>>

-----------------------------------------------------------------------------
(* Outbound: MapleClient.announce and MaplePacketEncoder                    *)

\* Mutant: the header is made after crypt has stepped the IV forward.
EncodeHeaderLast(p) ==
    IF client = "set"
    THEN /\ wire' = Append(wire, [iv |-> sendIv + 1, from |-> p.from, nr |-> p.nr])
         /\ sendIv' = sendIv + 1
    ELSE /\ wire' = Append(wire, [iv |-> Plain, from |-> p.from, nr |-> p.nr])
         /\ UNCHANGED sendIv

\* The header comes from the IV that crypt then steps forward.  Without a
\* client the packet goes out as it is.
Encode(p) ==
    IF client = "set"
    THEN /\ wire' = Append(wire, [iv |-> sendIv, from |-> p.from, nr |-> p.nr])
         /\ sendIv' = sendIv + 1
    ELSE /\ wire' = Append(wire, [iv |-> Plain, from |-> p.from, nr |-> p.nr])
         /\ UNCHANGED sendIv

\* A write to a closed channel fails.
WriteAndFlush(p) ==
    IF open THEN Encode(p) ELSE UNCHANGED <<wire, sendIv>>

\* Mutant: whoever announces encodes on its own thread what the loop has not
\* yet encoded.
AnnounceUnqueued(t) ==
    /\ client # "new" /\ announced[t] < MaxPackets
    /\ announced' = [announced EXCEPT ![t] = @ + 1]
    /\ IF t = Loop \/ announced[t] > 0
       THEN WriteAndFlush(Packet(t)) /\ UNCHANGED tasks
       ELSE tasks' = Append(tasks, Packet(t)) /\ UNCHANGED <<wire, sendIv>>
    /\ UNCHANGED <<client, open, peerIv, shown, peerLost, inbound>>

\* announce is called with the client at hand, even when its session is over.
Announce(t) ==
    /\ client # "new" /\ announced[t] < MaxPackets
    /\ announced' = [announced EXCEPT ![t] = @ + 1]
    /\ IF t = Loop
       THEN WriteAndFlush(Packet(t)) /\ UNCHANGED tasks
       ELSE tasks' = Append(tasks, Packet(t)) /\ UNCHANGED <<wire, sendIv>>
    /\ UNCHANGED <<client, open, peerIv, shown, peerLost, inbound>>

-----------------------------------------------------------------------------
(* The end of a session                                                     *)

\* channelInactive is called later, as a task.
CloseNow == open' = FALSE /\ tasks' = IF open THEN Append(tasks, Inactive) ELSE tasks

\* getSession().close()
CloseBy(t) ==
    /\ client # "new"
    /\ IF t = Loop THEN CloseNow ELSE tasks' = Append(tasks, Close) /\ UNCHANGED open

\* MapleClient.disconnect, by whichever thread: the attribute goes first.
Disconnect(t) ==
    /\ client = "set"
    /\ CloseBy(t)
    /\ client' = "gone"
    /\ UNCHANGED <<outbound, inbound>>

\* A handler or another thread closes the channel and leaves the attribute.
Kick(t) ==
    /\ client = "set" /\ open
    /\ \A i \in DOMAIN tasks : tasks[i].kind = "packet"
    /\ CloseBy(t)
    /\ UNCHANGED <<client, outbound, inbound>>

\* The connection breaks.
ConnectionLost ==
    /\ client # "new" /\ open
    /\ CloseNow
    /\ UNCHANGED <<client, outbound, inbound>>

\* The loop's next task.
RunTask ==
    /\ ~ reading /\ tasks # <<>>
    /\ LET task == Head(tasks)
       IN  \/ /\ task.kind = "packet"
              /\ WriteAndFlush(task)
              /\ tasks' = Tail(tasks)
              /\ UNCHANGED <<client, open>>
           \/ /\ task.kind = "close"
              /\ open' = FALSE
              /\ tasks' = IF open THEN Append(Tail(tasks), Inactive) ELSE Tail(tasks)
              /\ UNCHANGED <<client, wire, sendIv>>
           \/ /\ task.kind = "inactive"
              /\ client' = "gone"
              /\ tasks' = Tail(tasks)
              /\ UNCHANGED <<open, wire, sendIv>>
    /\ UNCHANGED <<announced, peerIv, shown, peerLost, inbound>>

-----------------------------------------------------------------------------
(* Inbound: MaplePacketDecoder under Netty's ByteToMessageDecoder           *)

Bytes(n, from, to) == [i \in 1 .. (to - from + 1) |-> [nr |-> n, pos |-> from + i - 1]]
HeaderOf(n) == Bytes(n, 1, 4)
BodyOf(n) == Bytes(n, 5, 4 + Size[n])

\* getPacketLength of the packet whose header the four bytes are.
GetPacketLength(four) == Size[four[1].nr]

\* checkPacket: bytes that are no header at all are refused as well (the check
\* of 16 bits lets one in 65536 of them pass; that is left out).
CheckPacket(four) == four = HeaderOf(four[1].nr) /\ four[1].nr = recvIv + 1

\* crypt and decryptData.
Decrypt(body) ==
    IF recvIv + 1 \in DOMAIN Size /\ body = BodyOf(recvIv + 1) THEN recvIv + 1 ELSE Garbage

Drop(s, n) == SubSeq(s, n + 1, Len(s))

\* callDecode goes on while decode consumes bytes and some are left.
ReadOn(rest) == reading' = (Len(rest) < Len(buffer) /\ rest # <<>>)

\* Mutant: the body is not waited for.
TakeBodyEarly(rest, n) ==
    /\ LET k == IF n < Len(rest) THEN n ELSE Len(rest)
       IN  /\ received' = Append(received, Decrypt(SubSeq(rest, 1, k)))
           /\ buffer' = Drop(rest, k)
    /\ packetlength' = -1
    /\ recvIv' = recvIv + 1

\* Mutant: packetlength is not reset.
TakeBodyUnreset(rest, n) ==
    IF Len(rest) >= n
    THEN /\ received' = Append(received, Decrypt(SubSeq(rest, 1, n)))
         /\ buffer' = Drop(rest, n)
         /\ packetlength' = n
         /\ recvIv' = recvIv + 1
    ELSE /\ buffer' = rest
         /\ packetlength' = n
         /\ UNCHANGED <<received, recvIv>>

\* The second half of decode: the body, if all of it is there.
TakeBody(rest, n) ==
    IF Len(rest) >= n
    THEN /\ received' = Append(received, Decrypt(SubSeq(rest, 1, n)))
         /\ buffer' = Drop(rest, n)
         /\ packetlength' = -1
         /\ recvIv' = recvIv + 1
    ELSE /\ buffer' = rest
         /\ packetlength' = n
         /\ UNCHANGED <<received, recvIv>>

DecodeHeader ==
    /\ packetlength = -1 /\ Len(buffer) >= 4
    /\ LET four == SubSeq(buffer, 1, 4) IN
       IF CheckPacket(four)
       THEN /\ TakeBody(Drop(buffer, 4), GetPacketLength(four))
            /\ UNCHANGED <<open, tasks, rejected>>
       ELSE /\ buffer' = Drop(buffer, 4)
            /\ rejected' = TRUE
            /\ CloseNow
            /\ UNCHANGED <<received, packetlength, recvIv>>

DecodeBody ==
    /\ packetlength # -1
    /\ TakeBody(buffer, packetlength)
    /\ UNCHANGED <<open, tasks, rejected>>

\* No client, or not even a header.
DecodeNothing ==
    /\ client # "set" \/ (packetlength = -1 /\ Len(buffer) < 4)
    /\ UNCHANGED <<open, tasks, received, buffer, packetlength, recvIv, rejected>>

Decode ==
    /\ reading
    /\ (client = "set" /\ (DecodeHeader \/ DecodeBody)) \/ DecodeNothing
    /\ ReadOn(buffer')
    /\ UNCHANGED <<client, outbound, requests, net>>

\* The loop reads what has arrived, any number of bytes of it.
Receive ==
    /\ open /\ ~ reading /\ client # "new"
    /\ \E n \in 1 .. Len(net) : buffer' = buffer \o SubSeq(net, 1, n) /\ net' = Drop(net, n)
    /\ reading' = TRUE
    /\ UNCHANGED <<client, open, tasks, outbound, requests, packetlength, recvIv, received, rejected>>

-----------------------------------------------------------------------------
(* The game client                                                          *)

\* It deciphers a frame if it has the IV that the frame was made with.
PeerReads ==
    /\ wire # <<>> /\ ~ peerLost
    /\ LET frame == Head(wire) IN
       IF frame.iv = peerIv
       THEN /\ peerIv' = peerIv + 1
            /\ shown' = IF frame.nr = 0 THEN shown
                        ELSE [shown EXCEPT ![frame.from] = Append(@, frame.nr)]
            /\ UNCHANGED peerLost
       ELSE peerLost' = TRUE /\ UNCHANGED <<peerIv, shown>>
    /\ wire' = Tail(wire)
    /\ UNCHANGED <<client, open, tasks, announced, sendIv, inbound>>

\* It sends its next packet once it has the hello.
PeerSends ==
    /\ open /\ peerIv # Plain /\ requests < Len(Size)
    /\ requests' = requests + 1
    /\ net' = net \o HeaderOf(requests + 1) \o BodyOf(requests + 1)
    /\ UNCHANGED <<client, open, tasks, outbound, buffer, packetlength, recvIv, reading, received, rejected>>

-----------------------------------------------------------------------------
Init ==
    /\ client = "new" /\ open = TRUE /\ tasks = <<>>
    /\ announced = [t \in Threads |-> 0]
    /\ sendIv = 0 /\ wire = <<>>
    /\ peerIv = Plain /\ shown = [t \in Threads |-> <<>>] /\ peerLost = FALSE
    /\ requests = 0 /\ net = <<>>
    /\ buffer = <<>> /\ packetlength = -1 /\ recvIv = 0
    /\ reading = FALSE /\ received = <<>> /\ rejected = FALSE

Next ==
    \/ Connect \/ RunTask \/ ConnectionLost
    \/ \E t \in Threads : Announce(t) \/ Disconnect(t) \/ Kick(t)
    \/ Receive \/ Decode
    \/ PeerReads \/ PeerSends

\* The loop serves its connection and its tasks; an unbroken connection
\* carries what was written to it, and the game client reads.
Fairness ==
    /\ WF_vars(Connect) /\ WF_vars(RunTask) /\ WF_vars(Receive) /\ WF_vars(Decode)
    /\ WF_vars(open /\ PeerReads)

Spec == Init /\ [][Next]_vars
FairSpec == Spec /\ Fairness

-----------------------------------------------------------------------------
Task == [kind : {"packet", "close", "inactive"}, from : Threads, nr : 0 .. MaxPackets]
Frame == [iv : Nat \cup {Plain}, from : Threads, nr : 0 .. MaxPackets]
WireByte == [nr : DOMAIN Size, pos : Nat \ {0}]

TypeOK ==
    /\ client \in {"new", "set", "gone"} /\ open \in BOOLEAN
    /\ tasks \in Seq(Task) /\ wire \in Seq(Frame)
    /\ announced \in [Threads -> 0 .. MaxPackets]
    /\ shown \in [Threads -> Seq(1 .. MaxPackets)]
    /\ sendIv \in Nat /\ peerIv \in Nat \cup {Plain} /\ peerLost \in BOOLEAN
    /\ requests \in 0 .. Len(Size) /\ recvIv \in 0 .. Len(Size)
    /\ net \in Seq(WireByte) /\ buffer \in Seq(WireByte)
    /\ packetlength \in Range(Size) \cup {-1}
    /\ received \in Seq(DOMAIN Size \cup {Garbage})
    /\ reading \in BOOLEAN /\ rejected \in BOOLEAN

\* The two ends' IVs stay in step: no frame reaches the game client that it
\* cannot decipher while the session lasts, though threads, tasks, replies and
\* disconnects interleave, and the session ends by forgetting the client.
PeerInStep == peerLost => client = "gone"

\* The server never refuses a header of a game client that keeps to the
\* protocol, however its bytes were fragmented and whatever was left of them
\* when the session ended.
NoneRejected == ~ rejected

\* To the game client: what each thread announces arrives once, whole and in
\* order, and does arrive while the session lasts.
ToClient == INSTANCE PacketPipe WITH
    Senders <- Threads, arrived <- shown, lasts <- (open /\ client # "gone")
OutboundIsPipe == ToClient!Spec

\* To the server: a packet is put together the same however it was fragmented.
Peer == {"peer"}
ToServer == INSTANCE PacketPipe WITH
    Senders <- Peer,
    announced <- [s \in Peer |-> requests], arrived <- [s \in Peer |-> received],
    lasts <- (open /\ client # "gone")
InboundIsPipe == ToServer!Spec
=============================================================================
