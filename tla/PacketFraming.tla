--------------------------- MODULE PacketFraming ----------------------------
(***************************************************************************)
(* The receiving side: the readable branch of TcpSocket::onEvent, which    *)
(* calls recv until a read is short, and TcpConnection::onRecvData, which  *)
(* cuts the stream into packets whatever the sizes recv returns.  epoll is *)
(* edge-triggered: it reports bytes once, when they arrive.                *)
(*                                                                         *)
(* A byte is its number in what the server sends, so a byte in a wrong     *)
(* place shows.  Buffers have the position, limit and capacity of          *)
(* NativeByteBuffer, with its refusals.  buffer is either networkBuffer or *)
(* resetOfData itself: cur says which.                                     *)
(*                                                                         *)
(* Two things make the loop read bytes that are not of this connection: a  *)
(* handshake the server refuses reconnects inside the loop, which goes on  *)
(* over the old bytes, and the loop tests resetOfData again after giving   *)
(* it back to the pool.  From then on the connection is mixed: the buffers *)
(* are not followed, and onRecvData does to the connection anything it may.*)
(***************************************************************************)
EXTENDS Integers, Sequences, FiniteSetsExt

CONSTANTS
    Header,      \* the 20 bytes of a PacketHeader
    HeadLens,    \* the values of headLen the server uses, some above Header
    Bodies,      \* the lengths of the bodies it sends
    Count,       \* how many packets it sends
    ReadSize,    \* READ_BUFFER_SIZE
    RestSize,    \* the size restHeader asks for
    Pools        \* the capacities of BufferStorage

ASSUME FramingAssumption ==
    /\ Header \in Nat \ {0} /\ ReadSize \in Nat \ {0} /\ RestSize \in Nat /\ Count \in Nat
    /\ HeadLens \subseteq Nat /\ Bodies \subseteq Nat /\ Pools \subseteq Nat
    /\ \A h \in HeadLens : Header <= h /\ h <= RestSize
    /\ \E p \in Pools : RestSize <= p

VARIABLES
    packets,     \* what the server sends, over all the connections
    first,       \* the first packet of the present connection
    arrived,     \* the bytes of it that have reached the kernel
    edge,        \* epoll has an arrival to report
    reading,     \* onEvent calls recv next
    received,    \* the bytes recv has returned
    network,     \* networkBuffer, as far as it will still be read
    rest,        \* resetOfData
    last,        \* lastPacketLength
    cur,         \* the buffer being parsed: "network", "rest", "mixed" or "idle"
    later,       \* parseLaterBuffer is networkBuffer, not null
    delivered,   \* the bytes of each packet handed to the application
    mixed,       \* the parser has gone on over bytes that are not the connection's
    inLoop       \* onRecvData was parsing when the connection was opened

kernel == <<arrived, edge>>

vars == <<packets, first, kernel, reading, received, network, rest, last, cur, later,
          delivered, mixed, inLoop>>

-----------------------------------------------------------------------------
(* NativeByteBuffer and BufferStorage *)

NoBuffer == [data |-> <<>>, pos |-> 0, lim |-> 0, cap |-> 0]

\* BufferStorage::getBuffer; what the buffer held before is unknown (0).
GetBuffer(size) ==
    LET fits == {p \in Pools : size <= p}
        cap == IF fits = {} THEN size ELSE Min(fits)
    IN  [data |-> [i \in 1 .. cap |-> 0], pos |-> 0, lim |-> size, cap |-> cap]

Remaining(b) == b.lim - b.pos

\* position(p) and limit(l), which ignore what is out of bounds.
SetPosition(b, p) == IF p > b.lim THEN b ELSE [b EXCEPT !.pos = p]

SetLimit(b, l) ==
    IF l > b.cap THEN b
    ELSE [b EXCEPT !.lim = l, !.pos = IF b.pos > l THEN l ELSE b.pos]

Content(b) == SubSeq(b.data, b.pos + 1, b.lim)

\* writeBytes(src): dropped without a word when it does not fit.
WriteBytes(b, src) ==
    LET n == Remaining(src)
    IN  IF b.pos + n > b.lim THEN b
        ELSE [b EXCEPT !.pos = b.pos + n,
                       !.data = [i \in 1 .. b.cap |->
                           IF i > b.pos /\ i <= b.pos + n
                           THEN src.data[src.pos + i - b.pos] ELSE b.data[i]]]

\* compact, a no-op on an empty buffer.
Compact(b) ==
    IF b.pos = b.lim THEN b
    ELSE [b EXCEPT !.pos = Remaining(b), !.lim = b.cap,
                   !.data = [i \in 1 .. b.cap |->
                       IF i <= Remaining(b) THEN b.data[b.pos + i] ELSE b.data[i]]]

-----------------------------------------------------------------------------
(* What the server sends *)

Packets == [head : HeadLens, body : Bodies, ok : BOOLEAN]

Length(p) == p.head + p.body

\* The number of the last byte before packet k.
Start(k) == LET f[i \in 0 .. k - 1] == IF i = 0 THEN 0 ELSE f[i - 1] + Length(packets[i])
            IN  f[k - 1]

Total == Start(Len(packets) + 1)

BytesOf(k) == [i \in 1 .. Length(packets[k]) |-> Start(k) + i]

\* The packet whose header these bytes are, or 0.
HeaderAt(bytes) ==
    LET k == {j \in 1 .. Len(packets) : bytes = SubSeq(BytesOf(j), 1, Header)}
    IN  IF k = {} THEN 0 ELSE CHOOSE j \in k : TRUE

Init ==
    /\ packets \in [1 .. Count -> Packets]
    /\ \A k \in 1 .. Count - 1 : packets[k].ok
    /\ first = 1 /\ arrived = 0 /\ edge = FALSE /\ reading = FALSE /\ received = 0
    /\ network = NoBuffer /\ rest = NoBuffer /\ last = 0
    /\ cur = "idle" /\ later = FALSE /\ delivered = <<>>
    /\ mixed = FALSE /\ inLoop = FALSE

-----------------------------------------------------------------------------
(* The kernel *)

\* Bytes arrive.  The parser does not see it, so they do while it is not running.
Arrive(n) ==
    /\ cur = "idle" /\ arrived + n <= Total
    /\ arrived' = arrived + n /\ edge' = TRUE
    /\ UNCHANGED <<packets, first, reading, received, network, rest, last, cur, later,
                   delivered, mixed, inLoop>>

\* epoll_wait returns EPOLLIN, if what arrived has not been read meanwhile.
EpollIn ==
    /\ cur = "idle" /\ ~reading /\ edge
    /\ edge' = FALSE /\ reading' = (arrived > received)
    /\ UNCHANGED <<packets, first, arrived, received, network, rest, last, cur, later,
                   delivered, mixed, inLoop>>

-----------------------------------------------------------------------------
(* onRecvData: taking the bytes *)

\* The bytes of a recv, in networkBuffer; nothing else of it is ever read.
Input(n) == [data |-> [i \in 1 .. n |-> received + i], pos |-> 0, lim |-> n, cap |-> ReadSize]

\* Line 98: nothing was left over.
RecvAfresh(n) ==
    /\ rest = NoBuffer
    /\ network' = Input(n) /\ cur' = "network" /\ later' = FALSE
    /\ UNCHANGED rest

\* Line 99: part of a header was left over; the bytes join it, in a larger
\* buffer if need be.
RecvHeader(n) ==
    LET joined == IF rest.cap - rest.pos >= n
                  THEN WriteBytes(SetLimit(rest, rest.pos + n), Input(n))
                  ELSE WriteBytes(WriteBytes(GetBuffer(rest.lim + n),
                                             [rest EXCEPT !.pos = 0]), Input(n))
    IN  /\ rest # NoBuffer /\ last = 0
        /\ network' = NoBuffer
        /\ rest' = [joined EXCEPT !.pos = 0]
        /\ cur' = "rest" /\ later' = FALSE

\* Mutant: the whole of what was received goes into the packet.
MissingAll(n) == n

\* How much of n bytes the packet left over still lacks.
Missing(n) == IF last - rest.pos <= n THEN last - rest.pos ELSE n

\* Line 115: part of a packet was left over; it takes what it lacks.
RecvBody(n) ==
    LET len == Missing(n)
        filled == WriteBytes(rest, SetLimit(Input(n), len))
        whole == filled.pos = last
    IN  /\ rest # NoBuffer /\ last # 0
        /\ network' = IF whole /\ len < n THEN [Input(n) EXCEPT !.pos = len] ELSE NoBuffer
        /\ later' = (whole /\ len < n)
        /\ cur' = IF whole THEN "rest" ELSE "idle"
        /\ rest' = IF whole THEN [filled EXCEPT !.pos = 0] ELSE filled

\* Mutant: one recv for each event.
ReadsOnOnce(n) == FALSE

\* Mutant: recv is called until it fails.
ReadsOnAlways(n) == TRUE

\* Line 123: a read that filled the buffer is followed by another.
ReadsOn(n) == n = ReadSize

\* Nothing is known of the buffers: the loop is reached, or the call returns at
\* line 133 with the packet not complete.
RecvMixed ==
    /\ cur' \in {"mixed", "idle"}
    /\ UNCHANGED <<network, rest, later>>

Recv ==
    LET n == Min({ReadSize, arrived - received})
    IN  /\ cur = "idle" /\ reading /\ arrived > received
        /\ received' = received + n
        /\ reading' = ReadsOn(n)
        /\ \/ ~mixed /\ (RecvAfresh(n) \/ RecvHeader(n) \/ RecvBody(n))
           \/ mixed /\ RecvMixed
        /\ UNCHANGED <<packets, first, kernel, last, delivered, mixed, inLoop>>

-----------------------------------------------------------------------------
(* onRecvData: the loop over the buffer *)

Buffer == IF cur = "rest" THEN rest ELSE network

\* The packet at the position of the buffer.
Packet == HeaderAt(SubSeq(Content(Buffer), 1, Header))

Parsing == cur \in {"network", "rest"} /\ Remaining(Buffer) > 0

HasHeader == Parsing /\ Remaining(Buffer) >= Header

\* The header there, if it is one.
Headers == IF HasHeader THEN {packets[k] : k \in {Packet} \ {0}} ELSE {}

\* checkHeader accepts, and a header longer than the default is all there.
HasPacketHeader(p) == p.ok /\ Remaining(Buffer) >= p.head

\* restHeader, and the end of the call.
RestHeader ==
    LET copy == WriteBytes(GetBuffer(RestSize), Buffer)
    IN  /\ \/ Parsing /\ ~HasHeader
           \/ \E p \in Headers : p.ok /\ Remaining(Buffer) < p.head
        /\ IF rest = NoBuffer \/ rest.pos # 0
           THEN rest' = SetLimit(copy, copy.pos) /\ last' = 0
           ELSE rest' = SetPosition(rest, rest.lim) /\ UNCHANGED last
        /\ cur' = "idle" /\ network' = NoBuffer
        /\ UNCHANGED <<packets, first, kernel, reading, received, later, delivered, mixed,
                       inLoop>>

\* onDisconnected, and a new connection, which the server starts with a packet of
\* which it has sent nothing.
NewStream ==
    LET k == Min({j \in 1 .. Count + 1 : Start(j) >= arrived})
    IN  /\ first' = k /\ arrived' = Start(k) /\ received' = Start(k)
        /\ edge' = FALSE /\ delivered' = <<>>
        /\ rest' = NoBuffer /\ last' = 0 /\ network' = NoBuffer /\ later' = FALSE
        /\ UNCHANGED packets

\* A new connection, and nothing left to parse.
Renew == NewStream /\ cur' = "idle" /\ mixed' = FALSE

\* checkHeader refuses: reconnect().  onEvent still reads on if the buffer was
\* full, then from the new socket.
BadHeader ==
    /\ (\E p \in Headers : ~p.ok) \/ cur = "mixed"
    /\ Renew
    /\ inLoop' = TRUE /\ UNCHANGED reading

\* Mutant: the position stays behind the header.
AppendableAtHeader(b, len) == SetLimit(b, len)

\* Line 194: the bytes stay where they are and more will be appended.
Appendable(b, len) == SetLimit(SetPosition(b, b.lim), len)

\* Line 180: the packet is not complete.
PartialPacket ==
    \E p \in Headers :
        /\ HasPacketHeader(p) /\ Remaining(Buffer) < Length(p)
        /\ rest' = IF rest = NoBuffer \/ rest.cap < Length(p)
                   THEN WriteBytes(GetBuffer(Length(p)), Buffer)
                   ELSE Appendable(SetPosition(rest, rest.pos + p.head), Length(p))
        /\ last' = Length(p)
        /\ cur' = "idle" /\ network' = NoBuffer
        /\ UNCHANGED <<packets, first, kernel, reading, received, later, delivered, mixed,
                       inLoop>>

\* Line 203: the packet p is complete.
HasPacket(p) == HasPacketHeader(p) /\ Remaining(Buffer) >= Length(p)

\* The buffer when p has been read.
After(p) == [Buffer EXCEPT !.pos = @ + Length(p)]

\* Line 213: nothing else is left in resetOfData.
Consumed(p) == IF last # 0 THEN After(p).pos = last ELSE Remaining(After(p)) = 0

\* The packet is delivered; what was left over of it is given back or moved to
\* the front, and parsing goes on.
DeliverPacket ==
    \E p \in Headers :
        LET moved == Compact(After(p))
        IN  /\ HasPacket(p)
            /\ delivered' = Append(delivered, SubSeq(Content(Buffer), 1, Length(p)))
            /\ network' = IF cur = "network" THEN After(p) ELSE network
            /\ rest' = IF cur = "network" \/ Consumed(p) THEN NoBuffer
                       ELSE SetPosition(SetLimit(moved, moved.pos), 0)
            /\ cur' = IF later THEN "network"
                      ELSE IF cur = "rest" /\ Consumed(p) THEN "idle" ELSE cur
            /\ later' = FALSE
            /\ UNCHANGED <<packets, first, kernel, reading, received, last, mixed, inLoop>>

\* The loop goes on over bytes that are not the connection's.
GoOn == cur' = "mixed" /\ mixed' = TRUE

\* Lines 215 and 139: buffer is resetOfData, given back, and the loop tests it
\* again when another thread has it, or when it has been deleted.
DeliverAndGoOn ==
    /\ \E p \in Headers : HasPacket(p) /\ cur = "rest" /\ Consumed(p) /\ ~later
    /\ GoOn
    /\ rest' = NoBuffer /\ last' = 0 /\ delivered' = <<>>
    /\ UNCHANGED <<packets, first, kernel, reading, received, network, later, inLoop>>

\* Line 208: the packet (any may) refuses the handshake, and onHandshakeResult closes
\* the connection and opens another.  The loop goes on with the buffer it has: with
\* what follows the packet, or, when that was in resetOfData, with what another
\* thread has made of it.
RefusedHandshake ==
    /\ \/ \E p \in Headers :
              /\ HasPacket(p)
              /\ \/ (later \/ cur = "rest" \/ Remaining(After(p)) > 0) /\ NewStream /\ GoOn
                 \/ ~later /\ Remaining(After(p)) = 0 /\ Renew
       \/ cur = "mixed" /\ ((NewStream /\ GoOn) \/ Renew)
    /\ inLoop' = TRUE /\ UNCHANGED reading

\* The loop ends: the buffer is used up.
EndOfBuffer ==
    /\ (cur \in {"network", "rest"} /\ Remaining(Buffer) = 0) \/ cur = "mixed"
    /\ cur' = "idle" /\ network' = NoBuffer
    /\ UNCHANGED <<packets, first, kernel, reading, received, rest, last, later, delivered,
                   mixed, inLoop>>

\* A lost connection.
Lose == Renew /\ reading' = FALSE /\ inLoop' = FALSE

\* Line 113: recv has nothing to return and fails, closeSocket(0).
RecvFails ==
    /\ cur = "idle" /\ reading /\ arrived = received
    /\ Lose

\* The connection is lost between two events: onDisconnected.
Disconnect ==
    /\ cur = "idle" /\ ~reading
    /\ Lose

Next ==
    \/ \E n \in 1 .. Total : Arrive(n)
    \/ EpollIn \/ Recv \/ RecvFails
    \/ RestHeader \/ BadHeader \/ PartialPacket
    \/ DeliverPacket \/ DeliverAndGoOn \/ RefusedHandshake
    \/ EndOfBuffer \/ Disconnect

Spec == Init /\ [][Next]_vars

-----------------------------------------------------------------------------
(* Properties *)

\* The packets of the present connection that have been received completely.
Complete == {k \in first .. Count : packets[k].ok /\ Start(k + 1) <= received}

\* However recv cuts the stream, the application gets every packet exactly as
\* the server sent it, in order, as soon as its last byte is there; bytes of
\* another packet, of a recycled buffer or of an earlier connection never show.
\* The exceptions are the two of mixed: the bytes after a refused handshake (line
\* 208) are parsed as the next connection's, and a buffer given back (line 215)
\* is parsed if another thread has it by line 139.
PacketsDelivered ==
    ~mixed =>
        /\ HasHeader => Packet # 0
        /\ \A i \in 1 .. Len(delivered) : delivered[i] = BytesOf(first + i - 1)
        /\ cur = "idle" => Len(delivered) = Cardinality(Complete)

\* Between two recvs resetOfData holds the bytes after the last packet, all of
\* them and nothing else, and room for the rest of a packet whose length is known,
\* with the same two exceptions.
RestIsTail ==
    ~mixed /\ cur = "idle" =>
        LET from == Start(first + Len(delivered))
        IN  /\ SubSeq(rest.data, 1, rest.pos) = [i \in 1 .. received - from |-> from + i]
            /\ rest # NoBuffer /\ last # 0 => rest.lim = last /\ rest.pos < last

\* No byte waits in the kernel for an event epoll has reported already: between
\* two events everything that arrived has been read, or its arrival is still to
\* be reported, whatever became of the parser.
UnreadIsReported ==
    cur = "idle" /\ ~reading /\ arrived > received => edge

\* recv finds an empty socket, and closes the connection, only after a read that
\* filled the buffer: a connection on which less than a buffer was received is
\* never given up.  One opened inside onRecvData, after a bad header or a refused
\* handshake, may be before its first byte, with its predecessor's full buffer.
OnlyFullReadsClose ==
    cur = "idle" /\ reading /\ arrived = received =>
        \/ received - Start(first) >= ReadSize
        \/ inLoop /\ received = Start(first)
=============================================================================
