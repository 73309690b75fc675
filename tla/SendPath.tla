------------------------------ MODULE SendPath ------------------------------
(***************************************************************************)
(* The way of a message out: a Java thread wraps the body of a request in  *)
(* a pooled buffer; the network thread serializes it into a second one,    *)
(* copies that into a third, which waits in the ByteStream of the socket   *)
(* until send() has taken all of it.  Each buffer goes back to             *)
(* BufferStorage, which both threads use, at a moment of its own.          *)
(*                                                                         *)
(* A byte is the content it belongs to and its number in it; the lengths   *)
(* are those of the code on a smaller scale.  epoll is edge-triggered.  A  *)
(* message is a batch of sendMessageToConnection of its own: RequestQueue  *)
(* shows that one without reply always is, and those with a reply keep     *)
(* their buffers until the batch has been copied.  The ping has no body    *)
(* and no copy; the handshake, which has no copy either, is left out.      *)
(***************************************************************************)
EXTENDS Naturals, FiniteSets, Sequences, FiniteSetsExt

CONSTANTS
    MaxBuffers,  \* bound on the buffers there is memory for
    MaxPool,     \* maxSize of the free list of each capacity
    FirstPool,   \* the free lists that the constructor fills
    Messages,    \* the requests, and the ping
    Acked,       \* the requests without RequestFlagWithoutAck
    Ping,        \* the ping
    Lengths,     \* the lengths the body of each request may have
    HeadLength,  \* DEFAULT_HEAD_LENGTH
    Limit,       \* the first length that uint16_t cannot hold
    ReadSize,    \* the capacity of networkBuffer, which get() fills
    Window       \* the capacity of the socket's own buffer

Capacities == DOMAIN MaxPool
Buffers == 1 .. MaxBuffers
Null == 0
Junk == <<"junk", "junk">>

\* A buffer of capacity c; one that is not allocated has none.
NewBuffer(c) == [capacity |-> c, limit |-> c, content |-> Junk]

ASSUME SendAssumption ==
    /\ MaxBuffers \in Nat /\ Capacities \subseteq Nat \ {0} /\ Capacities # {}
    /\ MaxPool \in [Capacities -> Nat] /\ FirstPool \in [Capacities -> Seq(Buffers)]
    /\ \A c, d \in Capacities : \A i \in DOMAIN FirstPool[c], j \in DOMAIN FirstPool[d] :
          FirstPool[c][i] = FirstPool[d][j] => c = d /\ i = j
    /\ Ping \in Messages \ Acked /\ Acked \subseteq Messages
    /\ Lengths \in [Messages \ {Ping} -> SUBSET Nat]
    /\ {HeadLength, Limit, ReadSize, Window} \subseteq Nat \ {0} /\ HeadLength < Limit

VARIABLES
    store,     \* the free lists, and each buffer
    stage,     \* how far each message is
    length,    \* history: the length of its body
    pack,      \* NetworkMessage::packLength
    body,      \* the buffer of its body, held by Java and then by the request
    out,       \* NetworkMessage::outgoingBody, and requestBuffer of the request
    sending,   \* sendBuffer of sendMessageToConnection
    emptied,   \* the requests whose body was read to its end before it was serialized
    queue,     \* buffersQueue: the buffers, and how much of each has been sent
    conn,      \* "closed", "connecting" or "up"
    space,     \* the room in the socket's buffer
    armed,     \* EPOLLOUT is in the event mask
    ready,     \* epoll has a writable event to report
    wire,      \* what send() has taken on this connection
    appended   \* history: the messages queued on it, what they were, and how long

vars == <<store, stage, length, pack, body, out, sending, emptied, queue, conn, space,
          armed, ready, wire, appended>>

message == <<stage, length, pack, body, out, sending, emptied>>
socket == <<queue, conn, space, armed, ready, wire, appended>>

Init ==
    /\ store = [free |-> FirstPool,
                buffer |-> [b \in Buffers |->
                    NewBuffer(Max({0} \cup {c \in Capacities : b \in Range(FirstPool[c])}))]]
    /\ stage = [m \in Messages |-> "new"] /\ length = [m \in Messages |-> 0]
    /\ pack = [m \in Messages |-> 0]
    /\ body = [m \in Messages |-> Null] /\ out = [m \in Messages |-> Null]
    /\ sending = Null /\ emptied = {}
    /\ queue = <<>> /\ conn = "closed" /\ space = 0 /\ armed = FALSE /\ ready = FALSE
    /\ wire = <<>> /\ appended = <<>>

-----------------------------------------------------------------------------
(* BufferStorage, under its mutex: operators on a storage s *)

\* The capacity of the free list for size: the smallest that fits, or none.
ListFor(size) ==
    LET fitting == {c \in Capacities : c >= size}
    IN  IF fitting = {} THEN size ELSE Min(fitting)

Recyclable(s, size) == ListFor(size) \in Capacities /\ s.free[ListFor(size)] # <<>>

Unallocated(s) == {b \in Buffers : s.buffer[b].capacity = 0}

Available(s, size) == Recyclable(s, size) \/ Unallocated(s) # {}

\* The buffer getBuffer gives out: the oldest free one, or a new one.
GetBuffer(s, size) ==
    IF Recyclable(s, size) THEN Head(s.free[ListFor(size)]) ELSE Min(Unallocated(s))

\* The storage after it.  limit() is ignored past the capacity; what a buffer of
\* another length holds is no packet any more.
AfterGet(s, size) ==
    LET b == GetBuffer(s, size)
        fits == s.buffer[b].capacity >= size
    IN  IF Recyclable(s, size)
        THEN [s EXCEPT !.free[ListFor(size)] = Tail(@),
                       !.buffer[b].limit = IF fits THEN size ELSE @,
                       !.buffer[b].content = IF fits /\ size # s.buffer[b].limit THEN Junk ELSE @]
        ELSE [s EXCEPT !.buffer[b] = [NewBuffer(ListFor(size)) EXCEPT !.limit = size]]

\* Mutant: the 200 bytes that each size is longer by are left out here.
FreeIntoNext(capacity) == ListFor(capacity + 1)

\* The free list for a buffer that comes back.
FreeInto(capacity) == ListFor(capacity)

\* Mutant: a buffer that is not kept is forgotten.
Forgotten(s, b) == s

Deleted(s, b) == [s EXCEPT !.buffer[b] = NewBuffer(0)]

\* reuseFreeBuffer: b is deleted when there is no list for it, or the list is full.
Reuse(s, b) ==
    LET c == FreeInto(s.buffer[b].capacity)
    IN  IF c \in Capacities /\ Len(s.free[c]) < MaxPool[c]
        THEN [s EXCEPT !.free[c] = Append(@, b)] ELSE Deleted(s, b)

\* The storage when the buffers bs come back, in this order.
GiveBack(s, bs) ==
    LET after[i \in 0 .. Len(bs)] == IF i = 0 THEN s ELSE Reuse(after[i - 1], bs[i])
    IN  after[Len(bs)]

-----------------------------------------------------------------------------
(* ByteStream *)

\* remaining() of buffer i of the queue.
Remaining(i) == store.buffer[queue[i].buffer].limit - queue[i].sent

\* That of the first n buffers.
RemainingOf(n) ==
    LET sum[i \in 0 .. n] == IF i = 0 THEN 0 ELSE sum[i - 1] + Remaining(i)
    IN  sum[n]

\* The sequences of ss, one behind the other.
Joined(ss) ==
    LET join[i \in 0 .. Len(ss)] == IF i = 0 THEN <<>> ELSE join[i - 1] \o ss[i]
    IN  join[Len(ss)]

\* The bytes that are left to send.
Queued ==
    Joined([i \in DOMAIN queue |->
                   [k \in 1 .. Remaining(i) |-> <<store.buffer[queue[i].buffer].content,
                                                 queue[i].sent + k>>]])

\* hasData(), for the queue q and the storage s.
HasData(s, q) == \E i \in DOMAIN q : q[i].sent < s.buffer[q[i].buffer].limit

\* How many bytes get() takes: as many as networkBuffer has room for.
Get == Min({ReadSize, RemainingOf(Len(queue))})

\* Mutant: a buffer that was sent in part is given back.
DiscardedWithPart(n) == Cardinality({i \in DOMAIN queue : RemainingOf(i - 1) < n})

\* How many buffers discard(n) gives back: those that n more bytes send completely.
\* An empty one behind them stays.
Discarded(n) ==
    Cardinality({i \in DOMAIN queue : RemainingOf(i - 1) < n /\ RemainingOf(i) <= n})

\* The queue after discard(n), which gave back the first d buffers: the next advances.
QueueAfter(n, d) ==
    LET rest == SubSeq(queue, d + 1, Len(queue))
    IN  IF rest = <<>> THEN <<>> ELSE [rest EXCEPT ![1].sent = @ + n - RemainingOf(d)]

-----------------------------------------------------------------------------
(* TcpSocket *)

\* Mutant: EPOLLOUT is asked for only when something is appended.
AdjustWriteOpOnce(s, q, room) ==
    /\ armed' = (Len(q) > Len(queue))
    /\ ready' = (armed' /\ room > 0)

\* adjustWriteOp: EPOLL_CTL_MOD reports a socket that is writable already.
AdjustWriteOp(s, q, room) ==
    /\ armed' = HasData(s, q)
    /\ ready' = (armed' /\ room > 0)

\* The network thread handles one batch after the other.
Idle == \A m \in Messages : stage[m] \notin {"serialized", "erased", "copying"}

\* openConnection, and whatever calls it.
Connect ==
    /\ conn = "closed" /\ Idle
    /\ conn' = "connecting" /\ armed' = TRUE
    /\ UNCHANGED <<store, message, queue, space, ready, wire, appended>>

\* The connection is made, or the peer has taken bytes.
RoomAppears ==
    /\ conn # "closed"
    /\ \E room \in space + 1 .. Window : space' = room
    /\ ready' = armed
    /\ UNCHANGED <<store, message, queue, conn, armed, wire, appended>>

\* The writable event: send() takes as much as there is room for.
OnWritable ==
    /\ ready /\ Idle
    /\ conn' = "up" /\ UNCHANGED <<message, appended>>
    /\ IF Get = 0
       THEN ready' = FALSE /\ UNCHANGED <<store, queue, space, armed, wire>>
       ELSE \E n \in {Min({Get, space})} : \E d \in {Discarded(n)} :
               /\ wire' = wire \o SubSeq(Queued, 1, n)
               /\ store' = GiveBack(store, [i \in 1 .. d |-> queue[i].buffer])
               /\ queue' = QueueAfter(n, d)
               /\ space' = space - n
               /\ AdjustWriteOp(store', queue', space')

\* The buffers clear() gives back.
Cleared == [i \in DOMAIN queue |-> queue[i].buffer]

\* closeSocket, with storage s and buffers bs in the stream.
Closed(s, bs) ==
    /\ conn' = "closed" /\ space' = 0 /\ armed' = FALSE /\ ready' = FALSE
    /\ store' = GiveBack(s, bs)
    /\ queue' = <<>> /\ wire' = <<>> /\ appended' = <<>>

\* The requests that wait for a reply were sent on a connection that is no longer
\* the current one.
Unsent == [m \in Messages |-> IF stage[m] = "sent" THEN "early" ELSE stage[m]]

\* Errors, timeouts and hang-ups, a send() that fails included.
CloseSocket ==
    /\ conn # "closed" /\ Idle
    /\ Closed(store, Cleared)
    /\ stage' = Unsent
    /\ UNCHANGED <<length, pack, body, out, sending, emptied>>

\* sendData with buffer b of message m in storage s.  A closed connection drops
\* the data and is opened, if that succeeds; an EPOLL_CTL_MOD that fails closes the
\* socket with what is queued.
SendData(m, s, b) ==
    \/ /\ conn = "closed"
       /\ conn' \in {"closed", "connecting"} /\ armed' = (conn' = "connecting")
       /\ store' = GiveBack(s, <<b>>)
       /\ UNCHANGED <<queue, space, ready, wire, appended>>
    \/ /\ conn # "closed"
       /\ store' = s
       /\ queue' = Append(queue, [buffer |-> b, sent |-> 0])
       /\ appended' = Append(appended, <<m, s.buffer[b].content, s.buffer[b].limit>>)
       /\ AdjustWriteOp(s, queue', space)
       /\ UNCHANGED <<conn, space, wire>>
    \/ conn # "closed" /\ Closed(s, Append(Cleared, b))

-----------------------------------------------------------------------------
(* The messages *)

\* NativeByteBuffer.wrap, on a Java thread.
Wrap(m) ==
    \E n \in Lengths[m] :
        LET b == GetBuffer(store, n)
        IN  /\ stage[m] = "new" /\ Available(store, n)
            /\ store' = [AfterGet(store, n) EXCEPT !.buffer[b].content = <<"body", m>>]
            /\ length' = [length EXCEPT ![m] = n]
            /\ body' = [body EXCEPT ![m] = b]
            /\ stage' = [stage EXCEPT ![m] = "wrapped"]
            /\ UNCHANGED <<pack, out, sending, emptied, socket>>

\* senRequest, logged in.
SenRequest(m) ==
    /\ stage[m] = "wrapped"
    /\ stage' = [stage EXCEPT ![m] = "queued"]
    /\ UNCHANGED <<store, length, pack, body, out, sending, emptied, socket>>

\* A request that is completed before it was serialized: by senRequest itself when
\* logged out, or by the network thread.
Refuse(m) ==
    /\ stage[m] = "wrapped" \/ (stage[m] = "queued" /\ Idle)
    /\ store' = GiveBack(store, <<body[m]>>)
    /\ body' = [body EXCEPT ![m] = Null]
    /\ stage' = [stage EXCEPT ![m] = "done"]
    /\ UNCHANGED <<length, pack, out, sending, emptied, socket>>

\* packLength of a body of n bytes, as uint16_t.
PackLength(n) == (HeadLength + (n % Limit)) % Limit

\* What serializeToBuffer writes for body b of m into room bytes: what does not fit
\* is left out, the body first, and of the body what lies before its position.
Written(m, b, room) ==
    IF m \in emptied \/ HeadLength + store.buffer[b].limit > room THEN <<"header", m>>
    ELSE IF store.buffer[b].content = <<"body", m>> THEN <<"packet", m>>
    ELSE Junk

\* serializeToBuffer: header and body into a new buffer, the old one is given back.
Serialize(m) ==
    LET size == PackLength(store.buffer[body[m]].limit)
        b == GetBuffer(store, size)
        got == AfterGet(store, size)
    IN  /\ stage[m] = "queued" /\ Idle /\ Available(store, size)
        /\ store' = GiveBack([got EXCEPT !.buffer[b].content =
                                              Written(m, body[m], got.buffer[b].limit)],
                             <<body[m]>>)
        /\ pack' = [pack EXCEPT ![m] = size]
        /\ out' = [out EXCEPT ![m] = b]
        /\ body' = [body EXCEPT ![m] = Null]
        /\ stage' = [stage EXCEPT ![m] = "serialized"]
        /\ UNCHANGED <<length, sending, emptied, socket>>

\* Mutant: the request is destroyed whether it waits for a reply or not.
ErasedNow(m) == <<out[m]>>

\* Line 345 destroys a request without reply, with its buffer, before the copy.
Erased(m) == IF m \in Acked THEN <<>> ELSE <<out[m]>>

EraseRequest(m) ==
    /\ stage[m] = "serialized"
    /\ stage' = [stage EXCEPT ![m] = "erased"]
    /\ store' = GiveBack(store, Erased(m))
    /\ UNCHANGED <<length, pack, body, out, sending, emptied, socket>>

\* Mutant: the header is added a second time.
LengthWithHeader(m) == PackLength(store.buffer[out[m]].limit)

\* packLength of a packet that is sent again.
LengthAgain(m) == store.buffer[out[m]].limit % Limit

\* "The connection changed": the serialized packet is sent again.
Resend(m) ==
    /\ stage[m] = "early" /\ conn = "up" /\ Idle
    /\ stage' = [stage EXCEPT ![m] = "erased"]
    /\ pack' = [pack EXCEPT ![m] = LengthAgain(m)]
    /\ UNCHANGED <<store, length, body, out, sending, emptied, socket>>

\* sendMessageToConnection: the buffer to send, then the copy.
GetSendBuffer(m) ==
    /\ stage[m] = "erased" /\ Available(store, pack[m])
    /\ store' = AfterGet(store, pack[m])
    /\ sending' = GetBuffer(store, pack[m])
    /\ stage' = [stage EXCEPT ![m] = "copying"]
    /\ UNCHANGED <<length, pack, body, out, emptied, socket>>

\* writeBytes into sendBuffer does nothing when from is empty or too long.
Copies(from) ==
    LET n == store.buffer[from].limit IN n # 0 /\ n <= store.buffer[sending].limit

\* What sendBuffer holds after it: a mixture when from is shorter.
Copied(from) ==
    IF ~ Copies(from) THEN store.buffer[sending].content
    ELSE IF store.buffer[from].limit < store.buffer[sending].limit THEN Junk
    ELSE store.buffer[from].content

\* The buffer of an erased request may hold another body by now.  The copy rewinds
\* that body and reads it to its end, and nothing rewinds it again.
Emptied(from) ==
    LET there == {n \in Messages : body[n] = from}
    IN  IF Copies(from) THEN emptied \cup there ELSE emptied \ there

\* The copy, and sendData.
SendCopy(m) ==
    /\ stage[m] = "copying"
    /\ emptied' = Emptied(out[m])
    /\ SendData(m, [store EXCEPT !.buffer[sending].content = Copied(out[m])], sending)
    /\ LET stages == IF conn' = conn THEN stage ELSE Unsent
       IN  stage' = [stages EXCEPT ![m] = IF m \notin Acked THEN "done"
                                          ELSE IF conn' = "up" THEN "sent" ELSE "early"]
    /\ sending' = Null
    /\ out' = [out EXCEPT ![m] = IF m \in Acked THEN @ ELSE Null]
    /\ UNCHANGED <<length, pack, body>>

\* sendPing: a header without body, which is not copied.
SendPing ==
    LET b == GetBuffer(store, HeadLength)
    IN  /\ stage[Ping] = "new" /\ Idle /\ Available(store, HeadLength)
        /\ SendData(Ping, [AfterGet(store, HeadLength) EXCEPT
                              !.buffer[b].content = <<"packet", Ping>>], b)
        /\ stage' = [(IF conn' = conn THEN stage ELSE Unsent) EXCEPT ![Ping] = "done"]
        /\ UNCHANGED <<length, pack, body, out, sending, emptied>>

\* The reply, the timeout or the failure of a request: it is destroyed.
Complete(m) ==
    /\ stage[m] \in {"sent", "early"} /\ Idle
    /\ store' = GiveBack(store, <<out[m]>>)
    /\ out' = [out EXCEPT ![m] = Null]
    /\ stage' = [stage EXCEPT ![m] = "done"]
    /\ UNCHANGED <<length, pack, body, sending, emptied, socket>>

Next ==
    \/ Connect \/ RoomAppears \/ OnWritable \/ CloseSocket \/ SendPing
    \/ \E m \in Messages \ {Ping} :
          \/ Wrap(m) \/ SenRequest(m) \/ Refuse(m) \/ Serialize(m)
          \/ EraseRequest(m) \/ Resend(m) \/ GetSendBuffer(m) \/ SendCopy(m) \/ Complete(m)

Spec == Init /\ [][Next]_vars

\* The thread ends its batches and handles the events, and the peer goes on reading.
FairSpec ==
    /\ Spec
    /\ WF_vars(\E m \in Messages : EraseRequest(m) \/ GetSendBuffer(m) \/ SendCopy(m))
    /\ SF_vars(OnWritable) /\ WF_vars(RoomAppears)

-----------------------------------------------------------------------------
(* Properties *)

\* The buffers that message m still owns: not the one of an erased request.
Held(m) ==
    {body[m]} \cup (IF m \in Acked \/ stage[m] = "serialized" THEN {out[m]} ELSE {})

\* The free buffers.
Free == UNION {Range(store.free[c]) : c \in Capacities}

\* A buffer has one owner: it is in one free list once, or in the stream once, or
\* held by one message, whichever thread takes or gives back in between.
OneOwner ==
    /\ \A c, d \in Capacities :
          \A i \in DOMAIN store.free[c], j \in DOMAIN store.free[d] :
             store.free[c][i] = store.free[d][j] => <<c, i>> = <<d, j>>
    /\ \A i, j \in DOMAIN queue : queue[i].buffer = queue[j].buffer => i = j
    /\ Free \cap ({sending} \cup Range(Cleared)) = {}
    /\ \A m \in Messages :
          Held(m) \cap (Free \cup Range(Cleared) \cup {sending}) \subseteq {Null}
    /\ \A m, n \in Messages : m # n => Held(m) \cap Held(n) \subseteq {Null}
    /\ sending \notin Range(Cleared)

\* No buffer is lost: what is allocated is free, queued or held.
NoLeak ==
    Buffers \ Unallocated(store) =
        (Free \cup Range(Cleared) \cup {sending} \cup UNION {Held(m) : m \in Messages})
        \ {Null}

\* A message holds buffers of the length it asked for, whichever they are: limit()
\* says nothing when a buffer from the free list is too small.
RoomAsked ==
    \A m \in Messages :
        /\ body[m] # Null => store.buffer[body[m]].limit = length[m]
        /\ Held(m) \ {body[m], Null} # {} => store.buffer[out[m]].limit = PackLength(length[m])

\* What is queued for a request that waits for a reply is its own packet, the
\* first time and when it is sent again, up to the length that packLength holds.  In
\* one case it is a packet of that length without the body: the body was wrapped in
\* the buffer of an erased request and read to its end by the copy of that one
\* (lines 381 and 382) before it was serialized.
AckedIsIntact ==
    \A i \in DOMAIN appended :
        LET m == appended[i][1]
            kept == IF m \in emptied THEN "header" ELSE "packet"
        IN  m \in Acked /\ HeadLength + length[m] < Limit
            => appended[i] = <<m, <<kept, m>>, HeadLength + length[m]>>

\* A body that is too long for packLength loses its message and no other: as many
\* bytes are queued as packLength says, the first time and again.  Unless these are
\* too few for a header, the packets behind begin where the server expects them.
OverlongStaysInStep ==
    \A i \in DOMAIN appended :
        appended[i][1] \in Acked => appended[i][3] = PackLength(length[appended[i][1]])

\* Nothing is lost, repeated or reordered wherever send() cuts the data, and no
\* buffer is overwritten while it waits: what the socket took and what is still
\* queued is what was queued.
StreamIsKept ==
    wire \o Queued =
        Joined([i \in DOMAIN appended |->
                       [k \in 1 .. appended[i][3] |-> <<appended[i][2], k>>]])

\* What is queued is sent, or lost with its connection.
EverythingIsSent == []<>(~ HasData(store, queue))

-----------------------------------------------------------------------------
(* What a comment in the code says and the code does not do *)

\* "send the data, made of several (header + body)": everything that is queued, and
\* is not too long, is the header and the body of its own message.
SentIsHeaderAndBody ==
    \A i \in DOMAIN appended :
        HeadLength + length[appended[i][1]] < Limit
        => appended[i][2] = <<"packet", appended[i][1]>>
=============================================================================
