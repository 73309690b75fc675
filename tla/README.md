# Fastsocks-simple: TLA+ models, checks and proofs

Fastsocks-simple keeps one long TCP connection between an Android application and
its server. A C++ library (`src/fastsocks/cpp/tcp`) runs a single network thread;
Java threads reach it through JNI, and it calls back through a Java dispatch queue.
This directory models that library, checks the models with TLC on small instances,
and proves the safety properties with TLAPS for every instance.

File names without a path are in `src/fastsocks/cpp/tcp/`; `CM` is
`ConnectionsManager.cpp`, `DC` is `Datacenter.cpp`.

## 1. The system

| Part | State | Operations | Modules |
|---|---|---|---|
| Server endpoints (`DC`) | list of addresses and ports, the forced server, two indices | add, force, rotate, read the current one | `Endpoints` |
| Connection (`TcpConnection.cpp`, `TcpSocket.cpp`) | status, socket, token, handshake state, failure counters, reconnect timer | connect, reconnect, close, the callbacks, handshake, ping | `TcpConnection` |
| Select loop (`CM:117-186`) | task queue, position in the loop, pending event bits, bytes being parsed, account | tasks, `callEvents`, `onEvent`, the parse loop, `checkTimeout`, handshake and ping | `LongLink` |
| What the requests see of it | account, network, handshake, socket, token | one action each | `Link` |
| Requests (`CM:214-389`, `CM:537-588`, `CM:698-742`) | two lists, message number, retry counters | `senRequest`, `processRequestQueue`, `sendMessageToConnection`, `clearUp`, replies | `RequestQueue` |
| Keep-alive (`CM:143-185`, `CM:420-449`) | dates of the last event, packet and pause, socket timeout | pause, resume, ping, time-out, login, logout | `KeepAlive` |
| Reading (`TcpSocket.cpp:100-128`, `TcpConnection.cpp:94-261`) | what epoll has reported, left-over bytes, length of the packet they begin | `onEvent`, `onRecvData` | `PacketFraming` |
| Hand-over of tasks (`CM:604-627`, `CM:782-789`) | queue, eventfd or pipe | schedule, wake up, run | `TaskQueue`, `RoundTrip` |
| Callbacks (`DispatchQueue.java`) | latch, two handlers | post, forward, run | `DispatchQueue`, `RoundTrip` |
| Output (`ByteStream.cpp`, `TcpSocket.cpp:130-206`) | queue of buffers, event mask | append, send, discard, clear | `SendPath` |
| Buffers (`BufferStorage.cpp`) | a free list for each capacity | take, give back | `SendPath` |

How they interact. Java calls become tasks (`TaskQueue`), which the select loop
(`LongLink`) runs before and after `epoll_wait`. The loop drives the one connection
(`TcpConnection`), which asks `Endpoints` where to connect. Bytes go through
`PacketFraming` to the handshake, to a waiting request, or to the application, whose
listeners the main thread calls (`DispatchQueue`). At the end of each round the loop
begins a handshake, or pings (`KeepAlive`) and looks at the requests
(`RequestQueue`), whose messages are put into pooled buffers and queued on the socket
(`SendPath`).

What makes it hard:

- callbacks re-enter: a refused handshake closes and reopens the socket inside the
  loop that parses the bytes of the old one, and bits of an event are applied to a
  socket opened after the event;
- Java calls read state (`uin`, `lastPauseTime`) on their own thread, and act later
  in a task;
- almost every path may connect, and `connect()` itself reports a close;
- a batch of messages may be lost in part;
- five places set the socket's timeout, it must stay above the heartbeat, and all
  dates are those of a clock that the user may set;
- epoll is edge-triggered: what it has reported once it does not report again;
- buffers are recycled between threads, and refuse silently what does not fit.

`PROJECT.json` lists these hazards at their lines with the properties that watch them.

## 2. Modules and their correspondence to the code

**Endpoints** is the pure part of `Datacenter`: a record `Pool` (address list, index,
port index, forced server) and one operator per method. `std::random_shuffle` is any
permutation.

**TcpConnection** is the record `Conn` (status, socket, token, handshake, counters,
timer, what is queued, what the kernel holds) and one operator per method; each takes
the connection before and returns the one after, calls of other methods included:
`CloseSocket` runs `OnDisconnected`, which runs `OnConnectionClosed` and
`ScheduleReconnect`. The failure counter is capped at the larger retry limit plus one,
beyond which the code cannot tell values apart. `isTryingNextPort` is left out: it
only chooses between two connection timeouts, which belong to `KeepAlive`.

**LongLink** puts the connection into the loop. `pc` is the place in `select()`; each
branch of `TcpSocket::onEvent` and each kind of packet is an action, so Java calls,
kernel and server interleave between any two. System calls may fail wherever the code
looks at their result. Time is abstracted: an armed timeout, a ping or a pause may be
due at any round. A null connection that is dereferenced leads to `pc = "crashed"`: by a
task, by the ping, or by the beginning of a pause (`JoinPause`, `CM:152`), which comes
before the handshake of the same round. What a pause does to a connection that exists,
a longer timeout, is in `KeepAlive`. `service` is the state of the Java service whose
start and end log the account in and out.

**Link** is the abstract connection: open, announced with a fresh token, accepted,
closed. **LongLinkRefinement** maps `LongLink` to it (`ImplementsLink`).
**RequestQueue** extends `Link` instead of `LongLink`, so requests are checked against
every behaviour the link may have; `DrivesLink` says that the request code, for its
part, moves the link only as `Link` allows. `processRequestQueue` decides every
request from the same token, handshake state and network and is one action; which
requests have timed out is any subset, and how much of a batch is lost is any prefix.
`Fate` says what the two loops decide for one request, `Meeting` picks the requests of
a list with a given fate in order, and `Process` puts the new lists together from them.

**KeepAlive** has time, in ticks of 5 seconds, with the intervals of the code (8, 15,
30 and 70 s timeouts, 20 and 60 s heartbeats, 60 s until a pause, rewound by 50 s).
Dates are ages as the wall clock shows them, since `getCurrentTimeMillis` reads
`CLOCK_REALTIME`; `SetClock` changes all of them at once, to negative ones perhaps,
while `epoll_wait` goes on in real time. Logins and logouts go through the task queue,
and a logout leaves the pause as it was. Its server is healthy and answers within a
tick: the question is whether the client alone closes a good connection. When the
network is not paused `epoll_wait` sleeps one second; here that is a tick.

**PacketFraming** numbers the bytes of the stream, so that one in a wrong place
shows. It has the reading loop of `onEvent`: bytes arrive in any portions (`Arrive`),
epoll reports them once (`EpollIn`), and `recv` is called until a read is short, so
that after one that filled the buffer exactly the next may find nothing and close the
connection (`RecvFails`). Buffers have position, limit and capacity, and the refusals
of `NativeByteBuffer` (a write that does not fit is dropped, a position past the limit
is ignored); the rest of a recycled buffer holds unknown bytes. Sizes are scaled down:
header 2 (20), read buffer 8, pools of 4 and 8.
In two places the loop comes to bytes that are not those of its connection. A handshake
that the server refuses closes the connection and opens another inside the loop, which
then goes on over what followed the answer (`RefusedHandshake`). And a `resetOfData`
whose packet was delivered is given back at line 215 and tested again at line 139, when
another thread may have taken it or the pool deleted it (`DeliverAndGoOn`). From there
until the next connection `mixed` holds: the buffers are not followed any more, and the
parser may end, refuse a header or have another handshake refused, as it happens.
`inLoop` says that the connection was opened inside the loop: `onEvent` may then call
`recv` on its socket because the old one had filled the buffer.

**TaskQueue** separates the push under the mutex from the write to the eventfd, and
`epoll_wait` from the read of the eventfd, which is edge-triggered. `fd` says whether
the kernel has an eventfd or the code falls back on a pipe; the pipe is
level-triggered, and blocking, because `F_SETFD` does not set `O_NONBLOCK`.
**DispatchQueue** is `postMainRunnable`: the latch at which a post waits until the
thread of the queue has its handler, that thread, and the main thread. **RoundTrip**
composes the two: a task may call back in the middle of `checkPendingTasks`, and a
request refused while logged out calls back on the thread of its caller.

**SendPath** follows a message from `NativeByteBuffer.wrap` on a Java thread, through
`serializeToBuffer` and the copy that is sent, to the socket, and each of its three
buffers from the free list of its capacity back to it; the ping is written without a
copy. `send()` takes what fits in the socket's window, in the middle of a buffer too.
Lengths are those of the code on a smaller scale: `packLength` wraps at `Limit`
(65,536 in the code), and a body near it gives a short packet. Of the positions only one
is ever left elsewhere than the next reader needs it: the copy of an erased request reads
its buffer to the end, and when Java has wrapped another body there meanwhile,
`serializeToBuffer` finds that body empty (`emptied`). Each message is a
batch of its own: `UnacknowledgedAlone` of `RequestQueue` shows that a message without
acknowledgement always is, and the others keep their buffers. The handshake, a single
message without copy like the ping, is left out.

`MC*` modules hold the constants of the instances. Operators whose comment begins
with "Mutant" or "Mutation" are variants of the definition that follows them, each a
bug that definition could have had; `PROJECT.json` says which property must catch
which.

## 3. The runs

Runs that pass:

| Run | Properties | Instance |
|---|---|---|
| `session` | `StatusMatchesSocket`, `LoggedOutIsSilent`, `NeverStranded`, `SessionIsOfThisSocket`, `SessionIsShown`, `TokensAreFresh`, `LeftByLateLogout`, `ImplementsLink` | service started and destroyed, pauses, network changes; two announced connections, two packets in the kernel, failing `EPOLL_CTL_MOD` |
| `servers` | `ForcedServerIsUsed`, `AddressInBounds` | two addresses, two default ports, adding, forcing, screen on, requests |
| `live` | `KeepsReconnecting` | service started and destroyed, pauses, network changes, fairness |
| `requests` | `WaitingMeansSent`, `OwnReply`, `UnacknowledgedAlone`, `DrivesLink` | two requests of every flag, network changes |
| `request_live` | `RunningHasConnection`, `CompletedOnce`, `RequestsComplete` | one request of every flag, login, logout, network changes, fairness |
| `keepalive` | `HealthyStaysUp`, `NeverOversleeps`, `LoggedInHasConnection`, `PauseTakesHold`, `LoginConnects` | the intervals of the code; the clock set back by 65 s or forward by 25 s; fairness |
| `framing` | `PacketsDelivered`, `RestIsTail`, `UnreadIsReported`, `OnlyFullReadsClose` | three packets, two header lengths, bodies of 0 and 4 bytes, a bad packet last or none, refused handshakes |
| `tasks` | `NoLostWakeup`, `InOrder`, `EveryTaskRuns`, `CallbacksInOrder`, `CallbacksArrive` | eventfd or pipe; the main thread with two logins or logouts, a worker with two other tasks; one callback of the worker, two of the network thread; fairness |
| `sending` | `OneOwner`, `NoLeak`, `RoomAsked`, `AckedIsIntact`, `OverlongStaysInStep`, `StreamIsKept`, `EverythingIsSent` | one message with acknowledgement, one without, a ping; six buffers of two capacities; fairness |

What they show, beyond the names:

- `session`: whatever the order of callbacks, status, socket, token and timer agree, a
  session belongs to the socket on which the server accepted it, and the requests may
  rely on `Link`. `LeftByLateLogout` delimits a hazard that the code does have: the one
  way in which a running service stays logged out. The tasks that send requests are left
  to the `servers` run, to keep this one small; the proofs of section 5 cover them
  together with the rest.
- `requests`, `request_live`: a request is never lost, never completed twice (one
  request, of every flag), and a
  request that waits on the present connection really was written to it. It is completed
  in the end once no further connection is announced. That hypothesis is needed: each new
  token sends the request again and restarts its clock without counting a retry
  (`CM:242-260`), so that a link which drops within every timeout keeps it for ever.
- `keepalive`: a good connection is not closed by its own timeout, except in the cases
  that the history variable `exposed` names: opened, or first heard, while paused, or
  the clock was set since the last answered packet. A paused thread wakes for its
  heartbeat, a dark screen brings the pause, and a login gets its connection, unless
  the round after it joins a pause asked for before and the process ends at `CM:152`.
- `framing`: packets are delivered whole and in order however TCP cuts them, up to one of
  the two places where the loop leaves the bytes of its connection (`mixed`), and again
  from the next connection on. No byte waits for an event that epoll has reported
  already, and a connection is given up by the reading loop only after a read that filled
  the buffer, its own or that of the connection it replaced inside the loop.
- `tasks`: no task is left in the queue of a sleeping thread, tasks and callbacks run
  once and in order, and a callback that is posted before the dispatch queue has
  started arrives.
- `sending`: each buffer has one owner and the room asked for, none leaks, the stream
  is what was queued wherever `send()` cuts it, a request that waits for its reply is
  queued with its body unless the copy of an erased one has read that body first, and of
  a message that is too long for
  `packLength` exactly as many bytes are queued as `packLength` says, the first time and
  when it is sent again, so that its neighbours stay whole.

Bounds, and why they are enough:

- `MaxTokens = 2`: a stale event, token or byte needs one connection before the
  present one; a third adds no new relation.
- `MaxTasks = 1`: a task waits while the loop is anywhere, which is what makes a Java
  decision stale. A request is not counted, so one may wait behind a logout.
- `MaxInbox = 2`: an answer and what follows it in the same read, which is enough for
  the parse loop to go on after a reconnection it made itself.
- retry limits of 1 in place of 5 and 1: both branches of the limit are taken.
- two requests: one batch, and one that is waiting while another is sent.
- keep-alive: the clock is set back by more than the time to the pause, so that every
  date lies in the future, or forward by less than any interval of a pause, and again
  once it has caught up with every date; ages are capped where the code stops telling
  them apart.
- tasks: two calls of each thread, so that a push falls between any two steps of the
  network thread while another thread is between its push and its wakeup.
- sending: bodies of 1, 3 and 4 bytes with a header of 1 and `packLength` below 4, so
  that one fits and two wrap, to nothing at all and to a bare header; capacities 2 and
  3 with lists of 2 and 1, which overflow, so that buffers are deleted; reads of 3 and a
  window of 2, so that `send()` ends inside a packet.
- framing: bodies shorter and longer than what a read leaves, headers longer than the
  default, a pool buffer that is too small for the packet, and reads that fill the
  buffer exactly all occur; three packets, so that one follows a refused handshake and
  another belongs to the connection after it.

Deadlock is not checked: the bounds end a behaviour (no task, token, message or byte is
left), the process may have crashed on a null connection, and the pipe hangs the
network thread. Where something must go on, a liveness property says so.

Fairness:

- `LongLink`: the network thread keeps running and `processRequestQueue` returns, as
  both are loops over finite lists; `openConnection` called by the timer does not fail
  for ever. Nothing is assumed of Java, the kernel or the server.
- `RequestQueue`: the same for the rounds; Java does not refill the task queue so fast
  that `checkPendingTasks` never returns; a request that waits for ever is found
  expired at some round, since its timeout is finite (the Java side sets one).
- `KeepAlive`: the thread runs its tasks and rounds, and the healthy server answers.
  Time passes, with strong fairness: tasks and events may interrupt a sleep again and
  again, but not for ever.
- `RoundTrip`: a thread inside `scheduleTask`, the network thread, and the threads that
  dispatch callbacks go on. No thread has to schedule anything.
- `SendPath`: the thread finishes a batch it has begun and handles the events, and the
  peer goes on reading. The fairness for the writable event is strong, because a new
  batch may come first again and again, but not for ever.

## 4. What the comments say and the code does not do

Each of these runs checks one statement of the repository and TLC refutes it.
`PROJECT.json` quotes the line.

| Run | What happens |
|---|---|
| `stale` | A refused handshake reconnects inside the parse loop; a partial packet behind the answer is kept for the new connection. |
| `keepalive_survives` | A connection opened, or first heard, while paused times out after 30 s, with heartbeats every 60 s. |
| `sending_copied` | A request without acknowledgement gives its buffer back before the buffer is copied. |

The models have further behaviours that a reader of the code may not expect. No
property claims the contrary, and the properties above are stated so as to allow them:

- a logout before the first handshake, or a second one, calls `closeConnect` on a null
  pointer (`CM:576`), and so do a resume and a pause that come due there, the latter also
  in the round that would begin the handshake of a login; in `LongLink` this is
  `pc = "crashed"`, in `KeepAlive` `link = "crashed"`;
- a request is sent again, with a new clock, on every new connection, however many;
- the service is destroyed and restarted before the logout task has run: `setUin`
  still finds the account, schedules nothing, and the service stays logged out;
- `closeConnect` sets the status `Closed` to prevent a reconnection, but the test at
  `TcpConnection.cpp:290` joins two inequalities with "or", and the timer is armed;
- without a network, `getConnection(true)` for a request reports a close, and the
  session of a connection that is up counts as lost;
- when the network is back Java is told the previous state again;
- if `adjustWriteOp` fails inside `onConnected`, the flag set afterwards marks the next
  socket as announced;
- another account may log in while a session is up: `uin` changes, the session stays;
- a request with `ReSend` is written to a connecting socket under token 0, and again
  once that socket has a token; its timeout counts a retry and sends nothing;
- a request scheduled behind a logout is queued after the queue was cleared;
- the bytes that follow a refused handshake are parsed, and delivered, as those of the
  connection opened in its place, and a part of a packet among them stays in
  `resetOfData` in front of its first bytes;
- the parse loop tests `resetOfData` once more after giving it back to the pool;
- the copy of an erased request leaves the position of its buffer at the end; a body that
  Java has put there since goes out as a header followed by bytes of the pool;
- a queued resume clears the date of a later pause;
- setting the wall clock back delays the heartbeat and setting it forward shortens the
  timeout, so either may close a good connection, once;
- a pause survives a logout: a login that the first `checkPendingTasks` runs when its
  wakeup has been read already waits for its connection as long as the paused thread
  sleeps, up to a minute;
- without an eventfd the first wakeup hangs the network thread in `read`;
- a read of exactly `READ_BUFFER_SIZE` bytes is followed by one that may find nothing,
  and `recv` failing with `EAGAIN` closes the connection;
- a body of 65,516 bytes or more makes `packLength` wrap; with 65,517 the packet is one
  byte long, not even a header, and the server loses step behind it;
- the callback of a request refused while logged out runs on the caller's thread with
  the `JNIEnv` of the network thread (`TcpNetWapper.cpp:100`).

## 5. What is proved

TLAPS checks the proofs in eight modules, for every value of the constants that meets
the named assumptions (`EndpointAssumption`, `ConnectionAssumption`,
`LongLinkAssumption`, `CallsAssumption`, `DoesAssumption`, `ClockAssumption`,
`IntervalAssumption`, `UinAssumption`, `FramingAssumption`, `SendAssumption`).

- `LongLinkProofs`, first part: every operation on the address list keeps it well formed
  (`InBounds`), and the endpoint of the next connection is a real one (`EndpointOK`).
  Then one lemma per method. A connection is `Safe` when it is well
  typed, coherent (status, socket, token and timer agree), its endpoint is in bounds,
  and it is not `Stranded`; each method takes a safe connection to a safe one and
  moves the token only as `Follows` says. `CloseSocket` and its callees pass through
  states that are coherent but stranded, hence the weaker `Good`. A second lemma per
  method gives two more facts. `Session` says how the handshake in the outgoing stream,
  the server's progress, its verdict among the received packets and the handshake state
  go together. `Moves` says how a call may move socket, token and handshake state: open
  a socket, demote a session for want of a network, or close.
- `LongLinkProofs`, second part: the inductive invariant is
  `Inv == Control /\ Safe(c) /\ LoggedOutIsSilent /\ ParsesLoggedIn`. The last
  conjunct is needed because a packet that is parsed may reconnect: were the client
  logged out at that moment the link would reopen. One lemma per action, each from
  the lemmas of the methods it calls. Results: `Typed`, `StatusAndSocketAgree`,
  `LogoutSilences`, `AlwaysRetrying`, `AddressesInBounds`, `FreshTokens`; and, again
  action by action, `LateLogoutOnly`, whose work is in the queue: appending keeps a
  waiting login, and taking the head loses one only if the head is one.
- `LongLinkProofs`, last part: the invariant `Talk` adds to `Session` what the parse loop
  holds. At most one verdict is on its way, it is in the kernel's queue or in the
  buffer being parsed, and while it is there the socket it was read from is still in
  use: without that a verdict of the old socket could establish a session on the new
  one. Results: `SessionOfThisSocket`, `SessionShown`, `ForcedServer` and, since each
  call `Moves` and each event is an action of the abstract link, the refinement
  `LinkImplemented`.
- `TaskQueueProofs`: `NoLostWakeup` is inductive together with the types. For the
  order, the tasks of each thread in the queue are numbered without gaps from the last
  that ran to the last that was pushed (`Numbered`, in the parts `Within`, `Ascending`
  and `Gapless`); the same notion, applied to the two queues of callbacks one behind
  the other, gives `CallbacksRunInOrder`. Each result is proved of `TaskQueue` alone
  and of the composition `RoundTrip`, for any threads and numbers.
- `KeepAliveProofs`: three results. `PausedThreadWakesForPing`: the sleep is computed
  from the age of the last packet, and both move by one with each tick; a change of the
  clock moves the age and `skew` alike. `RoundLeavesConnection` is inductive.
  `HealthyConnectionStaysUp` needs the invariant `HeardInv`: unless an answer is due,
  what was heard last is no older than what was sent last, and at the end of the
  thread's present sleep it will not be older than the interval of the heartbeat that
  belongs to the present timeout; with an answer due it is a tick older at most. The
  intervals are any for which the heartbeat leaves its answer a tick before the
  timeout (`IntervalAssumption`), as 20 and 30 s, and 60 and 70 s, do.
- `InductionLemmas`: induction and definition by recursion over an initial segment of
  the naturals, with sets and functions in the place of predicates and operators, which
  the provers cannot instantiate. They follow from the existence of a least element
  (`WFMin` and `NatLessThanWellFounded` of the library), and let the modules below
  reason about the recursive functions of their models (`Only`, `Start`, `Joined`).
  `RequestQueueProofs` and the two modules on `SendPath` first take what they need of it
  as a hypothesis (`Selects`, `Induction`) and discharge that at their end (`OnlySelects`,
  `InductionHolds`), so that the long proofs in between are checked without the library
  in their context; no theorem keeps it as a hypothesis.
- `RequestQueueProofs`: what `Only` returns, then the invariant. `Placed`: a request is
  in one of the lists, once, and has not been completed, or it is in none. `Numbers`:
  those that were written or wait have distinct numbers below the next one, which makes
  a reply find its own request (`ReplyIsOwn`). `Tokens` and `Settled` carry
  `WaitingIsSent` and `RunningIsConnected` from one round to the next: `Settled` says
  what the end of a round leaves, namely that with a token nothing is queued, and that
  nothing which may be sent again on the present connection has not been. Without it a
  request taken by `RunRequest` could meet others in its batch, and
  `UnacknowledgedIsAlone` would be false. `RequestsCompleteOnce` counts the places of a
  request, which `Placed` keeps at one. The invariant also gives `RequestsDriveLink`:
  each step of the requests is one of `Link`, or leaves it alone.
- `PacketFramingProofs`: lemmas on the operations of `NativeByteBuffer` (what
  `WriteBytes`, `SetLimit`, `SetPosition` and `Compact` do when their argument fits, so
  that none of the silent refusals happens), on the positions of the packets in the
  stream (`StartNext`, `StartLess`), and that the header in front of the parser is that
  of the next packet (`Recognised`). The invariant says what each buffer holds in each
  state of the parser: with `From` the end of the last packet delivered, `Between` says
  that the left-over bytes are those from `From` to what was received, fewer than the
  parser could act on; `InNetwork` and `InRest` say the same of the buffer being parsed,
  and `InRest` that behind a packet completed from two reads the rest of the second one
  follows. Nothing of this holds while the connection is `mixed`, but it must hold again
  with the next one: what is inductive is `Safe`, by which the counters of bytes and of
  packets are in their bounds always (`Counts`), and the invariant holds unless `mixed`.
  `RenewKeeps` shows that a new connection re-establishes it, whether it is opened by a
  loss, by a bad header or by a refused handshake. From `Safe` follow `PacketsAreDelivered`
  and `RestIsTheTail`; two small invariants about the reading loop give
  `UnreadIsAlwaysReported` and `FullReadsAloneClose`, `mixed` or not.
- `SendPathLemmas`: the operations that `SendPath` is made of. For the free lists: what
  `getBuffer` returns and what `reuseFreeBuffer` leaves, one buffer and several at a
  time, always a `StoreOK` storage, where a buffer is in one list at most, once, and in
  that of its capacity. For ownership: each hand-over from one place to another keeps
  `Owners`, by which each buffer is in exactly one of the free lists, the stream,
  `sendBuffer` and the hands of one message. For the stream: `Joined` of a list that
  grew at its end, lost its head or had a piece cut off, and from these that `discard`
  takes away exactly the bytes that `get` showed first.
- `SendPathProofs`: the inductive invariant is
  `Types /\ StoreOK(store) /\ Owners(...) /\ Placed /\ Queuing /\ Stream(...)`. None of
  the six properties is inductive alone. `OneOwner` needs `Placed`: which buffers a
  message has to give back depends on its stage (one without acknowledgement returns its
  packet when it is erased, although it is copied from there later). `NoLeak` needs that
  one batch at most is under way, or a second would overwrite `sendBuffer`. `RoomAsked`
  needs `StoreOK`, since `limit()` refuses silently on a buffer that is too small.
  `StreamIsKept` needs `Owners`: only because a queued buffer is nobody else's does no
  `getBuffer` or write change bytes that wait. One lemma per action, then
  `OneOwnerHolds`, `NoLeakHolds`, `RoomAskedHolds`, `StreamIsKeptHolds`,
  `AckedIsIntactHolds` and `OverlongStaysInStepHolds`, for any messages, lengths,
  capacities, bounds of the free lists, first contents of them, windows and read sizes.

Only model-checked: the liveness properties (`KeepsReconnecting`, `RequestsComplete`,
`PauseTakesHold`, `LoginConnects`, `EveryTaskRuns`, `CallbacksArrive`,
`EverythingIsSent`) and everything about fairness, which the prover does not handle.
Every safety property of a passing run has its theorem.

## 6. What is not modelled

- BoringSSL and Breakpad, third-party code of which the link calls nothing. They are
  nearly all of the lines under `src/`, so the lines that the map of `PROJECT.json`
  names are a small part of the tree, and half of `src/fastsocks/cpp/tcp`; most of the
  rest of that directory is declarations and typed readers and writers.
- The listeners, the sample application and its packet dispatcher: a lookup from
  command to listener on the main thread.
- The operations of `DispatchQueue` that nothing calls: `sendMessage`,
  `cancelRunnable`, `cleanupQueue`, posts with a delay.
- Wrap-around of the 32-bit tokens and message numbers, which takes years;
  decompression, a call of zlib on one packet.
- Queries of the Android connectivity service; their answer is the argument of
  `setNetworkAvailable`.
- JNI marshalling, logging, the typed readers and writers of `NativeByteBuffer`,
  `ByteArray`, the empty `TcpServer.cpp`.

## 7. What could follow

1. Requests and output composed: `RequestQueue` over the buffers of `SendPath`, so that
   a batch of several messages shares one copy.
2. The timeouts and heartbeats of `KeepAlive` in `LongLink`, which abstracts from time.
