------------------------------ MODULE LongLink ------------------------------
(***************************************************************************)
(* The long link: the loop of the network thread (ConnectionsManager's     *)
(* select), the tasks that the Java side schedules on it, the callbacks of *)
(* the one connection, and the kernel and the server it talks to.          *)
(*                                                                         *)
(* The network thread is sequential; pc says where in select() it is:      *)
(*   tasks1    the first checkPendingTasks, then callEvents                *)
(*   wait      blocked in epoll_wait                                       *)
(*   tasks2    the second checkPendingTasks, then callEvents               *)
(*   in, parse, out, hup   TcpSocket::onEvent, one bit of the event after  *)
(*             the other; parse is the loop of onRecvData                  *)
(*   timeout   checkTimeout                                                *)
(*   service   the last part: join a pause, begin a handshake, or ping     *)
(*   process   processRequestQueue, as far as it touches the connection;   *)
(*             ret is where it returns to                                  *)
(*   crashed   a null connection was dereferenced: the process is gone     *)
(* Between any two steps the Java threads, the kernel and the server may   *)
(* move.  Time is abstracted: a timeout or a ping may fall due whenever it *)
(* is armed.                                                               *)
(***************************************************************************)
EXTENDS TcpConnection

CONSTANTS
    Uins,       \* the accounts, without 0, which stands for "logged out"
    Calls,      \* the Java calls that this instance makes
    EpollFails, \* whether EPOLL_CTL_MOD may fail
    MaxTasks,   \* bound on the length of the task queue
    MaxInbox,   \* bound on the packets waiting in the kernel
    MaxTokens   \* bound on the number of connections established

ASSUME LongLinkAssumption ==
    /\ 0 \notin Uins
    /\ MaxTasks \in Nat
    /\ MaxInbox \in Nat
    /\ MaxTokens \in Nat
    /\ EpollFails \in BOOLEAN

VARIABLES
    c,        \* the connection (a record of Conn)
    uin,      \* ConnectionsManager::uin, 0 when logged out
    tasks,    \* the queue of scheduled tasks
    pc, ret,  \* where the network thread is
    ready,    \* the event bits epoll_wait returned and onEvent has not handled
    buf,      \* what recv returned and onRecvData has not parsed
    old,      \* the socket buf was read from has been closed since
    service   \* CoreService is started, its receivers registered

vars == <<c, uin, tasks, pc, ret, ready, buf, old, service>>

loop == <<pc, ret, ready, buf, old>>

Tasks ==
    ({"login"} \X Uins) \cup ({"network"} \X BOOLEAN)
    \cup ({"addSvr", "setSvr"} \X (Addresses \X Ports))
    \cup ({"logout", "screenOn", "request"} \X {0})

\* The application has called startInit for the first time: native_init has
\* set uin and started the network thread.
Init ==
    /\ c = NewConn
    /\ uin \in Uins
    /\ tasks = <<>>
    /\ pc = "tasks1" /\ ret = "tasks1"
    /\ ready = {} /\ buf = <<>> /\ old = FALSE
    /\ service = TRUE

-----------------------------------------------------------------------------
(* Java threads *)

Running == pc # "crashed"

ScheduleTask(t) ==
    /\ Running
    /\ Len(tasks) < MaxTasks
    /\ tasks' = Append(tasks, t)

\* Mutation: setUin does nothing while other tasks wait.
JavaStartIdle(u) ==
    /\ "start" \in Calls
    /\ Running
    /\ service' = TRUE
    /\ IF u # uin /\ tasks = <<>> THEN ScheduleTask(<<"login", u>>) ELSE UNCHANGED tasks
    /\ UNCHANGED <<c, uin, loop>>

\* CoreService.onStartCommand -> startInit -> setUin, which compares the
\* account with the uin it finds now, not with what the pending tasks leave.
JavaStart(u) ==
    /\ "start" \in Calls
    /\ Running
    /\ service' = TRUE
    /\ IF u # uin THEN ScheduleTask(<<"login", u>>) ELSE UNCHANGED tasks
    /\ UNCHANGED <<c, uin, loop>>

\* CoreService.onDestroy -> logout.
JavaDestroy ==
    /\ "destroy" \in Calls
    /\ service
    /\ service' = FALSE
    /\ ScheduleTask(<<"logout", 0>>)
    /\ UNCHANGED <<c, uin, loop>>

\* The connectivity receiver, registered while the service is started.
JavaNetwork(available) ==
    /\ "network" \in Calls
    /\ service
    /\ ScheduleTask(<<"network", available>>)
    /\ UNCHANGED <<c, uin, loop, service>>

\* ScreenStatusReceiver -> resumeNetwork(false).
JavaScreenOn ==
    /\ "screenOn" \in Calls
    /\ service
    /\ ScheduleTask(<<"screenOn", 0>>)
    /\ UNCHANGED <<c, uin, loop, service>>

\* addSvrAddr and setSvrAddr.
JavaServer(call, a, p) ==
    /\ call \in Calls
    /\ ScheduleTask(<<call, <<a, p>> >>)
    /\ UNCHANGED <<c, uin, loop, service>>

\* senRequest: refused at once while logged out.
JavaRequest ==
    /\ "request" \in Calls
    /\ uin # 0
    /\ ScheduleTask(<<"request", 0>>)
    /\ UNCHANGED <<c, uin, loop, service>>

JavaCalls ==
    \/ \E u \in Uins : JavaStart(u)
    \/ JavaDestroy
    \/ \E available \in BOOLEAN : JavaNetwork(available)
    \/ JavaScreenOn
    \/ \E call \in {"addSvr", "setSvr"}, a \in Addresses, p \in Ports :
           JavaServer(call, a, p)
    \/ JavaRequest

-----------------------------------------------------------------------------
(* Tasks, run by checkPendingTasks *)

Pending(op) ==
    /\ pc \in {"tasks1", "tasks2"}
    /\ tasks # <<>>
    /\ Head(tasks)[1] = op
    /\ tasks' = Tail(tasks)

Argument == Head(tasks)[2]

\* getConnection(false) is null unless a handshake was begun: a task that uses
\* it without a test ends the process.
WithConnection(after, next) ==
    IF IsHandshakeing(c)
    THEN c' = after /\ pc' = next
    ELSE c' = c /\ pc' = "crashed"

LoginTask ==
    /\ Pending("login")
    /\ uin' = Argument
    /\ UNCHANGED <<c, loop, service>>

\* The task of clearUp.
LogoutTask ==
    /\ Pending("logout")
    /\ uin' = 0
    /\ WithConnection([CloseConnect(c) EXCEPT !.handshake = "Idel"], pc)
    /\ UNCHANGED <<ret, ready, buf, old, service>>

\* Mutation: setNetworkAvailable does not connect.
NetworkTaskOnlyTells(opens) ==
    /\ Pending("network")
    /\ c' = [c EXCEPT !.net = Argument, !.shown = IF Argument THEN @ ELSE "Waiting"]
    /\ UNCHANGED <<uin, loop, service>>

NetworkTask(opens) ==
    LET told == [c EXCEPT !.net = Argument]
    IN /\ Pending("network")
       /\ c' = IF ~Argument THEN [told EXCEPT !.shown = "Waiting"]
               ELSE IF IsHandshakeing(c) /\ uin # 0 THEN Connect(told, opens)
               ELSE told
       /\ UNCHANGED <<uin, loop, service>>

\* resumeNetwork(false): only the token is read, to set a timeout.
ScreenOnTask ==
    /\ Pending("screenOn")
    /\ WithConnection(c, pc)
    /\ UNCHANGED <<uin, ret, ready, buf, old, service>>

AddSvrTask ==
    /\ Pending("addSvr")
    /\ \E d \in AddAddressAndPort(c.pool, Argument[1], Argument[2]) :
           c' = [c EXCEPT !.pool = d]
    /\ UNCHANGED <<uin, loop, service>>

\* Mutation: the forced server waits for the next connection.
SetSvrTaskNoReconnect(opens) ==
    /\ Pending("setSvr")
    /\ WithConnection(
           [c EXCEPT !.pool = ForceAddressAndPort(@, Argument[1], Argument[2])], pc)
    /\ UNCHANGED <<uin, ret, ready, buf, old, service>>

SetSvrTask(opens) ==
    /\ Pending("setSvr")
    /\ WithConnection(
           Reconnect([c EXCEPT !.pool = ForceAddressAndPort(@, Argument[1], Argument[2])],
                     opens), pc)
    /\ UNCHANGED <<uin, ret, ready, buf, old, service>>

\* The task of senRequest: queue the request and process the queue.
RequestTask ==
    /\ Pending("request")
    /\ pc' = "process" /\ ret' = pc
    /\ UNCHANGED <<c, uin, ready, buf, old, service>>

\* processRequestQueue calls getConnection(true) for each request.
ProcessConnect(opens) ==
    /\ pc = "process"
    /\ IsHandshakeing(c)
    /\ c' = Connect(c, opens)
    /\ UNCHANGED <<uin, tasks, loop, service>>

\* ... and sendMessageToConnection once more, before it sends.
ProcessSend(opens, rearms, resetPing) ==
    /\ pc = "process"
    /\ IsHandshakeing(c)
    /\ c' = [SendData(Connect(c, opens), "data", opens, rearms)
                EXCEPT !.pinging = @ \/ resetPing]
    /\ pc' = ret /\ ret' = "tasks1"
    /\ UNCHANGED <<uin, tasks, ready, buf, old, service>>

ProcessNothing ==
    /\ pc = "process"
    /\ pc' = ret /\ ret' = "tasks1"
    /\ UNCHANGED <<c, uin, tasks, ready, buf, old, service>>

-----------------------------------------------------------------------------
(* select *)

\* onEvent looks at EPOLLIN, EPOLLOUT and EPOLLRDHUP | EPOLLHUP in this order.
Phase(bits) ==
    IF "IN" \in bits THEN "in" ELSE IF "OUT" \in bits THEN "out"
    ELSE IF "HUP" \in bits THEN "hup" ELSE "timeout"

\* Mutation: the timer's callback does not look at uin.
CallEventsLoggedOut(opens) ==
    /\ pc \in {"tasks1", "tasks2"}
    /\ tasks = <<>>
    /\ c' = IF c.timer THEN Connect([c EXCEPT !.timer = FALSE], opens) ELSE c
    /\ pc' = IF pc = "tasks1" THEN "wait" ELSE Phase(ready)
    /\ UNCHANGED <<uin, tasks, ret, ready, buf, old, service>>

\* callEvents: the timer's callback, unless logged out.  scheduleEvent stores
\* the delay, not a date, so an armed timer is always due.
CallEvents(opens) ==
    /\ pc \in {"tasks1", "tasks2"}
    /\ tasks = <<>>
    /\ c' = IF uin # 0 /\ c.timer THEN Connect([c EXCEPT !.timer = FALSE], opens) ELSE c
    /\ pc' = IF pc = "tasks1" THEN "wait" ELSE Phase(ready)
    /\ UNCHANGED <<uin, tasks, ret, ready, buf, old, service>>

\* The bits epoll reports for the socket (edge-triggered; EPOLLOUT is in the
\* mask until the first write and while the outgoing stream has data).
ReadyBits ==
    (IF c.inbox # <<>> \/ c.sock \in {"fin", "err"} THEN {"IN"} ELSE {})
    \cup (IF /\ c.sock \in {"up", "fin", "err"}
             /\ IF c.sent THEN c.out # {} ELSE c.nextToken <= MaxTokens
          THEN {"OUT"} ELSE {})
    \cup (IF c.sock \in {"fin", "err"} THEN {"HUP"} ELSE {})

EpollWait ==
    /\ pc = "wait"
    /\ ready' = ReadyBits
    /\ pc' = "tasks2"
    /\ UNCHANGED <<c, uin, tasks, ret, buf, old, service>>

\* onEvent closes the socket and returns: the other bits are not looked at.
CloseAndReturn(reason) ==
    /\ c' = CloseSocket(c, reason)
    /\ ready' = {}
    /\ pc' = "timeout"
    /\ UNCHANGED <<uin, tasks, ret, buf, old, service>>

\* checkScoketError.
SocketError == c.sock \in {"none", "err"}

ReadError ==
    /\ pc = "in"
    /\ SocketError
    /\ CloseAndReturn(1)

\* recv fails on a socket that is not connected yet, or has nothing to read.
RecvFails ==
    /\ pc = "in"
    /\ c.sock = "pending" \/ (c.sock = "up" /\ c.inbox = <<>>)
    /\ CloseAndReturn(0)

\* Bytes left over from another connection hide the first packet behind the
\* wrong header.
Recv ==
    /\ pc = "in"
    /\ c.sock \in {"up", "fin"}
    /\ c.inbox # <<>>
    /\ \E first \in IF c.rest = "stale" THEN {"bad", "other"} ELSE {Head(c.inbox)} :
           buf' = <<first>> \o Tail(c.inbox)
    /\ c' = [c EXCEPT !.inbox = <<>>, !.failed = 0, !.rest = "none"]
    /\ old' = FALSE
    /\ pc' = "parse"
    /\ UNCHANGED <<uin, tasks, ret, ready, service>>

\* recv returns 0.
RecvNothing ==
    /\ pc = "in"
    /\ c.sock = "fin"
    /\ c.inbox = <<>>
    /\ ready' = ready \ {"IN"}
    /\ pc' = Phase(ready')
    /\ UNCHANGED <<c, uin, tasks, ret, buf, old, service>>

Parsing(p) ==
    /\ pc = "parse"
    /\ buf # <<>>
    /\ Head(buf) = p
    /\ UNCHANGED <<uin, tasks, pc, ret, ready, service>>

\* The head of the loop of onRecvData.
Heard == [c EXCEPT !.recvd = TRUE]

ParsePartial ==
    /\ Parsing("partial")
    /\ c' = [Heard EXCEPT !.rest = IF old THEN "stale" ELSE "own"]
    /\ buf' = <<>>
    /\ UNCHANGED old

ParseBad(opens) ==
    /\ Parsing("bad")
    /\ c' = Reconnect(Heard, opens)
    /\ buf' = <<>>
    /\ UNCHANGED old

\* onConnectionRecviedData, for a packet that is not the handshake's result.
ParseOther ==
    /\ \/ Parsing("other")
       \/ c.handshake # "Ing" /\ (Parsing("accept") \/ Parsing("reject"))
    /\ c' = [Heard EXCEPT !.shown = "Connected"]
    /\ buf' = Tail(buf)
    /\ UNCHANGED old

ParseAccept ==
    /\ Parsing("accept")
    /\ c.handshake = "Ing"
    /\ c' = OnHandshakeResult([Heard EXCEPT !.shown = "Connected"], TRUE, TRUE)
    /\ buf' = Tail(buf)
    /\ UNCHANGED old

\* The connection is replaced while the rest of the old one's bytes are still
\* to be parsed.
ParseReject(opens) ==
    /\ Parsing("reject")
    /\ c.handshake = "Ing"
    /\ c' = OnHandshakeResult([Heard EXCEPT !.shown = "Connected"], FALSE, opens)
    /\ buf' = Tail(buf)
    /\ old' = TRUE

\* The read buffer was not full: onEvent goes on.  If it was, recv is called again.
ParseDone ==
    /\ pc = "parse"
    /\ buf = <<>>
    /\ \/ ready' = ready \ {"IN"} /\ pc' = Phase(ready')
       \/ pc' = "in" /\ UNCHANGED ready
    /\ old' = FALSE
    /\ UNCHANGED <<c, uin, tasks, ret, buf, service>>

WriteError ==
    /\ pc = "out"
    /\ SocketError
    /\ CloseAndReturn(1)

\* The first EPOLLOUT announces the connection.
Announced(rearms) ==
    IF c.sent THEN c ELSE [OnConnected(c, rearms) EXCEPT !.sent = TRUE]

\* send succeeds, perhaps in part; left is what stays in the stream.
WriteSome(rearms, left) ==
    LET a == Announced(rearms)
        gone == [a EXCEPT !.out = left,
                          !.server = IF "handshake" \in a.out \ left THEN "asked" ELSE @]
    IN /\ pc = "out"
       /\ ~SocketError
       /\ c.sent \/ c.nextToken <= MaxTokens
       /\ left \subseteq a.out
       /\ a.out # {} => c.sock # "pending"
       /\ c' = gone
       /\ ready' = ready \ {"OUT"}
       /\ pc' = Phase(ready')
       /\ UNCHANGED <<uin, tasks, ret, buf, old, service>>

\* send succeeds, but adjustWriteOp cannot rearm the event and closes the socket:
\* onEvent goes on to the last bit.
WriteUnarmed(rearms) ==
    LET a == Announced(rearms)
    IN /\ EpollFails
       /\ pc = "out"
       /\ ~SocketError
       /\ c.sent \/ c.nextToken <= MaxTokens
       /\ a.out # {} /\ c.sock # "pending"
       /\ c' = CloseSocket(a, 1)
       /\ ready' = ready \ {"OUT"}
       /\ pc' = Phase(ready')
       /\ UNCHANGED <<uin, tasks, ret, buf, old, service>>

\* send fails, as it does on a socket that is not connected yet.
WriteFails(rearms) ==
    LET a == Announced(rearms)
    IN /\ pc = "out"
       /\ ~SocketError
       /\ c.sent \/ c.nextToken <= MaxTokens
       /\ a.out # {}
       /\ c' = CloseSocket(a, 1)
       /\ ready' = {}
       /\ pc' = "timeout"
       /\ UNCHANGED <<uin, tasks, ret, buf, old, service>>

Hangup ==
    /\ pc = "hup"
    /\ CloseAndReturn(1)

\* checkTimeout: only a socket in activeConnections can expire.
CheckTimeout ==
    /\ pc = "timeout"
    /\ c' = c \/ (c.sock # "none" /\ c' = CloseSocket(c, 2))
    /\ pc' = "service"
    /\ UNCHANGED <<uin, tasks, ret, ready, buf, old, service>>

ServiceHandshake(opens) ==
    /\ pc = "service"
    /\ ~IsHandshakeing(c) /\ uin # 0
    /\ c' = BeginHandshake(c, opens)
    /\ pc' = "tasks1"
    /\ UNCHANGED <<uin, tasks, ret, ready, buf, old, service>>

\* Line 152, before the handshake at line 169: a pause that has fallen due reads the
\* token of the connection, to set a timeout, and there is none.  lastPauseTime
\* outlives a logout, and with time abstracted it may be due in any round.
JoinPause ==
    /\ pc = "service"
    /\ "pause" \in Calls
    /\ ~IsHandshakeing(c)
    /\ pc' = "crashed"
    /\ UNCHANGED <<c, uin, tasks, ret, ready, buf, old, service>>

ServicePing(opens, rearms) ==
    /\ pc = "service"
    /\ IsHandshakeing(c) \/ uin = 0
    /\ c.pinging
    /\ WithConnection(SendPing(c, opens, rearms), "process")
    /\ ret' = "tasks1"
    /\ UNCHANGED <<uin, tasks, ready, buf, old, service>>

ServiceNoPing ==
    /\ pc = "service"
    /\ IsHandshakeing(c) \/ uin = 0
    /\ pc' = "process" /\ ret' = "tasks1"
    /\ UNCHANGED <<c, uin, tasks, ready, buf, old, service>>

NetworkThread ==
    \/ LoginTask \/ LogoutTask \/ ScreenOnTask \/ AddSvrTask \/ RequestTask
    \/ EpollWait \/ ReadError \/ RecvFails \/ Recv \/ RecvNothing
    \/ ParsePartial \/ ParseOther \/ ParseAccept \/ ParseDone
    \/ WriteError \/ Hangup \/ CheckTimeout \/ JoinPause \/ ServiceNoPing
    \/ ProcessNothing
    \/ \E opens \in BOOLEAN :
           \/ NetworkTask(opens) \/ SetSvrTask(opens) \/ CallEvents(opens)
           \/ ParseBad(opens) \/ ParseReject(opens) \/ ServiceHandshake(opens)
           \/ ProcessConnect(opens)
    \/ \E opens \in BOOLEAN, rearms \in {TRUE, ~EpollFails}, resetPing \in BOOLEAN :
           ProcessSend(opens, rearms, resetPing)
    \/ \E opens \in BOOLEAN, rearms \in {TRUE, ~EpollFails} : ServicePing(opens, rearms)
    \/ \E rearms \in {TRUE, ~EpollFails} :
           \/ WriteFails(rearms) \/ WriteUnarmed(rearms)
           \/ \E left \in SUBSET {"handshake", "data"} : WriteSome(rearms, left)

-----------------------------------------------------------------------------
(* The kernel and the server *)

Kernel(after) ==
    /\ Running
    /\ c' = after
    /\ UNCHANGED <<uin, tasks, loop, service>>

\* The TCP handshake completes.
Establish == c.sock = "pending" /\ Kernel([c EXCEPT !.sock = "up"])

\* The connection is refused or reset.
Reset == c.sock \in {"pending", "up", "fin"} /\ Kernel([c EXCEPT !.sock = "err", !.inbox = <<>>])

\* The server closes its side.
Finish == c.sock = "up" /\ Kernel([c EXCEPT !.sock = "fin"])

\* The server answers each handshake once, and may send anything else.
Answer(p) ==
    /\ c.sock = "up" /\ c.server = "asked"
    /\ p \in {"accept", "reject"}
    /\ Len(c.inbox) < MaxInbox
    /\ Kernel([c EXCEPT !.inbox = Append(@, p), !.server = "answered"])

Push(p) ==
    /\ c.sock = "up"
    /\ p \in {"other", "bad", "partial"}
    /\ Len(c.inbox) < MaxInbox
    /\ "partial" \notin {c.inbox[i] : i \in DOMAIN c.inbox}
    /\ Kernel([c EXCEPT !.inbox = Append(@, p)])

Environment ==
    \/ Establish \/ Reset \/ Finish
    \/ \E p \in Packets : Answer(p) \/ Push(p)

Next == JavaCalls \/ NetworkThread \/ Environment

Spec == Init /\ [][Next]_vars

\* The network thread keeps running, processRequestQueue, whose queue is finite,
\* returns, and openConnection does not fail each time the timer calls it.
FairSpec ==
    /\ Spec
    /\ WF_vars(NetworkThread)
    /\ WF_vars(ProcessNothing)
    /\ SF_vars(uin # 0 /\ c.timer /\ CallEvents(TRUE))
-----------------------------------------------------------------------------
(* Properties *)

TypeOK ==
    /\ c \in Conn
    /\ uin \in Uins \cup {0}
    /\ tasks \in Seq(Tasks)
    /\ pc \in {"tasks1", "wait", "tasks2", "in", "parse", "out", "hup", "timeout",
               "service", "process", "crashed"}
    /\ ret \in {"tasks1", "tasks2"}
    /\ ready \subseteq {"IN", "OUT", "HUP"}
    /\ buf \in Seq(Packets)
    /\ old \in BOOLEAN
    /\ service \in BOOLEAN

\* The status, the socket and the token tell the same story whatever the order of
\* callbacks: a socket is open exactly while the status is Connecting or Connected
\* (so connect never overwrites an open socketFd), the token is non-zero exactly
\* while it is Connected, and an armed reconnectTimer belongs to a closed socket.
StatusMatchesSocket ==
    /\ c.sock # "none" <=> c.status \in {"Connecting", "Connected"}
    /\ c.token # 0 <=> c.status = "Connected"
    /\ c.timer => c.sock = "none"

\* Once clearUp has run nothing reopens the connection or resumes the handshake
\* until the next login: not the timer, not a network change, not a stale event.
LoggedOutIsSilent ==
    uin = 0 /\ Running => c.sock = "none" /\ c.handshake = "Idel"

\* A logged-in client with a network is never stranded: if a handshake was begun
\* and no socket is open, the reconnectTimer is armed.
NeverStranded ==
    uin # 0 /\ c.net /\ IsHandshakeing(c) /\ c.sock = "none" => c.timer

\* The session counts as established only on the socket on which the server
\* answered this connection's handshake and the application accepted the answer.
SessionIsOfThisSocket ==
    c.handshake = "Successed" => c.status = "Connected" /\ c.server = "accepted"

\* The application is never told "connecting" while it has a session: whatever
\* order closes, demotions, network changes and packets come in, the state told
\* last is "connected", or "waiting for the network".
SessionIsShown == c.handshake = "Successed" => c.shown # "Connecting"

\* While a server is forced by setSvrAddr (or the default one is in force), the
\* open connection goes to it.
ForcedServerIsUsed ==
    c.sock # "none" /\ c.pool.nio.ip # NoServer => c.peer = c.pool.nio

\* Whatever the order of addSvrAddr, setSvrAddr and failover, the address index
\* selects an existing address, and nioServer is empty only if there is one.
AddressInBounds == InBounds(c.pool)

\* A connection announced to the manager keeps its token until it is closed, and
\* a token is never given twice: the comparison of a request's connectionToken
\* with the current one cannot confuse two connections.
TokensAreFresh ==
    [][c'.token # c.token =>
           \/ c'.token = 0
           \/ c.token = 0 /\ c'.token >= c.nextToken /\ c'.nextToken > c'.token]_vars

LoginPending == \E i \in DOMAIN tasks : tasks[i][1] = "login"

\* CoreService runs, and nothing will log it in.
LeftLoggedOut == service /\ uin = 0 /\ ~LoginPending

\* setUin compares accounts on the caller's thread and logs in by a task.  A started
\* service is left logged out in one way only: it was started again while its own
\* logout was still queued, and that logout has now run.
LeftByLateLogout ==
    [][~LeftLoggedOut /\ LeftLoggedOut' => service /\ Pending("logout")]_vars

\* Once the Java side is quiet, logged in and with a network, the client has an
\* open socket again and again: no order of failures stops the reconnection.
KeepsReconnecting ==
    <>[](uin # 0 /\ c.net /\ tasks = <<>> /\ Running) => []<>(c.sock # "none")

-----------------------------------------------------------------------------
(* What a comment in the code says and the code does not do *)

\* connect "clears the data of the previous connection": no byte of another
\* connection is left in resetOfData.
NoBytesOfPreviousConnection == c.rest # "stale"
=============================================================================
