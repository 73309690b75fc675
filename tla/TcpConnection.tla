---------------------------- MODULE TcpConnection ----------------------------
(***************************************************************************)
(* The connection object: TcpConnection and its base TcpSocket, its        *)
(* reconnectTimer, the handshake state its Datacenter keeps for it and the *)
(* state ConnectionsManager derives from its callbacks.  The methods call  *)
(* each other synchronously (closeSocket calls onDisconnected, which calls *)
(* onConnectionClosed, ...), so each is an operator on the record c of     *)
(* these fields that returns the record after the call; module LongLink    *)
(* makes actions of the calls that the network thread's loop makes.        *)
(*                                                                         *)
(* Two outcomes are decided outside the code and are parameters:           *)
(*   opens   openConnection succeeds (socket, inet_pton, fcntl, connect    *)
(*           and EPOLL_CTL_ADD), and                                       *)
(*   rearms  EPOLL_CTL_MOD in adjustWriteOp succeeds.                      *)
(***************************************************************************)
EXTENDS Endpoints

CONSTANTS
    RetriesWithData, \* willRetryConnectCount after a connection that received data (5)
    RetriesNoData    \* willRetryConnectCount after one that did not (1)

ASSUME ConnectionAssumption ==
    /\ RetriesWithData \in Nat \ {0}
    /\ RetriesNoData \in Nat \ {0}

Max2(a, b) == IF a >= b THEN a ELSE b

\* failedConnectionCount is only compared with 1 and with willRetryConnectCount,
\* so all the values above this one behave alike and are represented by it.
FailedCap == Max2(RetriesWithData, RetriesNoData) + 1

Failures == 0..FailedCap

Retries == {RetriesWithData, RetriesNoData}

Statuses == {"Idel", "Connecting", "Connected", "Reconnecting", "Closed"}

Handshakes == {"Idel", "Ing", "Successed"}

\* What the server can put in a stream: its verdict on the handshake, as the
\* application will judge it; any other packet; a header checkHeader refuses;
\* the beginning of a packet whose end has not arrived.
Packets == {"accept", "reject", "other", "bad", "partial"}

Shown == {"Connecting", "Waiting", "Connected"}

\* The kernel's view of the socket; none: socketFd < 0.
Sockets == {"none", "pending", "up", "fin", "err"}

\* What the stream to the server can hold: the handshake packet, other packets.
Outgoing == {"handshake", "data"}

\* Whose bytes resetOfData holds.
Remainders == {"none", "own", "stale"}

\* How far the server is with this connection's handshake.
Progress == {"idle", "asked", "answered", "accepted"}

Conn ==
    [status     : Statuses,   \* tcpConnectionStatus
     timer      : BOOLEAN,    \* reconnectTimer is started: it is in the events list
     sent       : BOOLEAN,    \* onConnectedSent
     token      : Nat,        \* connectionToken, 0 when there is no connection
     nextToken  : Nat \ {0},  \* lastConnectionToken
     handshake  : Handshakes, \* Datacenter::handshakeState
     shown      : Shown,      \* connetionState
     net        : BOOLEAN,    \* networkAvailable
     pinging    : BOOLEAN,    \* lastPackSendTime is not 0
     out        : SUBSET Outgoing,  \* outgoingByteStream
     failed     : Failures,   \* failedConnectionCount
     willRetry  : Retries,    \* willRetryConnectCount
     was        : BOOLEAN,    \* wasConnected
     recvd      : BOOLEAN,    \* currentConnectionRecvData
     rest       : Remainders, \* resetOfData
     pool       : Pool,       \* the Datacenter's addresses
     peer       : Servers,    \* serverAddress, serverPort
     \* The kernel's side of the socket, and the server behind it.
     sock       : Sockets,
     inbox      : Seq(Packets),     \* received, not yet read
     server     : Progress]

NewConn ==
    [status |-> "Idel", timer |-> FALSE, sent |-> FALSE, token |-> 0, nextToken |-> 1,
     handshake |-> "Idel", shown |-> "Connecting", net |-> TRUE, pinging |-> FALSE,
     out |-> {}, failed |-> 0, willRetry |-> RetriesWithData,
     was |-> FALSE, recvd |-> FALSE, rest |-> "none", pool |-> NewPool,
     peer |-> [ip |-> NoServer, port |-> 0],
     sock |-> "none", inbox |-> <<>>, server |-> "idle"]

IsHandshakeing(c) == c.handshake # "Idel"

\* Mutation: the session survives its connection.
OnConnectionClosedKeepsSession(c) ==
    [c EXCEPT !.shown = IF c.net THEN "Connecting" ELSE "Waiting"]

\* ConnectionsManager::onConnectionClosed.  A session that was established is
\* demoted to "handshaking", whatever the state of the socket.
OnConnectionClosed(c) ==
    [c EXCEPT !.handshake = IF @ = "Idel" THEN @ ELSE "Ing",
              !.shown = IF c.net THEN "Connecting" ELSE "Waiting"]

\* Mutation: the timer is not started.
ScheduleReconnectUnarmed(c, canSwitch) == [c EXCEPT !.status = "Reconnecting"]

\* The second half of onDisconnected: count the failure, perhaps move to the
\* next endpoint, and arm the timer.  isTryingNextPort only chooses between two
\* timeouts of the next connection, which are left to module KeepAlive.
ScheduleReconnect(c, canSwitch) ==
    LET failed    == IF c.failed < FailedCap THEN c.failed + 1 ELSE FailedCap
        willRetry == IF failed # 1 THEN c.willRetry
                     ELSE IF c.recvd THEN RetriesWithData ELSE RetriesNoData
        switch    == c.net /\ (canSwitch \/ failed > willRetry)
    IN [c EXCEPT !.status = "Reconnecting", !.timer = TRUE,
                 !.failed = IF switch THEN 0 ELSE failed, !.willRetry = willRetry,
                 !.pool = IF switch THEN SwitchAddressOrPort(@) ELSE @]

\* The test on tcpConnectionStatus at line 290 is always true: the status
\* becomes Idel even when closeConnect has just set it to Closed.
OnDisconnected(c, reason) ==
    LET canSwitch == c.was /\ ~c.recvd /\ reason = 2
        idle == OnConnectionClosed([c EXCEPT !.timer = FALSE, !.rest = "none",
                                             !.token = 0, !.was = FALSE,
                                             !.status = "Idel"])
    IN IF IsHandshakeing(idle) THEN ScheduleReconnect(idle, canSwitch) ELSE idle

CloseSocket(c, reason) ==
    OnDisconnected([c EXCEPT !.sock = "none", !.inbox = <<>>,
                             !.server = "idle", !.sent = FALSE, !.out = {}],
                   reason)

\* Mutation: dropConnection is not called.
CloseConnectKeepsSocket(c) == [c EXCEPT !.timer = FALSE, !.status = "Closed"]

CloseConnect(c) ==
    IF c.status \in {"Idel", "Closed"} THEN [c EXCEPT !.timer = FALSE]
    ELSE OnConnectionClosed(
             CloseSocket([c EXCEPT !.timer = FALSE, !.status = "Closed"], 0))

Connect(c, opens) ==
    IF ~c.net THEN OnConnectionClosed(c)
    ELSE IF c.status \in {"Connected", "Connecting"} THEN c
    ELSE LET fresh == [c EXCEPT !.status = "Connecting", !.timer = FALSE,
                                !.rest = "none", !.was = FALSE, !.recvd = FALSE,
                                !.peer = CurrentEndpoint(c.pool)]
         IN IF opens THEN [fresh EXCEPT !.sock = "pending"]
            ELSE CloseSocket(fresh, 1)

Reconnect(c, opens) ==
    Connect([CloseConnect(c) EXCEPT !.status = "Reconnecting"], opens)

\* Anything sent while there is no connection only starts one: the data is
\* dropped.  While the socket is still connecting the data is queued.
SendData(c, kind, opens, rearms) ==
    IF c.status \in {"Idel", "Reconnecting", "Closed"} THEN Connect(c, opens)
    ELSE IF c.sock = "none" THEN c
    ELSE IF rearms THEN [c EXCEPT !.out = @ \cup {kind}]
    ELSE CloseSocket(c, 1)

\* Mutation: lastConnectionToken is not incremented.
OnConnectedSameToken(c, rearms) ==
    LET up == [c EXCEPT !.status = "Connected", !.token = c.nextToken, !.was = TRUE]
    IN IF c.handshake # "Ing" THEN up
       ELSE SendData([up EXCEPT !.pinging = TRUE], "handshake", TRUE, rearms)

\* onConnected, onConnectionConected and onHandshakeConnectionConnected: a new
\* token, then the handshake unless the session is idle or already established.
OnConnected(c, rearms) ==
    LET up == [c EXCEPT !.status = "Connected", !.token = c.nextToken,
                        !.nextToken = @ + 1, !.was = TRUE]
    IN IF c.handshake # "Ing" THEN up
       ELSE SendData([up EXCEPT !.pinging = TRUE], "handshake", TRUE, rearms)

\* Datacenter::beginHandshake(true).
BeginHandshake(c, opens) ==
    Connect(CloseConnect([c EXCEPT !.handshake = "Ing"]), opens)

\* Datacenter::onHandshakeResult.
OnHandshakeResult(c, accepted, opens) ==
    IF accepted THEN [c EXCEPT !.handshake = "Successed", !.server = "accepted"]
    ELSE Connect(CloseConnect(c), opens)

\* Datacenter::sendPing, with getConnection(false) known to be non-null.
SendPing(c, opens, rearms) == SendData(c, "data", opens, rearms)
==============================================================================
