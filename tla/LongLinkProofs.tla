--------------------------- MODULE LongLinkProofs ---------------------------
(***************************************************************************)
(* The long link and its connection, for any set of calls, any bounds, any *)
(* number of retries, any accounts and addresses.                          *)
(*                                                                         *)
(* First what each method of the connection guarantees: what the           *)
(* operations on the address list preserve; Good, what the methods expect  *)
(* of the connection and leave behind, and Safe, which adds that it is not *)
(* stranded; Follows, which relates a connection to the one after a call;  *)
(* and what each method does to the session, the handshake packet in the   *)
(* outgoing stream, the server's answer in the receive queue, the          *)
(* handshake state and the server it goes to.  Session is what the methods *)
(* keep true of them; Moves says how a call that establishes no connection *)
(* may move the socket, the token and the handshake state together, which  *)
(* is what the abstract link of module Link allows.                        *)
(*                                                                         *)
(* Then the safety of the long link: one inductive invariant, of which     *)
(* each action is a few of the lemmas about the methods.                   *)
(*                                                                         *)
(* Last the session, and that LongLink implements Link.  The invariant     *)
(* Talk follows the server's answer from the kernel's queue to the parse   *)
(* loop: there is one for each handshake sent, it is in one of the two     *)
(* places, and while it is in the parse loop the socket it was read from   *)
(* is still the one in use.  With it each action is shown to keep the      *)
(* session honest and to be a step of the abstract link.                   *)
(***************************************************************************)
EXTENDS LongLinkRefinement, TLAPS

-----------------------------------------------------------------------------
(* The address list *)

\* The table of default ports is not empty.
LEMMA LastPort == LastPortIndex \in Nat /\ Len(DefaultPorts) = LastPortIndex + 1
  BY EndpointAssumption DEF LastPortIndex

\* The constructor's list is well formed.
LEMMA NewPoolOK == NewPool \in Pool /\ InBounds(NewPool)
  <1>1. NewPool.nio \in Servers /\ <<>> \in Seq(Addresses)
    BY DEF NewPool, Servers
  <1>2. [a \in Addresses |-> <<0, 0>>] \in [Addresses -> Nat \X Nat]
    OBVIOUS
  <1>3. QED
    BY <1>1, <1>2, LastPort, EndpointAssumption DEF NewPool, Pool, InBounds

\* switchAddressOrPort stays within the two arrays.
LEMMA SwitchOK ==
  ASSUME NEW d \in Pool, InBounds(d)
  PROVE  SwitchAddressOrPort(d) \in Pool /\ InBounds(SwitchAddressOrPort(d))
  <1> DEFINE next == IF d.addr < Len(d.addresses) - 1 THEN d.addr + 1 ELSE 0
  <1>1. ASSUME NEW a \in Nat, NEW p \in 0..LastPortIndex
        PROVE  /\ [d EXCEPT !.port = p] \in Pool
               /\ [d EXCEPT !.port = p, !.addr = a] \in Pool
    BY Zenon DEF Pool
  <1>2. /\ next \in Nat
        /\ d.addresses # <<>> => next < Len(d.addresses)
    <2>1. /\ d.addr \in Nat /\ Len(d.addresses) \in Nat
          /\ d.addresses # <<>> => Len(d.addresses) # 0
      BY DEF Pool
    <2> QED
      BY <2>1
  <1>3. CASE d.nio.ip # NoServer
    BY <1>3 DEF SwitchAddressOrPort
  <1>4. CASE d.nio.ip = NoServer /\ d.port < LastPortIndex
    <2>1. d.port + 1 \in 0..LastPortIndex
      BY <1>4, LastPort DEF Pool
    <2>2. SwitchAddressOrPort(d) = [d EXCEPT !.port = d.port + 1]
      BY <1>4 DEF SwitchAddressOrPort
    <2>3. QED
      BY <1>1, <2>1, <2>2, Zenon DEF InBounds, Pool
  <1>5. CASE d.nio.ip = NoServer /\ ~(d.port < LastPortIndex)
    <2>1. SwitchAddressOrPort(d) = [d EXCEPT !.port = 0, !.addr = next]
      BY <1>5 DEF SwitchAddressOrPort
    <2>2. 0 \in 0..LastPortIndex
      BY LastPort
    <2> HIDE DEF next
    <2>3. QED
      BY <1>1, <1>2, <2>1, <2>2, Zenon DEF InBounds, Pool
  <1>6. QED
    BY <1>3, <1>4, <1>5

\* setAddressAndPort forces a server and leaves the list alone.
LEMMA ForceOK ==
  ASSUME NEW d \in Pool, InBounds(d), NEW a \in Addresses, NEW p \in Ports
  PROVE  ForceAddressAndPort(d, a, p) \in Pool /\ InBounds(ForceAddressAndPort(d, a, p))
  <1>1. [ip |-> a, port |-> p] \in Servers /\ a # NoServer
    BY EndpointAssumption DEF Servers
  <1>2. QED
    BY <1>1, Zenon DEF ForceAddressAndPort, Pool, InBounds

\* A shuffled sequence is a sequence of the same length over the same set.
LEMMA ShuffleOK ==
  ASSUME NEW S, NEW s \in Seq(S), NEW t \in Shuffles(s)
  PROVE  t \in Seq(S) /\ Len(t) = Len(s)
  <1>1. DOMAIN s = 1..Len(s) /\ Len(s) \in Nat /\ {s[i] : i \in DOMAIN s} \subseteq S
    OBVIOUS
  <1>2. t \in [1..Len(s) -> S]
    BY <1>1 DEF Shuffles
  <1>3. QED
    BY <1>1, <1>2

\* addAddressAndPort resets the indices whenever it changes the list.
LEMMA AddOK ==
  ASSUME NEW d \in Pool, InBounds(d), NEW a \in Addresses, NEW p \in Ports,
         NEW e \in AddAddressAndPort(d, a, p)
  PROVE  e \in Pool /\ InBounds(e)
  <1>1. p \in Nat /\ a \in Addresses /\ 0 \in 0..LastPortIndex
    BY EndpointAssumption, LastPort
  <1>2. [d.nio EXCEPT !.ip = NoServer] \in Servers
    BY Zenon DEF Pool, Servers
  <1>3. CASE a \in Known(d)
    <2>1. e = [d EXCEPT !.nio.ip = NoServer, !.ports[a][2] = p]
      BY <1>3 DEF AddAddressAndPort
    <2>2. e = [d EXCEPT !.nio = [d.nio EXCEPT !.ip = NoServer],
                        !.ports = [d.ports EXCEPT ![a] = [d.ports[a] EXCEPT ![2] = p]]]
      BY <2>1 DEF Pool
    <2>3. [d.ports[a] EXCEPT ![2] = p] \in Nat \X Nat
      <3>1. PICK m \in Nat, n \in Nat : d.ports[a] = <<m, n>>
        BY DEF Pool
      <3>2. [<<m, n>> EXCEPT ![2] = p] = <<m, p>>
        OBVIOUS
      <3>3. QED
        BY <1>1, <3>1, <3>2
    <2>4. [d.ports EXCEPT ![a] = [d.ports[a] EXCEPT ![2] = p]] \in [Addresses -> Nat \X Nat]
      BY <1>1, <2>3 DEF Pool
    <2>5. d.addresses # <<>>
      BY <1>3 DEF Known, Pool
    <2>6. QED
      BY <1>2, <2>2, <2>4, <2>5, Zenon DEF Pool, InBounds
  <1>4. CASE a \notin Known(d)
    <2>1. PICK s \in Shuffles(Append(d.addresses, a)) :
             e = [d EXCEPT !.nio.ip = NoServer, !.ports[a] = <<p, 0>>,
                           !.addresses = s, !.addr = 0, !.port = 0]
      BY <1>4, Zenon DEF AddAddressAndPort
    <2>2. Append(d.addresses, a) \in Seq(Addresses)
          /\ Len(Append(d.addresses, a)) = Len(d.addresses) + 1 /\ Len(d.addresses) \in Nat
      BY DEF Pool
    <2>3. s \in Seq(Addresses) /\ Len(s) = Len(Append(d.addresses, a))
      BY <2>2, ShuffleOK, Zenon
    <2>4. e = [d EXCEPT !.nio = [d.nio EXCEPT !.ip = NoServer],
                        !.ports = [d.ports EXCEPT ![a] = <<p, 0>>],
                        !.addresses = s, !.addr = 0, !.port = 0]
      BY <2>1 DEF Pool
    <2>5. [d.ports EXCEPT ![a] = <<p, 0>>] \in [Addresses -> Nat \X Nat]
      BY <1>1 DEF Pool
    <2>6. s # <<>> /\ 0 < Len(s)
      BY <2>2, <2>3
    <2>7. e \in Pool
      BY <1>1, <1>2, <2>3, <2>4, <2>5, Zenon DEF Pool
    <2>8. e.addresses = s /\ e.addr = 0
      BY <2>4 DEF Pool
    <2>9. QED
      BY <2>6, <2>7, <2>8 DEF InBounds
  <1>5. QED
    BY <1>3, <1>4

\* The endpoint of the next connection is a real one: no index is out of range.
THEOREM EndpointOK ==
  ASSUME NEW d \in Pool, InBounds(d)
  PROVE  CurrentEndpoint(d) \in Servers /\ GetCurrentAddress(d) # NoServer
  <1>1. /\ GetCurrentAddress(d) \in Addresses \cup {DefaultAddress}
        /\ d.nio.ip = NoServer => GetCurrentAddress(d) \in Addresses
    BY EndpointAssumption DEF GetCurrentAddress, Pool, InBounds, Servers
  <1>2. GetCurrentPort(d) \in Nat
    <2>1. DefaultPorts[d.port + 1] \in Nat \cup {-1}
      BY EndpointAssumption, LastPort DEF Pool
    <2>2. ASSUME d.nio.ip = NoServer
          PROVE  /\ d.ports[GetCurrentAddress(d)][1] \in Nat
                 /\ d.ports[GetCurrentAddress(d)][2] \in Nat
      BY <1>1, <2>2 DEF Pool
    <2>3. d.nio.port \in Nat
      BY DEF Pool, Servers
    <2>4. QED
      BY <2>1, <2>2, <2>3 DEF GetCurrentPort
  <1>3. QED
    BY <1>1, <1>2, EndpointAssumption DEF CurrentEndpoint, Servers

-----------------------------------------------------------------------------
(* The connection *)

\* status, socket, timer, sent flag and token agree.
Coherent(x) ==
    /\ x.sock # "none" <=> x.status \in {"Connecting", "Connected"}
    /\ x.token # 0 <=> x.status = "Connected"
    /\ x.timer => x.sock = "none"
    /\ x.status = "Connected" => x.sent
    /\ x.token < x.nextToken

Good(x) == x \in Conn /\ Coherent(x) /\ InBounds(x.pool)

Stranded(x) == x.net /\ IsHandshakeing(x) /\ x.sock = "none" /\ ~x.timer

Safe(x) == Good(x) /\ ~Stranded(x)

\* A call that establishes no connection keeps the token or clears it, begins and
\* ends no session, and does not touch networkAvailable.
Follows(x, y) ==
    /\ y.net = x.net
    /\ y.nextToken = x.nextToken
    /\ y.token \in {x.token, 0}
    /\ IsHandshakeing(y) <=> IsHandshakeing(x)

\* The failure counter starts within its cap.
LEMMA Cap == FailedCap \in Nat /\ 0 \in Failures
  BY ConnectionAssumption DEF FailedCap, Failures, Max2

\* The connection the constructor makes is safe and idle.
LEMMA NewConnOK == Safe(NewConn) /\ NewConn.handshake = "Idel" /\ NewConn.sock = "none"
  <1>1. [ip |-> NoServer, port |-> 0] \in Servers
    BY DEF Servers
  <1>2. NewConn \in Conn
    BY <1>1, Cap, NewPoolOK DEF NewConn, Conn, Retries, Statuses, Handshakes, Shown, Sockets, Remainders, Progress
  <1>3. QED
    BY <1>2, NewPoolOK DEF NewConn, Safe, Good, Coherent, Stranded, IsHandshakeing

\* What a method that does not touch the socket leaves alone.
SameSocket(x, y) ==
    /\ y.net = x.net /\ y.nextToken = x.nextToken /\ y.token = x.token
    /\ y.sock = x.sock /\ y.sent = x.sent

\* onConnectionClosed touches only the session and what the application is shown.
LEMMA OnConnectionClosedOK ==
  ASSUME NEW x \in Conn, NEW y, y = OnConnectionClosed(x)
  PROVE  /\ y \in Conn /\ SameSocket(x, y) /\ y.pool = x.pool
         /\ y.status = x.status /\ y.timer = x.timer
         /\ IsHandshakeing(y) <=> IsHandshakeing(x)
  <1> DEFINE h == IF x.handshake = "Idel" THEN x.handshake ELSE "Ing"
             w == IF x.net THEN "Connecting" ELSE "Waiting"
  <1>1. h \in Handshakes /\ w \in Shown
        /\ (h # "Idel" <=> x.handshake # "Idel")
    BY DEF Conn, Handshakes, Shown
  <1>2. y = [x EXCEPT !.handshake = h, !.shown = w]
    BY DEF OnConnectionClosed
  <1> HIDE DEF h, w
  <1>3. QED
    BY <1>1, <1>2, ZenonT(30) DEF Conn, IsHandshakeing, SameSocket

\* A failure is counted, the endpoint perhaps switched, and the timer armed.
LEMMA ScheduleReconnectOK ==
  ASSUME NEW x \in Conn, NEW b \in BOOLEAN, InBounds(x.pool),
         NEW y, y = ScheduleReconnect(x, b)
  PROVE  /\ y \in Conn /\ SameSocket(x, y) /\ InBounds(y.pool)
         /\ y.status = "Reconnecting" /\ y.timer = TRUE
         /\ y.handshake = x.handshake
  <1> DEFINE failed    == IF x.failed < FailedCap THEN x.failed + 1 ELSE FailedCap
             willRetry == IF failed # 1 THEN x.willRetry
                          ELSE IF x.recvd THEN RetriesWithData ELSE RetriesNoData
             switch    == x.net /\ (b \/ failed > willRetry)
             count     == IF switch THEN 0 ELSE failed
             pool      == IF switch THEN SwitchAddressOrPort(x.pool) ELSE x.pool
  <1>1. count \in Failures
    BY Cap DEF Conn, Failures
  <1>2. willRetry \in Retries
    BY DEF Conn, Retries
  <1>3. pool \in Pool /\ InBounds(pool)
    BY SwitchOK DEF Conn
  <1>4. y = [x EXCEPT !.status = "Reconnecting", !.timer = TRUE, !.failed = count,
                      !.willRetry = willRetry, !.pool = pool]
    BY DEF ScheduleReconnect
  <1> HIDE DEF failed, willRetry, switch, count, pool
  <1>5. y \in Conn
    <2>1. "Reconnecting" \in Statuses
      BY DEF Statuses
    <2>2. ASSUME NEW n \in Failures, NEW w \in Retries, NEW d \in Pool
          PROVE  [x EXCEPT !.status = "Reconnecting", !.timer = TRUE, !.failed = n,
                           !.willRetry = w, !.pool = d] \in Conn
      BY <2>1, Zenon DEF Conn
    <2>3. [x EXCEPT !.status = "Reconnecting", !.timer = TRUE, !.failed = count,
                    !.willRetry = willRetry, !.pool = pool] \in Conn
      BY <1>1, <1>2, <1>3, <2>2, Zenon
    <2>4. QED
      BY <1>4, <2>3, Zenon
  <1>6. QED
    BY <1>3, <1>4, <1>5 DEF Conn, SameSocket

\* closeSocket, through onDisconnected, leaves no socket and no token; the timer
\* is armed exactly if a session was begun.
LEMMA CloseSocketOK ==
  ASSUME NEW x \in Conn, InBounds(x.pool), NEW r, NEW y, y = CloseSocket(x, r)
  PROVE  /\ Safe(y) /\ y.sock = "none" /\ y.token = 0
         /\ y.net = x.net /\ y.nextToken = x.nextToken
         /\ IsHandshakeing(y) <=> IsHandshakeing(x)
         /\ y.status \in {"Reconnecting", "Idel"}
  <1> DEFINE closed == [x EXCEPT !.sock = "none", !.inbox = <<>>,
                                 !.server = "idle", !.sent = FALSE, !.out = {}]
             reset == [closed EXCEPT !.timer = FALSE, !.rest = "none", !.token = 0,
                                     !.was = FALSE, !.status = "Idel"]
             idle == OnConnectionClosed(reset)
             canSwitch == closed.was /\ ~closed.recvd /\ r = 2
  <1>1. closed \in Conn
    <2>1. <<>> \in Seq(Packets) /\ {} \in SUBSET Outgoing
          /\ "none" \in Sockets /\ "idle" \in Progress
      BY DEF Sockets, Progress
    <2>2. QED
      BY <2>1, Zenon DEF Conn
  <1>2. reset \in Conn
    <2>1. "Idel" \in Statuses /\ "none" \in Remainders
      BY DEF Statuses, Remainders
    <2> HIDE DEF closed
    <2>2. QED
      BY <1>1, <2>1, Zenon DEF Conn
  <1>3. /\ reset.pool = x.pool /\ reset.sock = "none" /\ reset.token = 0
        /\ reset.timer = FALSE /\ reset.status = "Idel" /\ reset.handshake = x.handshake
        /\ reset.net = x.net /\ reset.nextToken = x.nextToken
    BY DEF Conn
  <1>4. y = IF IsHandshakeing(idle) THEN ScheduleReconnect(idle, canSwitch) ELSE idle
    BY DEF CloseSocket, OnDisconnected
  <1>5. canSwitch \in BOOLEAN
    OBVIOUS
  <1> HIDE DEF closed, reset, canSwitch
  <1>6. /\ idle \in Conn /\ SameSocket(reset, idle) /\ idle.pool = reset.pool
        /\ idle.status = reset.status /\ idle.timer = reset.timer
        /\ IsHandshakeing(idle) <=> IsHandshakeing(reset)
    BY <1>2, OnConnectionClosedOK
  <1> HIDE DEF idle
  <1>7. /\ y \in Conn /\ SameSocket(idle, y) /\ InBounds(y.pool)
        /\ \/ IsHandshakeing(idle) /\ y.status = "Reconnecting" /\ y.timer = TRUE
           \/ ~IsHandshakeing(idle) /\ y.status = "Idel" /\ y.timer = FALSE
        /\ y.handshake = idle.handshake
    <2>1. CASE IsHandshakeing(idle)
      <3>1. y = ScheduleReconnect(idle, canSwitch) /\ InBounds(idle.pool)
        BY <1>3, <1>4, <1>6, <2>1
      <3>2. /\ y \in Conn /\ SameSocket(idle, y) /\ InBounds(y.pool)
            /\ y.status = "Reconnecting" /\ y.timer = TRUE
            /\ y.handshake = idle.handshake
        BY <1>5, <1>6, <3>1, ScheduleReconnectOK, ZenonT(30)
      <3>3. QED
        BY <2>1, <3>2
    <2>2. CASE ~IsHandshakeing(idle)
      BY <1>3, <1>4, <1>6, <2>2 DEF SameSocket
    <2>3. QED
      BY <2>1, <2>2, Zenon
  <1>8. y.nextToken \in Nat /\ y.nextToken > 0
    BY <1>7 DEF Conn
  <1>9. y.sock = "none" /\ y.token = 0 /\ y.net = x.net /\ y.nextToken = x.nextToken
    BY <1>3, <1>6, <1>7 DEF SameSocket
  <1>10. IsHandshakeing(y) <=> IsHandshakeing(x)
    BY <1>3, <1>6, <1>7 DEF IsHandshakeing
  <1>11. Safe(y)
    BY <1>7, <1>8, <1>9 DEF Safe, Good, Coherent, Stranded, IsHandshakeing
  <1>12. QED
    BY <1>7, <1>9, <1>10, <1>11

\* closeConnect leaves no socket, whether it closes one or finds none.
LEMMA CloseConnectOK ==
  ASSUME NEW x, Good(x), NEW y, y = CloseConnect(x)
  PROVE  /\ Good(y) /\ Follows(x, y)
         /\ y.sock = "none" /\ y.token = 0
         /\ y.status \notin {"Connecting", "Connected"}
  <1>1. CASE x.status \in {"Idel", "Closed"}
    <2>1. y = [x EXCEPT !.timer = FALSE]
      BY <1>1 DEF CloseConnect
    <2>2. y \in Conn
      BY <2>1, ZenonT(30) DEF Conn, Good
    <2>3. SameSocket(x, y) /\ y.pool = x.pool /\ y.handshake = x.handshake
          /\ y.timer = FALSE /\ y.status = x.status
      BY <2>1 DEF Conn, Good, SameSocket
    <2>4. QED
      BY <1>1, <2>2, <2>3 DEF Good, Coherent, Follows, IsHandshakeing, SameSocket
  <1>2. CASE x.status \notin {"Idel", "Closed"}
    <2> DEFINE s == [x EXCEPT !.timer = FALSE, !.status = "Closed"]
               z == CloseSocket(s, 0)
    <2>1. y = OnConnectionClosed(z)
      BY <1>2 DEF CloseConnect
    <2>2. s \in Conn
      <3>1. "Closed" \in Statuses
        BY DEF Statuses
      <3>2. QED
        BY <3>1, Zenon DEF Good, Conn
    <2>3. s.pool = x.pool /\ s.net = x.net /\ s.nextToken = x.nextToken
          /\ s.handshake = x.handshake
      BY DEF Good, Conn
    <2> HIDE DEF s
    <2>4. /\ Safe(z) /\ z.sock = "none" /\ z.token = 0
          /\ z.net = s.net /\ z.nextToken = s.nextToken
          /\ IsHandshakeing(z) <=> IsHandshakeing(s)
          /\ z.status \in {"Reconnecting", "Idel"}
      BY <2>2, <2>3, CloseSocketOK DEF Good
    <2> HIDE DEF z
    <2>5. /\ y \in Conn /\ SameSocket(z, y) /\ y.pool = z.pool
          /\ y.status = z.status /\ y.timer = z.timer
          /\ IsHandshakeing(y) <=> IsHandshakeing(z)
      BY <2>1, <2>4, OnConnectionClosedOK DEF Safe, Good
    <2>6. QED
      BY <2>3, <2>4, <2>5 DEF Safe, Good, Coherent, Follows, SameSocket, IsHandshakeing
  <1>3. QED
    BY <1>1, <1>2

\* connect either leaves a live connection alone, opens a socket, or fails and
\* arms the timer; without a network it only reports.
LEMMA ConnectOK ==
  ASSUME NEW x, Good(x), NEW opens \in BOOLEAN, NEW y, y = Connect(x, opens)
  PROVE  Safe(y) /\ Follows(x, y)
  <1>1. CASE ~x.net
    <2>1. y = OnConnectionClosed(x)
      BY <1>1 DEF Connect
    <2>2. /\ y \in Conn /\ SameSocket(x, y) /\ y.pool = x.pool
          /\ y.status = x.status /\ y.timer = x.timer
          /\ IsHandshakeing(y) <=> IsHandshakeing(x)
      BY <2>1, OnConnectionClosedOK DEF Good
    <2>3. QED
      BY <1>1, <2>2 DEF Safe, Good, Coherent, Stranded, Follows, SameSocket
  <1>2. CASE x.net /\ x.status \in {"Connected", "Connecting"}
    <2>1. y = x
      BY <1>2 DEF Connect
    <2>2. ~Stranded(x)
      BY <1>2 DEF Good, Coherent, Stranded
    <2>3. QED
      BY <2>1, <2>2 DEF Safe, Follows
  <1>3. CASE x.net /\ x.status \notin {"Connected", "Connecting"}
    <2> DEFINE fresh == [x EXCEPT !.status = "Connecting", !.timer = FALSE,
                                  !.rest = "none", !.was = FALSE, !.recvd = FALSE,
                                  !.peer = CurrentEndpoint(x.pool)]
               up == [fresh EXCEPT !.sock = "pending"]
    <2>1. y = IF opens THEN up ELSE CloseSocket(fresh, 1)
      BY <1>3 DEF Connect
    <2>2. fresh \in Conn
      <3>1. "Connecting" \in Statuses /\ "none" \in Remainders
        BY DEF Statuses, Remainders
      <3>2. PICK e \in Servers : e = CurrentEndpoint(x.pool)
        BY EndpointOK DEF Good, Conn
      <3>3. [x EXCEPT !.status = "Connecting", !.timer = FALSE,
                      !.rest = "none", !.was = FALSE, !.recvd = FALSE, !.peer = e] \in Conn
        BY <3>1, Zenon DEF Good, Conn
      <3>4. QED
        BY <3>2, <3>3
    <2>3. /\ fresh.pool = x.pool /\ fresh.net = x.net /\ fresh.nextToken = x.nextToken
          /\ fresh.token = x.token /\ fresh.handshake = x.handshake
          /\ fresh.status = "Connecting" /\ fresh.timer = FALSE
      BY DEF Good, Conn
    <2> HIDE DEF fresh
    <2>4. CASE opens
      <3>1. y = up
        BY <2>1, <2>4
      <3>2. up \in Conn
        <4>1. "pending" \in Sockets
          BY DEF Sockets
        <4>2. QED
          BY <2>2, <4>1 DEF Conn
      <3>3. /\ up.pool = x.pool /\ up.net = x.net /\ up.nextToken = x.nextToken
            /\ up.token = x.token /\ up.handshake = x.handshake /\ up.sock = "pending"
            /\ up.status = "Connecting" /\ up.timer = FALSE
        BY <2>2, <2>3 DEF Conn
      <3> HIDE DEF up
      <3>4. QED
        BY <1>3, <3>1, <3>2, <3>3
        DEF Safe, Good, Coherent, Stranded, Follows, IsHandshakeing
    <2>5. CASE ~opens
      <3>1. y = CloseSocket(fresh, 1)
        BY <2>1, <2>5
      <3>2. /\ Safe(y) /\ y.token = 0 /\ y.net = fresh.net
            /\ y.nextToken = fresh.nextToken
            /\ IsHandshakeing(y) <=> IsHandshakeing(fresh)
        BY <2>2, <2>3, <3>1, CloseSocketOK DEF Good
      <3>3. QED
        BY <2>3, <3>2 DEF Follows, IsHandshakeing
    <2>6. QED
      BY <2>4, <2>5
  <1>4. QED
    BY <1>1, <1>2, <1>3

\* Several callbacks in a row move the token as one does.
LEMMA FollowsTrans ==
  ASSUME NEW x, NEW y, NEW z, Follows(x, y), Follows(y, z)
  PROVE  Follows(x, z)
  BY DEF Follows

\* closeConnect followed by connect, as onHandshakeResult and beginHandshake do.
LEMMA ReopenOK ==
  ASSUME NEW x, Good(x), NEW opens \in BOOLEAN, NEW y, y = Connect(CloseConnect(x), opens)
  PROVE  Safe(y) /\ Follows(x, y)
  <1> DEFINE z == CloseConnect(x)
  <1>1. Good(z) /\ Follows(x, z)
    BY CloseConnectOK
  <1> HIDE DEF z
  <1>2. Safe(y) /\ Follows(z, y)
    BY <1>1, ConnectOK DEF z
  <1>3. QED
    BY <1>1, <1>2, FollowsTrans

\* reconnect() keeps the connection safe.
LEMMA ReconnectOK ==
  ASSUME NEW x, Good(x), NEW opens \in BOOLEAN, NEW y, y = Reconnect(x, opens)
  PROVE  Safe(y) /\ Follows(x, y)
  <1> DEFINE z == CloseConnect(x)
             w == [z EXCEPT !.status = "Reconnecting"]
  <1>1. /\ Good(z) /\ Follows(x, z) /\ z.sock = "none" /\ z.token = 0
        /\ z.status \notin {"Connecting", "Connected"}
    BY CloseConnectOK
  <1>2. y = Connect(w, opens)
    BY DEF Reconnect
  <1> HIDE DEF z
  <1>3. w \in Conn
    <2>1. "Reconnecting" \in Statuses
      BY DEF Statuses
    <2>2. QED
      BY <1>1, <2>1, Zenon DEF Good, Conn
  <1>4. SameSocket(z, w) /\ w.pool = z.pool /\ w.status = "Reconnecting"
        /\ w.timer = z.timer /\ w.handshake = z.handshake
    BY <1>1 DEF Good, Conn, SameSocket
  <1> HIDE DEF w
  <1>5. Good(w) /\ Follows(z, w)
    BY <1>1, <1>3, <1>4 DEF Good, Coherent, Follows, SameSocket, IsHandshakeing
  <1>6. Safe(y) /\ Follows(w, y)
    BY <1>2, <1>5, ConnectOK
  <1>7. QED
    BY <1>1, <1>5, <1>6, FollowsTrans

\* sendData starts a connection, queues the packet, or closes the socket.
LEMMA SendDataOK ==
  ASSUME NEW x, Safe(x), NEW kind \in Outgoing, NEW opens \in BOOLEAN,
         NEW rearms \in BOOLEAN, NEW y, y = SendData(x, kind, opens, rearms)
  PROVE  Safe(y) /\ Follows(x, y)
  <1>1. CASE x.status \in {"Idel", "Reconnecting", "Closed"}
    <2>1. y = Connect(x, opens)
      BY <1>1 DEF SendData
    <2>2. QED
      BY <2>1, ConnectOK DEF Safe
  <1>2. CASE x.status \notin {"Idel", "Reconnecting", "Closed"} /\ x.sock = "none"
    <2>1. y = x
      BY <1>2 DEF SendData
    <2>2. QED
      BY <2>1 DEF Follows
  <1>3. CASE x.status \notin {"Idel", "Reconnecting", "Closed"} /\ x.sock # "none" /\ rearms
    <2>1. PICK o \in SUBSET Outgoing : o = x.out \cup {kind}
      BY Zenon DEF Safe, Good, Conn
    <2>2. y = [x EXCEPT !.out = o]
      BY <1>3, <2>1 DEF SendData
    <2>3. y \in Conn
      BY <2>2 DEF Safe, Good, Conn
    <2>4. SameSocket(x, y) /\ y.pool = x.pool /\ y.status = x.status
          /\ y.timer = x.timer /\ y.handshake = x.handshake
      BY <2>2 DEF Safe, Good, Conn, SameSocket
    <2>5. QED
      BY <2>3, <2>4 DEF Safe, Good, Coherent, Stranded, Follows, SameSocket, IsHandshakeing
  <1>4. CASE x.status \notin {"Idel", "Reconnecting", "Closed"} /\ x.sock # "none" /\ ~rearms
    <2>1. y = CloseSocket(x, 1)
      BY <1>4 DEF SendData
    <2>2. /\ Safe(y) /\ y.token = 0 /\ y.net = x.net /\ y.nextToken = x.nextToken
          /\ IsHandshakeing(y) <=> IsHandshakeing(x)
      BY <2>1, CloseSocketOK DEF Safe, Good
    <2>3. QED
      BY <2>2 DEF Follows
  <1>5. QED
    BY <1>1, <1>2, <1>3, <1>4

\* y is x announced: it has the next token, or was closed again.
GetsToken(x, y) ==
    /\ Safe(y)
    /\ x.token = 0
    /\ y.token \in {x.nextToken, 0} /\ y.nextToken = x.nextToken + 1
    /\ y.net = x.net /\ (IsHandshakeing(y) <=> IsHandshakeing(x))

\* The first writable event: a socket that had no token gets the next one, or the
\* handshake cannot be queued and the socket is closed again.
LEMMA OnConnectedOK ==
  ASSUME NEW x, Safe(x), x.sock # "none", ~x.sent, NEW rearms \in BOOLEAN,
         NEW y, y = [OnConnected(x, rearms) EXCEPT !.sent = TRUE]
  PROVE  GetsToken(x, y)
  <1> SUFFICES /\ Safe(y)
               /\ x.token = 0
               /\ y.token \in {x.nextToken, 0} /\ y.nextToken = x.nextToken + 1
               /\ y.net = x.net /\ (IsHandshakeing(y) <=> IsHandshakeing(x))
    BY DEF GetsToken
  <1> DEFINE up == [x EXCEPT !.status = "Connected", !.token = x.nextToken,
                             !.nextToken = x.nextToken + 1, !.was = TRUE]
             hi == [up EXCEPT !.pinging = TRUE]
             on == OnConnected(x, rearms)
  <1>1. x.token = 0
    BY DEF Safe, Good, Coherent
  <1>2. up \in Conn
    <2>1. "Connected" \in Statuses
      BY DEF Statuses
    <2>2. PICK n \in Nat \ {0}, m \in Nat \ {0} : n = x.nextToken /\ m = x.nextToken + 1
      BY DEF Safe, Good, Conn
    <2>3. [x EXCEPT !.status = "Connected", !.token = n, !.nextToken = m,
                    !.was = TRUE] \in Conn
      BY <2>1, Zenon DEF Safe, Good, Conn
    <2>4. QED
      BY <2>2, <2>3
  <1>3. /\ up.status = "Connected" /\ up.token = x.nextToken
        /\ up.nextToken = x.nextToken + 1 /\ up.pool = x.pool /\ up.sock = x.sock
        /\ up.net = x.net /\ up.handshake = x.handshake /\ up.timer = x.timer
    BY DEF Safe, Good, Conn
  <1>4. on = IF x.handshake # "Ing" THEN up ELSE SendData(hi, "handshake", TRUE, rearms)
    BY DEF OnConnected
  <1> HIDE DEF up
  <1>5. hi \in Conn
    BY <1>2, Zenon DEF Conn
  <1>6. /\ hi.status = up.status /\ hi.token = up.token /\ hi.nextToken = up.nextToken
        /\ hi.pool = up.pool /\ hi.sock = up.sock /\ hi.net = up.net
        /\ hi.handshake = up.handshake /\ hi.timer = up.timer
    BY <1>2 DEF Conn
  <1> HIDE DEF hi
  <1>7. SendData(hi, "handshake", TRUE, rearms) =
           IF rearms THEN [hi EXCEPT !.out = hi.out \cup {"handshake"}] ELSE CloseSocket(hi, 1)
    BY <1>3, <1>6 DEF SendData
  <1>8. x.nextToken \in Nat /\ x.nextToken # 0 /\ x.timer = FALSE
    BY DEF Safe, Good, Coherent, Conn
  \* what is left to show once the sent flag is set
  <1>9. ASSUME NEW z \in Conn, y = [z EXCEPT !.sent = TRUE], InBounds(z.pool),
               z.net = x.net, z.nextToken = x.nextToken + 1,
               IsHandshakeing(z) <=> IsHandshakeing(x),
               \/ /\ z.token = x.nextToken /\ z.sock # "none"
                  /\ z.status = "Connected" /\ z.timer = FALSE
               \/ /\ z.token = 0 /\ z.sock = "none" /\ Safe(z)
        PROVE  /\ Safe(y) /\ y.token \in {x.nextToken, 0} /\ y.nextToken = x.nextToken + 1
               /\ y.net = x.net /\ (IsHandshakeing(y) <=> IsHandshakeing(x))
    <2>1. y \in Conn
      BY <1>9, Zenon DEF Conn
    <2>2. /\ y.sent = TRUE /\ y.status = z.status /\ y.token = z.token
          /\ y.nextToken = z.nextToken /\ y.pool = z.pool /\ y.sock = z.sock
          /\ y.net = z.net /\ y.handshake = z.handshake /\ y.timer = z.timer
      BY <1>9 DEF Conn
    <2>3. Coherent(y)
      BY <1>8, <1>9, <2>2 DEF Coherent, Safe, Good
    <2>4. ~Stranded(y)
      BY <1>9, <2>2 DEF Stranded, Safe, IsHandshakeing
    <2>5. QED
      BY <1>9, <2>1, <2>2, <2>3, <2>4 DEF Safe, Good, IsHandshakeing
  <1>10. InBounds(x.pool)
    BY DEF Safe, Good
  <1>11. CASE x.handshake # "Ing"
    <2>1. y = [up EXCEPT !.sent = TRUE]
      BY <1>4, <1>11
    <2>2. IsHandshakeing(up) <=> IsHandshakeing(x)
      BY <1>3 DEF IsHandshakeing
    <2>3. QED
      BY <1>1, <1>2, <1>3, <1>8, <1>9, <1>10, <2>1, <2>2, Zenon
  <1>12. CASE x.handshake = "Ing" /\ rearms
    <2> DEFINE z == [hi EXCEPT !.out = hi.out \cup {"handshake"}]
    <2>1. y = [z EXCEPT !.sent = TRUE]
      BY <1>4, <1>7, <1>12, Zenon
    <2>2. z \in Conn
      <3>1. PICK o \in SUBSET Outgoing : o = hi.out \cup {"handshake"}
        BY <1>5, Zenon DEF Conn, Outgoing
      <3>2. [hi EXCEPT !.out = o] \in Conn
        BY <1>5 DEF Conn
      <3>3. QED
        BY <3>1, <3>2
    <2>3. /\ z.status = hi.status /\ z.token = hi.token /\ z.nextToken = hi.nextToken
          /\ z.pool = hi.pool /\ z.sock = hi.sock /\ z.net = hi.net
          /\ z.handshake = hi.handshake /\ z.timer = hi.timer
      BY <1>5 DEF Conn
    <2> HIDE DEF z
    <2>4. IsHandshakeing(z) <=> IsHandshakeing(x)
      BY <1>3, <1>6, <2>3 DEF IsHandshakeing
    <2>5. /\ z.net = x.net /\ z.nextToken = x.nextToken + 1 /\ InBounds(z.pool)
          /\ z.token = x.nextToken /\ z.sock # "none"
          /\ z.status = "Connected" /\ z.timer = FALSE
      BY <1>3, <1>6, <1>8, <1>10, <2>3
    <2>6. QED
      BY <1>1, <1>9, <2>1, <2>2, <2>4, <2>5, Zenon
  <1>13. CASE x.handshake = "Ing" /\ ~rearms
    <2> DEFINE z == CloseSocket(hi, 1)
    <2>1. y = [z EXCEPT !.sent = TRUE]
      BY <1>4, <1>7, <1>13, Zenon
    <2>2. /\ Safe(z) /\ z.sock = "none" /\ z.token = 0
          /\ z.net = hi.net /\ z.nextToken = hi.nextToken
          /\ IsHandshakeing(z) <=> IsHandshakeing(hi)
      BY <1>3, <1>5, <1>6, <1>10, CloseSocketOK
    <2> HIDE DEF z
    <2>3. z \in Conn /\ InBounds(z.pool) /\ (IsHandshakeing(z) <=> IsHandshakeing(x))
      BY <1>3, <1>6, <2>2 DEF Safe, Good, IsHandshakeing
    <2>4. z.net = x.net /\ z.nextToken = x.nextToken + 1
      BY <1>3, <1>6, <2>2
    <2>5. QED
      BY <1>1, <1>9, <2>1, <2>2, <2>3, <2>4, Zenon
  <1>14. QED
    BY <1>11, <1>12, <1>13

-----------------------------------------------------------------------------
(* The session *)

Verdicts == {"accept", "reject"}

NoVerdict(s) == \A i \in DOMAIN s : s[i] \notin Verdicts

OneVerdict(s) ==
    \A i \in DOMAIN s, j \in DOMAIN s : s[i] \in Verdicts /\ s[j] \in Verdicts => i = j

\* A connection that is not announced has sent no handshake; a handshake still to
\* be sent is the first one; the server answers once, after it was asked; and a
\* session is one that it accepted on this connection.
Session(x) ==
    /\ x.status # "Connected" => "handshake" \notin x.out /\ x.server = "idle"
    /\ "handshake" \in x.out => x.server = "idle"
    /\ x.server # "answered" => NoVerdict(x.inbox)
    /\ OneVerdict(x.inbox)
    /\ x.handshake = "Successed" =>
           x.status = "Connected" /\ x.server = "accepted" /\ x.shown # "Connecting"

\* An open connection goes to the forced server, if there is one.
Directed(x) == x.sock # "none" /\ x.pool.nio.ip # NoServer => x.peer = x.pool.nio

Demote(h) == IF h = "Idel" THEN "Idel" ELSE "Ing"

SameOpen(x, y) == y.sock = "none" <=> x.sock = "none"

\* A socket may have been opened; nothing else happened.
Opens(x, y) ==
    /\ y.handshake = x.handshake /\ y.token = x.token
    /\ SameOpen(x, y) \/ (x.net /\ x.sock = "none")

\* connect() found no network.
Demotes(x, y) ==
    /\ ~x.net
    /\ y.handshake = Demote(x.handshake) /\ y.token = x.token /\ SameOpen(x, y)

\* The socket was closed, and perhaps replaced.
Closes(x, y) ==
    /\ x.sock # "none"
    /\ y.handshake = Demote(x.handshake) /\ y.token = 0
    /\ y.sock # "none" => x.net

Moves(x, y) ==
    /\ y.net = x.net /\ y.nextToken = x.nextToken
    /\ Opens(x, y) \/ Demotes(x, y) \/ Closes(x, y)

-----------------------------------------------------------------------------
(* Queues of packets *)

\* An empty queue holds no answer.
LEMMA EmptyOK == NoVerdict(<<>>) /\ OneVerdict(<<>>)
  BY DEF NoVerdict, OneVerdict

\* Reading the first packet leaves the others, and no answer if it was one.
LEMMA TailOK ==
  ASSUME NEW s \in Seq(Packets), s # <<>>, OneVerdict(s)
  PROVE  /\ OneVerdict(Tail(s))
         /\ NoVerdict(s) => NoVerdict(Tail(s)) /\ Head(s) \notin Verdicts
         /\ Head(s) \in Verdicts => NoVerdict(Tail(s))
  <1>1. /\ DOMAIN s = 1 .. Len(s) /\ Len(s) \in Nat /\ Len(s) > 0 /\ Head(s) = s[1]
        /\ DOMAIN Tail(s) = 1 .. Len(s) - 1
        /\ \A i \in 1 .. Len(s) - 1 : Tail(s)[i] = s[i + 1]
    OBVIOUS
  <1>2. \A i \in DOMAIN Tail(s) : i + 1 \in DOMAIN s /\ i + 1 # 1 /\ i \in Int
    BY <1>1
  <1>3. 1 \in DOMAIN s
    BY <1>1
  <1>4. OneVerdict(Tail(s))
    <2>1. SUFFICES ASSUME NEW i \in DOMAIN Tail(s), NEW j \in DOMAIN Tail(s),
                          Tail(s)[i] \in Verdicts, Tail(s)[j] \in Verdicts
                   PROVE  i = j
      BY DEF OneVerdict
    <2>2. s[i + 1] \in Verdicts /\ s[j + 1] \in Verdicts
      BY <1>1, <2>1
    <2>3. i + 1 = j + 1
      BY <1>2, <2>2 DEF OneVerdict
    <2>4. QED
      BY <1>2, <2>3
  <1>5. ASSUME NoVerdict(s) PROVE NoVerdict(Tail(s)) /\ Head(s) \notin Verdicts
    BY <1>1, <1>2, <1>3, <1>5 DEF NoVerdict
  <1>6. ASSUME Head(s) \in Verdicts PROVE NoVerdict(Tail(s))
    <2>1. SUFFICES ASSUME NEW i \in DOMAIN Tail(s), Tail(s)[i] \in Verdicts PROVE FALSE
      BY DEF NoVerdict
    <2>2. s[i + 1] \in Verdicts /\ s[1] \in Verdicts
      BY <1>1, <1>6, <2>1
    <2>3. i + 1 = 1
      BY <1>2, <1>3, <2>2 DEF OneVerdict
    <2>4. QED
      BY <1>2, <2>3
  <1>7. QED
    BY <1>4, <1>5, <1>6

\* A packet that is no answer adds none; an answer is the first one.
LEMMA AppendOK ==
  ASSUME NEW s \in Seq(Packets), NEW p \in Packets
  PROVE  /\ p \notin Verdicts /\ NoVerdict(s) => NoVerdict(Append(s, p))
         /\ p \notin Verdicts /\ OneVerdict(s) => OneVerdict(Append(s, p))
         /\ NoVerdict(s) => OneVerdict(Append(s, p))
  <1>1. /\ DOMAIN Append(s, p) = 1 .. Len(s) + 1 /\ DOMAIN s = 1 .. Len(s) /\ Len(s) \in Nat
        /\ Append(s, p)[Len(s) + 1] = p
        /\ \A i \in 1 .. Len(s) : Append(s, p)[i] = s[i]
    OBVIOUS
  <1>2. \A i \in DOMAIN Append(s, p) : i \in DOMAIN s \/ i = Len(s) + 1
    BY <1>1
  <1>3. \A i \in DOMAIN s : Append(s, p)[i] = s[i]
    BY <1>1
  <1>4. QED
    BY <1>1, <1>2, <1>3 DEF NoVerdict, OneVerdict

\* Bytes left over from before may spoil the first packet, and nothing else.
LEMMA SpoilOK ==
  ASSUME NEW s \in Seq(Packets), s # <<>>, NEW f, f = Head(s) \/ f \in Packets \ Verdicts
  PROVE  /\ NoVerdict(s) => NoVerdict(<<f>> \o Tail(s))
         /\ OneVerdict(s) => OneVerdict(<<f>> \o Tail(s))
  <1> DEFINE t == <<f>> \o Tail(s)
  <1>1. /\ DOMAIN s = 1 .. Len(s) /\ Len(s) \in Nat /\ Head(s) = s[1]
        /\ Tail(s) \in Seq(Packets) /\ Len(Tail(s)) = Len(s) - 1
        /\ \A i \in 1 .. Len(s) - 1 : Tail(s)[i] = s[i + 1]
    OBVIOUS
  <1>2. DOMAIN t = 1 .. Len(s) /\ t[1] = f
    BY <1>1
  <1>3. ASSUME NEW i \in DOMAIN s, i # 1 PROVE t[i] = s[i]
    <2>1. i - 1 \in 1 .. Len(s) - 1
      BY <1>1, <1>3
    <2>2. t[i] = Tail(s)[i - 1] /\ Tail(s)[i - 1] = s[i]
      BY <1>1, <2>1
    <2>3. QED
      BY <2>2, Zenon
  <1> HIDE DEF t
  <1>4. \A i \in DOMAIN s : t[i] = s[i] \/ t[i] \notin Verdicts
    BY <1>1, <1>2, <1>3
  <1>5. QED
    BY <1>1, <1>2, <1>4 DEF NoVerdict, OneVerdict, t

-----------------------------------------------------------------------------
(* Moves *)

\* What several calls in a row do to the link is what one may do.
LEMMA MovesTrans ==
  ASSUME NEW x, NEW y, NEW z, Good(x), Session(x), Moves(x, y), Moves(y, z)
  PROVE  Moves(x, z)
  <1>1. x.handshake \in {"Idel", "Ing", "Successed"}
    BY DEF Good, Conn, Handshakes
  <1>2. x.sock = "none" => x.token = 0 /\ x.handshake # "Successed"
    BY Zenon DEF Good, Coherent, Session
  <1>3. CASE Opens(x, y)
    BY <1>1, <1>2, <1>3 DEF Moves, Opens, Demotes, Closes, SameOpen, Demote
  <1>4. CASE Demotes(x, y)
    BY <1>1, <1>4 DEF Moves, Opens, Demotes, Closes, SameOpen, Demote
  <1>5. CASE Closes(x, y)
    BY <1>1, <1>5 DEF Moves, Opens, Demotes, Closes, SameOpen, Demote
  <1>6. QED
    BY <1>3, <1>4, <1>5 DEF Moves

\* A call that touches none of the fields concerned.
LEMMA StaysOK ==
  ASSUME NEW x, NEW y, SameSocket(x, y), y.handshake = x.handshake
  PROVE  Moves(x, y) /\ Opens(x, y)
  BY DEF Moves, Opens, SameOpen, SameSocket

\* A connection without a socket, a stream and a session.
LEMMA SilentOK ==
  ASSUME NEW y, y.sock = "none", y.out = {}, y.server = "idle", y.inbox = <<>>,
         y.handshake # "Successed"
  PROVE  Session(y) /\ Directed(y)
  BY EmptyOK DEF Session, Directed

-----------------------------------------------------------------------------
(* Methods *)

\* onConnectionClosed demotes the session.
LEMMA OnConnectionClosedEffect ==
  ASSUME NEW x \in Conn, NEW y, y = OnConnectionClosed(x)
  PROVE  /\ y.handshake = Demote(x.handshake) /\ y.sock = x.sock /\ y.out = x.out
         /\ y.server = x.server /\ y.inbox = x.inbox /\ y.status = x.status
         /\ y.pool = x.pool /\ y.peer = x.peer
  <1> DEFINE h == IF x.handshake = "Idel" THEN x.handshake ELSE "Ing"
             w == IF x.net THEN "Connecting" ELSE "Waiting"
  <1>1. h = Demote(x.handshake)
    BY DEF Demote
  <1>2. y = [x EXCEPT !.handshake = h, !.shown = w]
    BY DEF OnConnectionClosed
  <1> HIDE DEF h, w
  <1>3. QED
    BY <1>1, <1>2 DEF Conn

\* The second half of onDisconnected leaves what the first one cleared.
LEMMA ScheduleReconnectEffect ==
  ASSUME NEW x \in Conn, NEW b, NEW y, y = ScheduleReconnect(x, b)
  PROVE  /\ y.handshake = x.handshake /\ y.sock = x.sock /\ y.out = x.out
         /\ y.server = x.server /\ y.inbox = x.inbox
  BY Zenon DEF ScheduleReconnect, Conn

\* closeSocket empties both streams and demotes the session.
LEMMA CloseSocketEffect ==
  ASSUME NEW x \in Conn, InBounds(x.pool), NEW r, NEW y, y = CloseSocket(x, r)
  PROVE  /\ y.handshake = Demote(x.handshake) /\ y.sock = "none" /\ y.out = {}
         /\ y.server = "idle" /\ y.inbox = <<>>
         /\ Session(y) /\ Directed(y)
  <1> DEFINE closed == [x EXCEPT !.sock = "none", !.inbox = <<>>,
                                 !.server = "idle", !.sent = FALSE, !.out = {}]
             reset == [closed EXCEPT !.timer = FALSE, !.rest = "none", !.token = 0,
                                     !.was = FALSE, !.status = "Idel"]
             idle == OnConnectionClosed(reset)
             canSwitch == closed.was /\ ~closed.recvd /\ r = 2
  <1>1. closed \in Conn
    <2>1. <<>> \in Seq(Packets) /\ {} \in SUBSET Outgoing
          /\ "none" \in Sockets /\ "idle" \in Progress
      BY DEF Sockets, Progress
    <2>2. QED
      BY <2>1, Zenon DEF Conn
  <1>2. reset \in Conn
    <2>1. "Idel" \in Statuses /\ "none" \in Remainders
      BY DEF Statuses, Remainders
    <2> HIDE DEF closed
    <2>2. QED
      BY <1>1, <2>1, Zenon DEF Conn
  <1>3. /\ reset.sock = "none" /\ reset.out = {} /\ reset.server = "idle"
        /\ reset.inbox = <<>> /\ reset.handshake = x.handshake
    BY DEF Conn
  <1>4. y = IF IsHandshakeing(idle) THEN ScheduleReconnect(idle, canSwitch) ELSE idle
    BY DEF CloseSocket, OnDisconnected
  <1> HIDE DEF closed, reset, canSwitch
  <1>5. /\ idle.handshake = Demote(x.handshake) /\ idle.sock = "none" /\ idle.out = {}
        /\ idle.server = "idle" /\ idle.inbox = <<>>
    BY <1>2, <1>3, OnConnectionClosedEffect
  <1>6. idle \in Conn
    BY <1>2, OnConnectionClosedOK
  <1> HIDE DEF idle
  <1>7. /\ y.handshake = idle.handshake /\ y.sock = idle.sock /\ y.out = idle.out
        /\ y.server = idle.server /\ y.inbox = idle.inbox
    <2>1. CASE IsHandshakeing(idle)
      BY <1>4, <1>6, <2>1, ScheduleReconnectEffect
    <2>2. CASE ~IsHandshakeing(idle)
      BY <1>4, <2>2
    <2>3. QED
      BY <2>1, <2>2
  <1>8. y.handshake # "Successed"
    BY <1>5, <1>7 DEF Demote
  <1>9. QED
    BY <1>5, <1>7, <1>8, SilentOK

\* y is x without its socket, its session demoted.
Shut(x, y) == y.sock = "none" /\ y.handshake = Demote(x.handshake)

\* What closeSocket does to the socket and to the session, as one fact.
LEMMA CloseSocketShuts ==
  ASSUME NEW x \in Conn, InBounds(x.pool), NEW r
  PROVE  Shut(x, CloseSocket(x, r))
  BY CloseSocketEffect DEF Shut

\* As a move of the link, closeSocket closes the socket, or there was none.
LEMMA CloseSocketMoves ==
  ASSUME NEW x, Good(x), Session(x), NEW r, NEW y, y = CloseSocket(x, r)
  PROVE  Session(y) /\ Directed(y) /\ Moves(x, y)
  <1>1. x \in Conn /\ InBounds(x.pool)
    BY DEF Good
  <1>2. y.sock = "none" /\ y.token = 0 /\ y.net = x.net /\ y.nextToken = x.nextToken
    BY <1>1, CloseSocketOK
  <1>3. y.handshake = Demote(x.handshake) /\ Session(y) /\ Directed(y)
    BY <1>1, CloseSocketEffect
  <1>4. x.sock = "none" => x.token = 0 /\ x.handshake # "Successed"
    BY DEF Good, Coherent, Session
  <1>5. x.handshake \in {"Idel", "Ing", "Successed"}
    BY <1>1 DEF Conn, Handshakes
  <1>6. QED
    BY <1>2, <1>3, <1>4, <1>5 DEF Moves, Opens, Closes, SameOpen, Demote

\* closeConnect ends the session, if there was a socket.
LEMMA CloseConnectMoves ==
  ASSUME NEW x, Good(x), Session(x), NEW y, y = CloseConnect(x)
  PROVE  Session(y) /\ Directed(y) /\ Moves(x, y)
  <1>1. CASE x.status \in {"Idel", "Closed"}
    <2>1. y = [x EXCEPT !.timer = FALSE]
      BY <1>1 DEF CloseConnect
    <2>2. /\ SameSocket(x, y) /\ y.handshake = x.handshake /\ y.status = x.status
          /\ y.out = x.out /\ y.server = x.server /\ y.inbox = x.inbox /\ y.shown = x.shown
      BY <2>1, Zenon DEF Good, Conn, SameSocket
    <2>3. y.sock = "none" /\ Session(y)
      BY <1>1, <2>2 DEF Good, Coherent, SameSocket, Session
    <2>4. QED
      BY <2>2, <2>3, StaysOK DEF Directed
  <1>2. CASE x.status \notin {"Idel", "Closed"}
    <2> DEFINE s == [x EXCEPT !.timer = FALSE, !.status = "Closed"]
               z == CloseSocket(s, 0)
    <2>1. y = OnConnectionClosed(z)
      BY <1>2 DEF CloseConnect
    <2>2. s \in Conn
      <3>1. "Closed" \in Statuses
        BY DEF Statuses
      <3>2. QED
        BY <3>1, Zenon DEF Good, Conn
    <2>3. s.pool = x.pool /\ s.net = x.net /\ s.nextToken = x.nextToken
          /\ s.handshake = x.handshake
      BY DEF Good, Conn
    <2>4. InBounds(s.pool)
      BY <2>3, Zenon DEF Good
    <2> HIDE DEF s
    <2>5. Safe(z) /\ z.token = 0 /\ z.net = x.net /\ z.nextToken = x.nextToken
      BY <2>2, <2>3, <2>4, CloseSocketOK
    <2>6. /\ z.handshake = Demote(x.handshake) /\ z.sock = "none" /\ z.out = {}
          /\ z.server = "idle" /\ z.inbox = <<>>
      BY <2>2, <2>3, <2>4, CloseSocketEffect
    <2> HIDE DEF z
    <2>7. z \in Conn
      BY <2>5 DEF Safe, Good
    <2>8. /\ y.handshake = Demote(z.handshake) /\ y.sock = z.sock /\ y.out = z.out
          /\ y.server = z.server /\ y.inbox = z.inbox
      BY <2>1, <2>7, OnConnectionClosedEffect
    <2>9. SameSocket(z, y)
      BY <2>1, <2>7, OnConnectionClosedOK
    <2>10. y.handshake = Demote(x.handshake) /\ y.handshake # "Successed"
      BY <2>6, <2>8, Zenon DEF Demote
    <2>11. Session(y) /\ Directed(y)
      BY <2>6, <2>8, <2>10, SilentOK
    <2>12. x.sock = "none" => x.token = 0 /\ x.handshake # "Successed"
      BY DEF Good, Coherent, Session
    <2>13. x.handshake \in {"Idel", "Ing", "Successed"}
      BY Zenon DEF Good, Conn, Handshakes
    <2>14. Moves(x, y)
      BY <2>5, <2>6, <2>8, <2>9, <2>10, <2>12, <2>13
      DEF Moves, Opens, Closes, SameOpen, SameSocket, Demote
    <2>15. QED
      BY <2>11, <2>14
  <1>3. QED
    BY <1>1, <1>2

\* addAddressAndPort takes the forced or default server out of force.
LEMMA AddClears ==
  ASSUME NEW d \in Pool, NEW a, NEW p, NEW e \in AddAddressAndPort(d, a, p)
  PROVE  e.nio.ip = NoServer
  <1>1. d.nio \in Servers
    BY DEF Pool
  <1>2. [d.nio EXCEPT !.ip = NoServer].ip = NoServer
    BY <1>1 DEF Servers
  <1>3. CASE a \in Known(d)
    <2>1. e = [d EXCEPT !.nio.ip = NoServer, !.ports[a][2] = p]
      BY <1>3 DEF AddAddressAndPort
    <2>2. e.nio = [d.nio EXCEPT !.ip = NoServer]
      BY <2>1 DEF Pool
    <2>3. QED
      BY <1>2, <2>2
  <1>4. CASE a \notin Known(d)
    <2>1. PICK s \in Shuffles(Append(d.addresses, a)) :
             e = [d EXCEPT !.nio.ip = NoServer, !.ports[a] = <<p, 0>>,
                           !.addresses = s, !.addr = 0, !.port = 0]
      BY <1>4, Zenon DEF AddAddressAndPort
    <2>2. e.nio = [d.nio EXCEPT !.ip = NoServer]
      BY <2>1 DEF Pool
    <2>3. QED
      BY <1>2, <2>2
  <1>5. QED
    BY <1>3, <1>4

\* A forced server is the endpoint of the next connection.
LEMMA ForcedEndpoint ==
  ASSUME NEW d \in Pool, d.nio.ip # NoServer
  PROVE  CurrentEndpoint(d) = d.nio
  <1>1. d.nio \in Servers
    BY DEF Pool
  <1>2. CurrentEndpoint(d) = [ip |-> d.nio.ip, port |-> d.nio.port]
    BY DEF CurrentEndpoint, GetCurrentAddress, GetCurrentPort
  <1>3. QED
    BY <1>1, <1>2 DEF Servers

\* connect opens a socket to the endpoint in force, or demotes the session.
LEMMA ConnectMoves ==
  ASSUME NEW x, Good(x), Session(x), Directed(x), NEW opens \in BOOLEAN,
         NEW y, y = Connect(x, opens)
  PROVE  Session(y) /\ Directed(y) /\ Moves(x, y) /\ (x.net => Opens(x, y))
  <1>1. CASE ~x.net
    <2>1. y = OnConnectionClosed(x) /\ x \in Conn
      BY <1>1, Zenon DEF Connect, Good
    <2>2. /\ y.handshake = Demote(x.handshake) /\ y.sock = x.sock /\ y.out = x.out
          /\ y.server = x.server /\ y.inbox = x.inbox /\ y.status = x.status
          /\ y.pool = x.pool /\ y.peer = x.peer
      BY <2>1, OnConnectionClosedEffect
    <2>3. SameSocket(x, y)
      BY <2>1, OnConnectionClosedOK, Zenon
    <2>4. Session(y) /\ Directed(y)
      BY <2>2 DEF Session, Directed, Demote
    <2>5. QED
      BY <1>1, <2>2, <2>3, <2>4 DEF Moves, Demotes, SameOpen, SameSocket
  <1>2. CASE x.net /\ x.status \in {"Connected", "Connecting"}
    <2>1. y = x
      BY <1>2 DEF Connect
    <2>2. QED
      BY <2>1 DEF Moves, Opens, SameOpen
  <1>3. CASE x.net /\ x.status \notin {"Connected", "Connecting"}
    <2> DEFINE fresh == [x EXCEPT !.status = "Connecting", !.timer = FALSE,
                                  !.rest = "none", !.was = FALSE, !.recvd = FALSE,
                                  !.peer = CurrentEndpoint(x.pool)]
               up == [fresh EXCEPT !.sock = "pending"]
    <2>1. y = IF opens THEN up ELSE CloseSocket(fresh, 1)
      BY <1>3 DEF Connect
    <2>2. fresh \in Conn
      <3>1. "Connecting" \in Statuses /\ "none" \in Remainders
        BY DEF Statuses, Remainders
      <3>2. PICK e \in Servers : e = CurrentEndpoint(x.pool)
        BY EndpointOK DEF Good, Conn
      <3>3. [x EXCEPT !.status = "Connecting", !.timer = FALSE,
                      !.rest = "none", !.was = FALSE, !.recvd = FALSE, !.peer = e] \in Conn
        BY <3>1, Zenon DEF Good, Conn
      <3>4. QED
        BY <3>2, <3>3
    <2>3. /\ fresh.pool = x.pool /\ fresh.net = x.net /\ fresh.nextToken = x.nextToken
          /\ fresh.token = x.token /\ fresh.handshake = x.handshake
          /\ fresh.status = "Connecting" /\ fresh.out = x.out /\ fresh.server = x.server
          /\ fresh.inbox = x.inbox /\ fresh.peer = CurrentEndpoint(x.pool)
      BY DEF Good, Conn
    <2>4. x.sock = "none" /\ x.token = 0 /\ x.handshake # "Successed"
      BY <1>3 DEF Good, Coherent, Session
    <2> HIDE DEF fresh
    <2>5. CASE opens
      <3>1. y = up
        BY <2>1, <2>5
      <3>2. /\ y.pool = x.pool /\ y.net = x.net /\ y.nextToken = x.nextToken
            /\ y.token = x.token /\ y.handshake = x.handshake
            /\ y.status = "Connecting" /\ y.out = x.out /\ y.server = x.server
            /\ y.inbox = x.inbox /\ y.peer = CurrentEndpoint(x.pool)
        BY <2>2, <2>3, <3>1, Zenon DEF Conn
      <3>3. Session(y)
        BY <1>3, <2>4, <3>2, Zenon DEF Session
      <3>4. Directed(y)
        BY <3>2, ForcedEndpoint, Zenon DEF Directed, Good, Conn
      <3>5. Moves(x, y) /\ Opens(x, y)
        BY <1>3, <2>4, <3>2 DEF Moves, Opens
      <3>6. QED
        BY <3>3, <3>4, <3>5
    <2>6. CASE ~opens
      <3>1. y = CloseSocket(fresh, 1) /\ InBounds(fresh.pool)
        BY <2>1, <2>3, <2>6 DEF Good
      <3>2. y.token = 0 /\ y.net = fresh.net /\ y.nextToken = fresh.nextToken
        BY <2>2, <3>1, CloseSocketOK
      <3>3. y.handshake = Demote(fresh.handshake) /\ y.sock = "none" /\ Session(y) /\ Directed(y)
        BY <2>2, <3>1, CloseSocketEffect
      <3>4. x.handshake \in {"Idel", "Ing", "Successed"}
        BY Zenon DEF Good, Conn, Handshakes
      <3>5. Moves(x, y) /\ Opens(x, y)
        BY <2>3, <2>4, <3>2, <3>3, <3>4 DEF Moves, Opens, SameOpen, Demote
      <3>6. QED
        BY <3>3, <3>5
    <2>7. QED
      BY <2>5, <2>6
  <1>4. QED
    BY <1>1, <1>2, <1>3, Zenon

\* closeConnect and connect, as onHandshakeResult and beginHandshake call them.
LEMMA ReopenMoves ==
  ASSUME NEW x, Good(x), Session(x), NEW opens \in BOOLEAN,
         NEW y, y = Connect(CloseConnect(x), opens)
  PROVE  Session(y) /\ Directed(y) /\ Moves(x, y)
  <1> DEFINE z == CloseConnect(x)
  <1>1. Good(z)
    BY CloseConnectOK
  <1>2. Session(z) /\ Directed(z) /\ Moves(x, z)
    BY CloseConnectMoves
  <1>3. y = Connect(z, opens)
    OBVIOUS
  <1> HIDE DEF z
  <1>4. Session(y) /\ Directed(y) /\ Moves(z, y)
    BY <1>1, <1>2, <1>3, ConnectMoves
  <1>5. QED
    BY <1>2, <1>4, MovesTrans

\* reconnect() is a move too, and goes to the server in force even if the one the
\* old socket went to was not.
LEMMA ReconnectMoves ==
  ASSUME NEW x, Good(x), Session(x), NEW opens \in BOOLEAN, NEW y, y = Reconnect(x, opens)
  PROVE  Session(y) /\ Directed(y) /\ Moves(x, y)
  <1> DEFINE z == CloseConnect(x)
             w == [z EXCEPT !.status = "Reconnecting"]
  <1>1. Good(z) /\ z.sock = "none" /\ z.token = 0 /\ z.status \notin {"Connecting", "Connected"}
    BY CloseConnectOK
  <1>2. Session(z) /\ Directed(z) /\ Moves(x, z)
    BY CloseConnectMoves
  <1>3. y = Connect(w, opens)
    BY DEF Reconnect
  <1> HIDE DEF z
  <1>4. w \in Conn
    <2>1. "Reconnecting" \in Statuses
      BY DEF Statuses
    <2>2. QED
      BY <1>1, <2>1, ZenonT(30) DEF Good, Conn
  <1>5. /\ SameSocket(z, w) /\ w.pool = z.pool /\ w.status = "Reconnecting"
        /\ w.timer = z.timer /\ w.handshake = z.handshake /\ w.out = z.out
        /\ w.server = z.server /\ w.inbox = z.inbox
    BY <1>1 DEF Good, Conn, SameSocket
  <1> HIDE DEF w
  <1>6. Good(w)
    BY <1>1, <1>4, <1>5, Zenon DEF Good, Coherent, SameSocket
  <1>7. Session(w) /\ Directed(w)
    BY <1>1, <1>2, <1>5 DEF Session, Directed, SameSocket
  <1>8. Moves(x, w)
    BY <1>2, <1>5, StaysOK, MovesTrans
  <1>9. Session(y) /\ Directed(y) /\ Moves(w, y)
    BY <1>3, <1>6, <1>7, ConnectMoves
  <1>10. QED
    BY <1>8, <1>9, MovesTrans

\* sendData of a packet that is not the handshake.
LEMMA SendDataMoves ==
  ASSUME NEW x, Good(x), Session(x), Directed(x), NEW opens \in BOOLEAN,
         NEW rearms \in BOOLEAN, NEW y, y = SendData(x, "data", opens, rearms)
  PROVE  Session(y) /\ Directed(y) /\ Moves(x, y)
  <1>1. CASE x.status \in {"Idel", "Reconnecting", "Closed"}
    <2>1. y = Connect(x, opens)
      BY <1>1 DEF SendData
    <2>2. QED
      BY <2>1, ConnectMoves
  <1>2. CASE x.status \notin {"Idel", "Reconnecting", "Closed"} /\ x.sock = "none"
    <2>1. y = x
      BY <1>2, Zenon DEF SendData
    <2>2. QED
      BY <2>1 DEF Moves, Opens, SameOpen
  <1>3. CASE x.status \notin {"Idel", "Reconnecting", "Closed"} /\ x.sock # "none" /\ rearms
    <2>1. y = [x EXCEPT !.out = x.out \cup {"data"}]
      BY <1>3 DEF SendData
    <2>2. /\ SameSocket(x, y) /\ y.handshake = x.handshake /\ y.status = x.status
          /\ y.out = x.out \cup {"data"} /\ y.server = x.server /\ y.inbox = x.inbox
          /\ y.shown = x.shown /\ y.pool = x.pool /\ y.peer = x.peer
      BY <2>1, Zenon DEF Good, Conn, SameSocket
    <2>3. Session(y) /\ Directed(y)
      BY <2>2 DEF Session, Directed, SameSocket
    <2>4. QED
      BY <2>2, <2>3, StaysOK
  <1>4. CASE x.status \notin {"Idel", "Reconnecting", "Closed"} /\ x.sock # "none" /\ ~rearms
    <2>1. y = CloseSocket(x, 1)
      BY <1>4 DEF SendData
    <2>2. QED
      BY <2>1, CloseSocketMoves
  <1>5. QED
    BY <1>1, <1>2, <1>3, <1>4

\* y is x announced: it got the next token, or lost its socket again.
Announces(x, y) ==
    /\ x.sock # "none" /\ x.token = 0
    /\ y.net = x.net /\ y.nextToken = x.nextToken + 1
    /\ \/ y.token = x.nextToken /\ y.sock # "none" /\ y.handshake = x.handshake
       \/ y.token = 0 /\ y.sock = "none" /\ y.handshake = Demote(x.handshake)

\* The first writable event of a socket queues its handshake packet, once.
LEMMA OnConnectedMoves ==
  ASSUME NEW x, Safe(x), Session(x), Directed(x), x.sock # "none", ~x.sent,
         NEW rearms \in BOOLEAN, NEW y, y = [OnConnected(x, rearms) EXCEPT !.sent = TRUE]
  PROVE  Session(y) /\ Directed(y) /\ Announces(x, y)
  <1> DEFINE up == [x EXCEPT !.status = "Connected", !.token = x.nextToken,
                             !.nextToken = x.nextToken + 1, !.was = TRUE]
             hi == [up EXCEPT !.pinging = TRUE]
             on == OnConnected(x, rearms)
  <1>1. x.status = "Connecting" /\ x.token = 0 /\ x \in Conn /\ InBounds(x.pool)
    BY DEF Safe, Good, Coherent
  <1>2. /\ "handshake" \notin x.out /\ x.server = "idle" /\ NoVerdict(x.inbox)
        /\ x.handshake # "Successed"
    BY <1>1 DEF Session
  <1>3. up \in Conn
    <2>1. "Connected" \in Statuses
      BY DEF Statuses
    <2>2. PICK n \in Nat \ {0}, m \in Nat \ {0} : n = x.nextToken /\ m = x.nextToken + 1
      BY DEF Safe, Good, Conn
    <2>3. [x EXCEPT !.status = "Connected", !.token = n, !.nextToken = m,
                    !.was = TRUE] \in Conn
      BY <2>1, Zenon DEF Safe, Good, Conn
    <2>4. QED
      BY <2>2, <2>3
  <1>4. /\ up.status = "Connected" /\ up.token = x.nextToken /\ up.server = x.server
        /\ up.nextToken = x.nextToken + 1 /\ up.pool = x.pool /\ up.sock = x.sock
        /\ up.net = x.net /\ up.handshake = x.handshake /\ up.out = x.out
        /\ up.inbox = x.inbox /\ up.peer = x.peer
    BY <1>1 DEF Conn
  <1>5. on = IF x.handshake # "Ing" THEN up ELSE SendData(hi, "handshake", TRUE, rearms)
    BY DEF OnConnected
  <1> HIDE DEF up
  <1>6. hi \in Conn
    BY <1>3, Zenon DEF Conn
  <1>7. /\ hi.status = up.status /\ hi.token = up.token /\ hi.nextToken = up.nextToken
        /\ hi.pool = up.pool /\ hi.sock = up.sock /\ hi.net = up.net
        /\ hi.handshake = up.handshake /\ hi.out = up.out /\ hi.server = up.server
        /\ hi.inbox = up.inbox /\ hi.peer = up.peer
    BY <1>3 DEF Conn
  <1> HIDE DEF hi
  <1>8. SendData(hi, "handshake", TRUE, rearms) =
           IF rearms THEN [hi EXCEPT !.out = hi.out \cup {"handshake"}] ELSE CloseSocket(hi, 1)
    BY <1>4, <1>7 DEF SendData
  \* the two ways in which the connection stays
  <1>9. ASSUME y.status = "Connected", y.token = x.nextToken, y.nextToken = x.nextToken + 1,
               y.pool = x.pool, y.sock = x.sock, y.net = x.net, y.handshake = x.handshake,
               y.server = x.server, y.inbox = x.inbox, y.peer = x.peer
        PROVE  Session(y) /\ Directed(y) /\ Announces(x, y)
    BY <1>1, <1>2, <1>9 DEF Session, Directed, Announces
  <1>10. CASE x.handshake # "Ing"
    <2>1. y = [up EXCEPT !.sent = TRUE]
      BY <1>5, <1>10
    <2>2. /\ y.status = up.status /\ y.token = up.token /\ y.nextToken = up.nextToken
          /\ y.pool = up.pool /\ y.sock = up.sock /\ y.net = up.net
          /\ y.handshake = up.handshake /\ y.server = up.server
          /\ y.inbox = up.inbox /\ y.peer = up.peer
      BY <1>3, <2>1 DEF Conn
    <2>3. QED
      BY <1>4, <1>9, <2>2, Zenon
  <1>11. CASE x.handshake = "Ing" /\ rearms
    <2>1. y = [[hi EXCEPT !.out = hi.out \cup {"handshake"}] EXCEPT !.sent = TRUE]
      BY <1>5, <1>8, <1>11, Zenon
    <2>2. /\ y.status = hi.status /\ y.token = hi.token /\ y.nextToken = hi.nextToken
          /\ y.pool = hi.pool /\ y.sock = hi.sock /\ y.net = hi.net
          /\ y.handshake = hi.handshake /\ y.server = hi.server
          /\ y.inbox = hi.inbox /\ y.peer = hi.peer
      BY <1>6, <2>1, Zenon DEF Conn
    <2>3. QED
      BY <1>4, <1>7, <1>9, <2>2, Zenon
  <1>12. CASE x.handshake = "Ing" /\ ~rearms
    <2> DEFINE z == CloseSocket(hi, 1)
    <2>1. y = [z EXCEPT !.sent = TRUE]
      BY <1>5, <1>8, <1>12, Zenon
    <2>2. InBounds(hi.pool)
      BY <1>1, <1>4, <1>7
    <2>3. Safe(z) /\ z.token = 0 /\ z.net = hi.net /\ z.nextToken = hi.nextToken
      BY <1>6, <2>2, CloseSocketOK
    <2>4. /\ z.handshake = Demote(hi.handshake) /\ z.sock = "none" /\ z.out = {}
          /\ z.server = "idle" /\ z.inbox = <<>>
      BY <1>6, <2>2, CloseSocketEffect
    <2> HIDE DEF z
    <2>5. /\ y.handshake = z.handshake /\ y.sock = z.sock /\ y.out = z.out
          /\ y.server = z.server /\ y.inbox = z.inbox /\ y.token = z.token
          /\ y.net = z.net /\ y.nextToken = z.nextToken
      BY <2>1, <2>3 DEF Safe, Good, Conn
    <2>6. Session(y) /\ Directed(y)
      BY <2>4, <2>5, SilentOK, Zenon DEF Demote
    <2>7. Announces(x, y)
      BY <1>1, <1>4, <1>7, <2>3, <2>4, <2>5 DEF Announces
    <2>8. QED
      BY <2>6, <2>7
  <1>13. QED
    BY <1>10, <1>11, <1>12

-----------------------------------------------------------------------------
(* The long link *)

\* TypeOK, without the connection.
Control ==
    /\ uin \in Uins \cup {0}
    /\ tasks \in Seq(Tasks)
    /\ pc \in {"tasks1", "wait", "tasks2", "in", "parse", "out", "hup", "timeout",
               "service", "process", "crashed"}
    /\ ret \in {"tasks1", "tasks2"}
    /\ ready \subseteq {"IN", "OUT", "HUP"}
    /\ buf \in Seq(Packets)
    /\ old \in BOOLEAN
    /\ service \in BOOLEAN

\* While bytes are being parsed nobody can have logged out: the task that does so
\* runs in another phase of the loop.
ParsesLoggedIn == pc = "parse" => uin # 0

Inv == Control /\ Safe(c) /\ LoggedOutIsSilent /\ ParsesLoggedIn

TokenStep ==
    c'.token # c.token =>
        \/ c'.token = 0
        \/ c.token = 0 /\ c'.token >= c.nextToken /\ c'.nextToken > c'.token

-----------------------------------------------------------------------------

\* A task of each kind carries an argument of its kind.
LEMMA TaskArgument ==
  ASSUME NEW t \in Tasks
  PROVE  /\ t[1] = "login" => t[2] \in Uins
         /\ t[1] = "network" => t[2] \in BOOLEAN
         /\ t[1] \in {"addSvr", "setSvr"} => t[2][1] \in Addresses /\ t[2][2] \in Ports
  BY DEF Tasks

\* The part of the invariant that the queue of tasks is involved in.
LEMMA PendingOK ==
  ASSUME NEW op, Control, Pending(op)
  PROVE  /\ tasks' \in Seq(Tasks) /\ Head(tasks) \in Tasks /\ Head(tasks)[1] = op
         /\ pc \in {"tasks1", "tasks2"} /\ Running
  BY DEF Control, Pending, Running

\* Phase names a branch of onEvent or what follows it.
LEMMA PhaseOK ==
  ASSUME NEW bits
  PROVE  Phase(bits) \in {"in", "out", "hup", "timeout"}
  BY DEF Phase

\* A change that leaves the socket, the timer and the session alone.
LEMMA HarmlessOK ==
  ASSUME NEW x, Safe(x), NEW y \in Conn, SameSocket(x, y), y.pool = x.pool,
         y.status = x.status, y.timer = x.timer, IsHandshakeing(y) <=> IsHandshakeing(x)
  PROVE  Safe(y) /\ Follows(x, y)
  <1>1. Coherent(y)
    BY DEF Safe, Good, Coherent, SameSocket
  <1>2. QED
    BY <1>1 DEF Safe, Good, SameSocket, Stranded, Follows

\* What remains to be shown of a step that establishes no connection and leaves
\* the account alone.
LEMMA ConcludeOK ==
  ASSUME Inv, Running, Control', uin' = uin, Safe(c'), Follows(c, c'),
         uin = 0 /\ pc' # "crashed" => c'.sock = "none",
         pc' = "parse" => uin # 0
  PROVE  Inv' /\ TokenStep
  <1>1. LoggedOutIsSilent'
    BY DEF Inv, LoggedOutIsSilent, Running, Follows, IsHandshakeing
  <1>2. TokenStep
    BY DEF Follows, TokenStep
  <1>3. QED
    BY <1>1, <1>2 DEF Inv, ParsesLoggedIn

\* ... and of one that does not touch the connection at all.
LEMMA IdleOK ==
  ASSUME Inv, Running, Control', uin' = uin, c' = c, pc' = "parse" => uin # 0
  PROVE  Inv' /\ TokenStep
  <1>1. Safe(c') /\ Follows(c, c')
    BY DEF Inv, Follows
  <1>2. uin = 0 => c'.sock = "none"
    BY DEF Inv, LoggedOutIsSilent
  <1>3. QED
    BY <1>1, <1>2, ConcludeOK

-----------------------------------------------------------------------------
(* Java threads *)

\* scheduleTask keeps the invariant: it only appends.
LEMMA ScheduleTaskOK ==
  ASSUME Control, NEW t \in Tasks, ScheduleTask(t)
  PROVE  tasks' \in Seq(Tasks) /\ Running
  BY DEF ScheduleTask, Control

\* So does every call of the Java side.
LEMMA JavaCallsOK ==
  ASSUME Inv, JavaCalls
  PROVE  Inv' /\ TokenStep
  <1> USE DEF Inv
  <1>1. ASSUME tasks' \in Seq(Tasks), Running, service' \in BOOLEAN, UNCHANGED <<c, uin, loop>>
        PROVE  Inv' /\ TokenStep
    <2>1. Control'
      BY <1>1 DEF Control, loop
    <2>2. QED
      BY <1>1, <2>1, IdleOK DEF loop, ParsesLoggedIn
  <1>2. ASSUME NEW u \in Uins, JavaStart(u) PROVE Inv' /\ TokenStep
    <2>1. <<"login", u>> \in Tasks
      BY DEF Tasks
    <2>2. tasks' \in Seq(Tasks) /\ Running
      BY <1>2, <2>1, ScheduleTaskOK DEF JavaStart, Control
    <2>3. QED
      BY <1>1, <1>2, <2>2 DEF JavaStart
  <1>3. CASE JavaDestroy
    <2>1. <<"logout", 0>> \in Tasks
      BY DEF Tasks
    <2>2. QED
      BY <1>1, <1>3, <2>1, ScheduleTaskOK, Zenon DEF JavaDestroy
  <1>4. ASSUME NEW available \in BOOLEAN, JavaNetwork(available) PROVE Inv' /\ TokenStep
    <2>1. <<"network", available>> \in Tasks
      BY DEF Tasks
    <2>2. QED
      BY <1>1, <1>4, <2>1, ScheduleTaskOK DEF JavaNetwork, Control
  <1>5. CASE JavaScreenOn
    <2>1. <<"screenOn", 0>> \in Tasks
      BY DEF Tasks
    <2>2. QED
      BY <1>1, <1>5, <2>1, ScheduleTaskOK DEF JavaScreenOn, Control
  <1>6. ASSUME NEW call \in {"addSvr", "setSvr"}, NEW a \in Addresses, NEW p \in Ports,
               JavaServer(call, a, p)
        PROVE  Inv' /\ TokenStep
    <2>1. <<call, <<a, p>> >> \in Tasks
      BY DEF Tasks
    <2>2. QED
      BY <1>1, <1>6, <2>1, ScheduleTaskOK DEF JavaServer, Control
  <1>7. CASE JavaRequest
    <2>1. <<"request", 0>> \in Tasks
      BY DEF Tasks
    <2>2. QED
      BY <1>1, <1>7, <2>1, ScheduleTaskOK DEF JavaRequest, Control
  <1>8. QED
    BY <1>2, <1>3, <1>4, <1>5, <1>6, <1>7 DEF JavaCalls

-----------------------------------------------------------------------------
(* Tasks *)

\* A task that uses the connection without a test runs only while a session was
\* begun, hence while logged in; otherwise the process ends.
LEMMA WithConnectionOK ==
  ASSUME Inv, Running, NEW after, NEW next, WithConnection(after, next),
         IsHandshakeing(c) => Safe(after) /\ Follows(c, after),
         Control', uin' = uin, next # "parse"
  PROVE  Inv' /\ TokenStep
  <1>1. CASE IsHandshakeing(c)
    <2>1. c' = after /\ pc' = next /\ uin # 0
      BY <1>1 DEF WithConnection, Inv, LoggedOutIsSilent, IsHandshakeing
    <2>2. QED
      BY <1>1, <2>1, ConcludeOK
  <1>2. CASE ~IsHandshakeing(c)
    BY <1>2, IdleOK DEF WithConnection
  <1>3. QED
    BY <1>1, <1>2

\* The task of setUin keeps the invariant.
LEMMA LoginTaskOK ==
  ASSUME Inv, LoginTask
  PROVE  Inv' /\ TokenStep
  <1>1. /\ tasks' \in Seq(Tasks) /\ Head(tasks) \in Tasks /\ Head(tasks)[1] = "login"
        /\ pc \in {"tasks1", "tasks2"} /\ Running
    BY PendingOK DEF Inv, LoginTask
  <1>2. uin' \in Uins /\ uin' # 0
    BY <1>1, TaskArgument, LongLinkAssumption DEF LoginTask, Argument
  <1>3. Control'
    BY <1>1, <1>2 DEF Inv, Control, LoginTask, loop
  <1>4. c' = c /\ pc' = pc
    BY DEF LoginTask, loop
  <1>5. Safe(c') /\ LoggedOutIsSilent' /\ ParsesLoggedIn' /\ TokenStep
    BY <1>2, <1>4 DEF Inv, LoggedOutIsSilent, ParsesLoggedIn, TokenStep
  <1>6. QED
    BY <1>3, <1>5 DEF Inv

\* The task of clearUp closes the connection and leaves nothing that reopens it.
LEMMA LogoutTaskOK ==
  ASSUME Inv, LogoutTask
  PROVE  Inv' /\ TokenStep
  <1>1. tasks' \in Seq(Tasks) /\ pc \in {"tasks1", "tasks2"} /\ Running
    BY PendingOK DEF Inv, LogoutTask
  <1>2. uin' = 0
    BY DEF LogoutTask
  <1>3. Control'
    BY <1>1, <1>2 DEF Inv, Control, LogoutTask, WithConnection
  <1>4. CASE IsHandshakeing(c)
    <2> DEFINE z == CloseConnect(c)
    <2>1. c' = [z EXCEPT !.handshake = "Idel"] /\ pc' = pc
      BY <1>4 DEF LogoutTask, WithConnection
    <2>2. Good(z) /\ Follows(c, z) /\ z.sock = "none" /\ z.token = 0
      BY CloseConnectOK DEF Inv, Safe
    <2> HIDE DEF z
    <2>3. c' \in Conn
      <3>1. "Idel" \in Handshakes
        BY DEF Handshakes
      <3>2. QED
        BY <2>1, <2>2, <3>1 DEF Good, Conn
    <2>4. SameSocket(z, c') /\ c'.pool = z.pool /\ c'.status = z.status
          /\ c'.timer = z.timer /\ c'.handshake = "Idel"
      BY <2>1, <2>2 DEF Good, Conn, SameSocket
    <2>5. Safe(c')
      BY <2>2, <2>3, <2>4 DEF Safe, Good, Coherent, SameSocket, Stranded, IsHandshakeing
    <2>6. LoggedOutIsSilent' /\ ParsesLoggedIn' /\ TokenStep
      BY <1>1, <2>1, <2>2, <2>4 DEF LoggedOutIsSilent, SameSocket, ParsesLoggedIn, TokenStep
    <2>7. QED
      BY <1>3, <2>5, <2>6 DEF Inv
  <1>5. CASE ~IsHandshakeing(c)
    <2>1. c' = c /\ pc' = "crashed"
      BY <1>5 DEF LogoutTask, WithConnection
    <2>2. Safe(c') /\ LoggedOutIsSilent' /\ ParsesLoggedIn' /\ TokenStep
      BY <2>1 DEF Inv, LoggedOutIsSilent, Running, ParsesLoggedIn, TokenStep
    <2>3. QED
      BY <1>3, <2>2 DEF Inv
  <1>6. QED
    BY <1>4, <1>5

\* The step that clears or sets networkAvailable: without the connect of
\* setNetworkAvailable a client that lost its socket would be stranded.
LEMMA NetworkTaskOK ==
  ASSUME Inv, NEW opens \in BOOLEAN, NetworkTask(opens)
  PROVE  Inv' /\ TokenStep
  <1>1. /\ tasks' \in Seq(Tasks) /\ Head(tasks) \in Tasks /\ Head(tasks)[1] = "network"
        /\ pc \in {"tasks1", "tasks2"} /\ Running
    BY PendingOK DEF Inv, NetworkTask
  <1>2. PICK n \in BOOLEAN : n = Argument
    BY <1>1, TaskArgument DEF Argument
  <1> DEFINE told == [c EXCEPT !.net = n]
  <1>3. c' = IF ~n THEN [told EXCEPT !.shown = "Waiting"]
             ELSE IF IsHandshakeing(c) /\ uin # 0 THEN Connect(told, opens) ELSE told
    BY <1>2 DEF NetworkTask
  <1>4. uin' = uin /\ pc' = pc
    BY DEF NetworkTask, loop
  <1>5. Control'
    BY <1>1 DEF Inv, Control, NetworkTask, loop
  <1>6. told \in Conn
    BY DEF Inv, Safe, Good, Conn
  <1>7. /\ told.net = n /\ told.pool = c.pool /\ told.status = c.status
        /\ told.timer = c.timer /\ told.handshake = c.handshake /\ told.sock = c.sock
        /\ told.token = c.token /\ told.nextToken = c.nextToken /\ told.sent = c.sent
    BY DEF Inv, Safe, Good, Conn
  <1> HIDE DEF told
  <1>8. Good(told)
    BY <1>6, <1>7 DEF Inv, Safe, Good, Coherent
  <1>9. ASSUME Safe(c'), c'.token \in {c.token, 0}, IsHandshakeing(c') <=> IsHandshakeing(c),
               uin = 0 => c'.sock = c.sock
        PROVE  Inv' /\ TokenStep
    <2>1. LoggedOutIsSilent'
      BY <1>1, <1>4, <1>9 DEF Inv, LoggedOutIsSilent, Running, IsHandshakeing
    <2>2. ParsesLoggedIn' /\ TokenStep
      BY <1>1, <1>4, <1>9 DEF ParsesLoggedIn, TokenStep
    <2>3. QED
      BY <1>5, <1>9, <2>1, <2>2 DEF Inv
  <1>10. CASE ~n
    <2>1. c' = [told EXCEPT !.shown = "Waiting"]
      BY <1>3, <1>10
    <2>2. c' \in Conn
      <3>1. "Waiting" \in Shown
        BY DEF Shown
      <3>2. QED
        BY <1>6, <2>1, <3>1 DEF Conn
    <2>3. SameSocket(told, c') /\ c'.pool = told.pool /\ c'.status = told.status
          /\ c'.timer = told.timer /\ c'.handshake = told.handshake
      BY <1>6, <2>1 DEF Conn, SameSocket
    <2>4. ~Stranded(told)
      BY <1>7, <1>10 DEF Stranded
    <2>5. Safe(c')
      BY <1>8, <2>2, <2>3, <2>4, HarmlessOK DEF Safe, IsHandshakeing
    <2>6. QED
      BY <1>7, <1>9, <2>3, <2>5 DEF SameSocket, IsHandshakeing
  <1>11. CASE n /\ IsHandshakeing(c) /\ uin # 0
    <2>1. c' = Connect(told, opens)
      BY <1>3, <1>11
    <2>2. Safe(c') /\ Follows(told, c')
      BY <1>8, <2>1, ConnectOK
    <2>3. QED
      BY <1>7, <1>9, <1>11, <2>2 DEF Follows, IsHandshakeing
  <1>12. CASE n /\ ~(IsHandshakeing(c) /\ uin # 0)
    <2>1. c' = told
      BY <1>3, <1>12
    <2>2. ~IsHandshakeing(c)
      BY <1>1, <1>12 DEF Inv, LoggedOutIsSilent, IsHandshakeing
    <2>3. Safe(c')
      BY <1>7, <1>8, <2>1, <2>2 DEF Safe, Stranded, IsHandshakeing
    <2>4. QED
      BY <1>7, <1>9, <2>1, <2>3 DEF IsHandshakeing
  <1>13. QED
    BY <1>10, <1>11, <1>12

\* The task of resumeNetwork keeps the invariant.
LEMMA ScreenOnTaskOK ==
  ASSUME Inv, ScreenOnTask
  PROVE  Inv' /\ TokenStep
  <1>1. tasks' \in Seq(Tasks) /\ pc \in {"tasks1", "tasks2"} /\ Running
    BY PendingOK DEF Inv, ScreenOnTask
  <1>2. Control'
    BY <1>1 DEF Inv, Control, ScreenOnTask, WithConnection
  <1>3. Safe(c) /\ Follows(c, c)
    BY DEF Inv, Follows
  <1>4. QED
    BY <1>1, <1>2, <1>3, WithConnectionOK DEF ScreenOnTask

\* The task of applySvrAddr keeps the indices in the list.
LEMMA AddSvrTaskOK ==
  ASSUME Inv, AddSvrTask
  PROVE  Inv' /\ TokenStep
  <1>1. /\ tasks' \in Seq(Tasks) /\ Head(tasks) \in Tasks /\ Head(tasks)[1] = "addSvr"
        /\ pc \in {"tasks1", "tasks2"} /\ Running
    BY PendingOK DEF Inv, AddSvrTask
  <1>2. Argument[1] \in Addresses /\ Argument[2] \in Ports
    BY <1>1, TaskArgument DEF Argument
  <1>3. PICK d \in AddAddressAndPort(c.pool, Argument[1], Argument[2]) : c' = [c EXCEPT !.pool = d]
    BY DEF AddSvrTask
  <1>4. d \in Pool /\ InBounds(d)
    BY <1>2, AddOK DEF Inv, Safe, Good, Conn
  <1>5. c' \in Conn
    BY <1>3, <1>4 DEF Inv, Safe, Good, Conn
  <1>6. SameSocket(c, c') /\ c'.pool = d /\ c'.status = c.status
        /\ c'.timer = c.timer /\ c'.handshake = c.handshake
    BY <1>3 DEF Inv, Safe, Good, Conn, SameSocket
  <1>7. Safe(c') /\ Follows(c, c') /\ c'.sock = c.sock
    BY <1>4, <1>5, <1>6
    DEF Inv, Safe, Good, Coherent, Stranded, Follows, SameSocket, IsHandshakeing
  <1>8. Control' /\ uin' = uin /\ pc' = pc
    BY <1>1 DEF Inv, Control, AddSvrTask, loop
  <1>9. QED
    BY <1>1, <1>7, <1>8, ConcludeOK DEF Inv, LoggedOutIsSilent

\* The task of setAddressAndPort, with its reconnection, keeps the invariant.
LEMMA SetSvrTaskOK ==
  ASSUME Inv, NEW opens \in BOOLEAN, SetSvrTask(opens)
  PROVE  Inv' /\ TokenStep
  <1> DEFINE a == Argument[1]
             p == Argument[2]
             forced == [c EXCEPT !.pool = ForceAddressAndPort(c.pool, a, p)]
  <1>1. /\ tasks' \in Seq(Tasks) /\ Head(tasks) \in Tasks /\ Head(tasks)[1] = "setSvr"
        /\ pc \in {"tasks1", "tasks2"} /\ Running
    BY PendingOK DEF Inv, SetSvrTask
  <1>2. a \in Addresses /\ p \in Ports
    BY <1>1, TaskArgument DEF Argument
  <1>3. WithConnection(Reconnect(forced, opens), pc)
    BY DEF SetSvrTask
  <1> HIDE DEF a, p
  <1>4. PICK d \in Pool : d = ForceAddressAndPort(c.pool, a, p) /\ InBounds(d)
    BY <1>2, ForceOK DEF Inv, Safe, Good, Conn
  <1>5. forced = [c EXCEPT !.pool = d]
    BY <1>4
  <1> HIDE DEF forced
  <1>6. forced \in Conn
    BY <1>5 DEF Inv, Safe, Good, Conn
  <1>7. SameSocket(c, forced) /\ forced.pool = d /\ forced.status = c.status
        /\ forced.timer = c.timer /\ forced.handshake = c.handshake
    BY <1>5, Zenon DEF Inv, Safe, Good, Conn, SameSocket
  <1>8. Good(forced) /\ Follows(c, forced)
    BY <1>4, <1>6, <1>7 DEF Inv, Safe, Good, Coherent, Follows, SameSocket, IsHandshakeing
  <1>9. Safe(Reconnect(forced, opens)) /\ Follows(c, Reconnect(forced, opens))
    BY <1>8, ReconnectOK, FollowsTrans
  <1>10. Control' /\ uin' = uin
    BY <1>1 DEF Inv, Control, SetSvrTask, WithConnection
  <1>11. QED
    BY <1>1, <1>3, <1>9, <1>10, WithConnectionOK

\* The task of senRequest, which connects or sends, keeps the invariant.
LEMMA RequestTaskOK ==
  ASSUME Inv, RequestTask
  PROVE  Inv' /\ TokenStep
  <1>1. tasks' \in Seq(Tasks) /\ pc \in {"tasks1", "tasks2"} /\ Running
    BY PendingOK DEF Inv, RequestTask
  <1>2. Control'
    BY <1>1 DEF Inv, Control, RequestTask
  <1>3. QED
    BY <1>1, <1>2, IdleOK DEF RequestTask

\* processRequestQueue: getConnection answers only while a session was begun.
LEMMA ProcessOK ==
  ASSUME Inv, NEW opens \in BOOLEAN, NEW rearms \in BOOLEAN, NEW resetPing \in BOOLEAN,
         ProcessConnect(opens) \/ ProcessSend(opens, rearms, resetPing) \/ ProcessNothing
  PROVE  Inv' /\ TokenStep
  <1>1. Running /\ uin' = uin /\ Control' /\ pc' # "parse"
    BY DEF Inv, Control, Running, ProcessConnect, ProcessSend, ProcessNothing, loop
  <1>2. CASE ProcessNothing
    BY <1>1, <1>2, IdleOK DEF ProcessNothing
  <1>3. ASSUME IsHandshakeing(c) PROVE uin # 0
    BY <1>1, <1>3 DEF Inv, LoggedOutIsSilent, IsHandshakeing
  <1>4. CASE ProcessConnect(opens)
    <2>1. Safe(c') /\ Follows(c, c')
      BY <1>4, ConnectOK DEF ProcessConnect, Inv, Safe
    <2>2. QED
      BY <1>1, <1>3, <1>4, <2>1, ConcludeOK DEF ProcessConnect
  <1>5. CASE ProcessSend(opens, rearms, resetPing)
    <2> DEFINE z == Connect(c, opens)
               s == SendData(z, "data", opens, rearms)
    <2>1. Safe(z) /\ Follows(c, z)
      BY ConnectOK DEF Inv, Safe
    <2> HIDE DEF z
    <2>2. Safe(s) /\ Follows(z, s)
      BY <2>1, SendDataOK DEF Outgoing
    <2>3. PICK b \in BOOLEAN : b = (s.pinging \/ resetPing)
      BY Zenon
    <2>4. c' = [s EXCEPT !.pinging = b]
      BY <1>5, <2>3 DEF ProcessSend, z
    <2> HIDE DEF s
    <2>5. c' \in Conn
      BY <2>2, <2>4 DEF Safe, Good, Conn
    <2>6. SameSocket(s, c') /\ c'.pool = s.pool /\ c'.status = s.status
          /\ c'.timer = s.timer /\ c'.handshake = s.handshake
      BY <2>2, <2>4 DEF Safe, Good, Conn, SameSocket
    <2>7. Safe(c') /\ Follows(s, c')
      BY <2>2, <2>5, <2>6, HarmlessOK DEF IsHandshakeing
    <2>8. Follows(c, c')
      BY <2>1, <2>2, <2>7, FollowsTrans
    <2>9. QED
      BY <1>1, <1>3, <1>5, <2>7, <2>8, ConcludeOK DEF ProcessSend
  <1>6. QED
    BY <1>2, <1>4, <1>5

-----------------------------------------------------------------------------
(* select *)

\* The reconnect timer fires only with an account and reconnects.
LEMMA CallEventsOK ==
  ASSUME Inv, NEW opens \in BOOLEAN, CallEvents(opens)
  PROVE  Inv' /\ TokenStep
  <1>1. Running /\ uin' = uin /\ Control' /\ pc' # "parse"
    BY PhaseOK DEF Inv, Control, Running, CallEvents
  <1>2. CASE uin # 0 /\ c.timer
    <2> DEFINE off == [c EXCEPT !.timer = FALSE]
    <2>1. c' = Connect(off, opens)
      BY <1>2 DEF CallEvents
    <2>2. off \in Conn
      BY Zenon DEF Inv, Safe, Good, Conn
    <2>3. SameSocket(c, off) /\ off.pool = c.pool /\ off.status = c.status
          /\ off.timer = FALSE /\ off.handshake = c.handshake
      BY DEF Inv, Safe, Good, Conn, SameSocket
    <2> HIDE DEF off
    <2>4. Good(off) /\ Follows(c, off)
      BY <2>2, <2>3 DEF Inv, Safe, Good, Coherent, Follows, SameSocket, IsHandshakeing
    <2>5. Safe(c') /\ Follows(c, c')
      BY <2>1, <2>4, ConnectOK, FollowsTrans
    <2>6. QED
      BY <1>1, <1>2, <2>5, ConcludeOK
  <1>3. CASE ~(uin # 0 /\ c.timer)
    BY <1>1, <1>3, IdleOK DEF CallEvents
  <1>4. QED
    BY <1>2, <1>3

\* epoll_wait hands over events and changes nothing else.
LEMMA EpollWaitOK ==
  ASSUME Inv, EpollWait
  PROVE  Inv' /\ TokenStep
  <1>1. ReadyBits \subseteq {"IN", "OUT", "HUP"}
    BY DEF ReadyBits
  <1>2. Running /\ Control' /\ uin' = uin /\ c' = c /\ pc' # "parse"
    BY <1>1 DEF Inv, Control, Running, EpollWait
  <1>3. QED
    BY <1>2, IdleOK

\* closeSocket and the return from onEvent keep the invariant.
LEMMA CloseAndReturnOK ==
  ASSUME Inv, Running, NEW r, CloseAndReturn(r)
  PROVE  Inv' /\ TokenStep
  <1>1. uin' = uin /\ Control' /\ pc' # "parse"
    BY DEF Inv, Control, CloseAndReturn
  <1>2. /\ Safe(c') /\ c'.sock = "none" /\ c'.token = 0
        /\ c'.net = c.net /\ c'.nextToken = c.nextToken
        /\ IsHandshakeing(c') <=> IsHandshakeing(c)
    BY CloseSocketOK DEF CloseAndReturn, Inv, Safe, Good
  <1>3. QED
    BY <1>1, <1>2, ConcludeOK DEF Follows

\* Every branch of onEvent that closes the socket keeps the invariant.
LEMMA ClosesOK ==
  ASSUME Inv, ReadError \/ RecvFails \/ WriteError \/ Hangup
  PROVE  Inv' /\ TokenStep
  BY CloseAndReturnOK DEF ReadError, RecvFails, WriteError, Hangup, Running

\* recv and the first part of onRecvData keep the invariant.
LEMMA RecvOK ==
  ASSUME Inv, Recv
  PROVE  Inv' /\ TokenStep
  <1>1. c.inbox \in Seq(Packets) /\ c.inbox # <<>>
    BY DEF Recv, Inv, Safe, Good, Conn
  <1>2. buf' \in Seq(Packets)
    <2>1. PICK first \in IF c.rest = "stale" THEN {"bad", "other"} ELSE {Head(c.inbox)} :
             buf' = <<first>> \o Tail(c.inbox)
      BY Zenon DEF Recv
    <2>2. first \in Packets /\ Tail(c.inbox) \in Seq(Packets)
      BY <1>1, <2>1 DEF Packets
    <2>3. QED
      BY <2>1, <2>2
  <1>3. Running /\ uin' = uin /\ Control'
    BY <1>2, Zenon DEF Inv, Control, Running, Recv
  <1>4. uin # 0
    BY <1>3 DEF Inv, LoggedOutIsSilent, Recv
  <1>5. c' = [c EXCEPT !.inbox = <<>>, !.failed = 0, !.rest = "none"]
    BY DEF Recv
  <1>6. c' \in Conn
    <2>1. <<>> \in Seq(Packets) /\ "none" \in Remainders
      BY DEF Remainders
    <2>2. QED
      BY <1>5, <2>1, Cap, Zenon DEF Inv, Safe, Good, Conn
  <1>7. SameSocket(c, c') /\ c'.pool = c.pool /\ c'.status = c.status
        /\ c'.timer = c.timer /\ c'.handshake = c.handshake
    BY <1>5 DEF Inv, Safe, Good, Conn, SameSocket
  <1>8. Safe(c') /\ Follows(c, c')
    BY <1>6, <1>7, HarmlessOK DEF Inv, IsHandshakeing
  <1>9. QED
    BY <1>3, <1>4, <1>8, ConcludeOK

\* A recv without data keeps the invariant.
LEMMA RecvNothingOK ==
  ASSUME Inv, RecvNothing
  PROVE  Inv' /\ TokenStep
  <1>1. Running /\ Control' /\ uin' = uin /\ c' = c /\ pc' # "parse"
    BY PhaseOK DEF Inv, Control, Running, RecvNothing
  <1>2. QED
    BY <1>1, IdleOK

\* The head of the parse loop changes nothing that matters here.
LEMMA HeardOK ==
  ASSUME Inv
  PROVE  Safe(Heard) /\ Follows(c, Heard)
  <1>1. Heard \in Conn
    BY Zenon DEF Heard, Inv, Safe, Good, Conn
  <1>2. SameSocket(c, Heard) /\ Heard.pool = c.pool /\ Heard.status = c.status
        /\ Heard.timer = c.timer /\ Heard.handshake = c.handshake
    BY DEF Heard, Inv, Safe, Good, Conn, SameSocket
  <1>3. QED
    BY <1>1, <1>2, HarmlessOK DEF Inv, IsHandshakeing

\* ... and neither does showing the application that it is connected.
LEMMA HeardShownOK ==
  ASSUME Inv, NEW y, y = [Heard EXCEPT !.shown = "Connected"]
  PROVE  Safe(y) /\ Follows(c, y) /\ y.handshake = Heard.handshake
  <1> DEFINE h == Heard
  <1>1. Safe(h) /\ Follows(c, h)
    BY HeardOK
  <1>2. y = [h EXCEPT !.shown = "Connected"]
    OBVIOUS
  <1> HIDE DEF h
  <1>3. y \in Conn
    <2>1. "Connected" \in Shown
      BY DEF Shown
    <2>2. QED
      BY <1>1, <1>2, <2>1, ZenonT(30) DEF Safe, Good, Conn
  <1>4. SameSocket(h, y) /\ y.pool = h.pool /\ y.status = h.status
        /\ y.timer = h.timer /\ y.handshake = h.handshake
    BY <1>1, <1>2 DEF Safe, Good, Conn, SameSocket
  <1>5. Safe(y) /\ Follows(h, y)
    BY <1>1, <1>3, <1>4, HarmlessOK, Zenon DEF IsHandshakeing
  <1>6. QED
    BY <1>1, <1>4, <1>5, FollowsTrans DEF h

\* The body of the parse loop, packet by packet.
LEMMA ParseOK ==
  ASSUME Inv, NEW opens \in BOOLEAN,
         ParsePartial \/ ParseBad(opens) \/ ParseOther \/ ParseAccept \/ ParseReject(opens)
  PROVE  Inv' /\ TokenStep
  <1> DEFINE shown == [Heard EXCEPT !.shown = "Connected"]
  <1>1. pc = "parse" /\ uin' = uin /\ pc' = pc /\ buf # <<>>
        /\ UNCHANGED <<tasks, ret, ready, service>>
    BY Zenon DEF ParsePartial, ParseBad, ParseOther, ParseAccept, ParseReject, Parsing
  <1>2. uin # 0 /\ Running
    BY <1>1 DEF Inv, ParsesLoggedIn, Running
  <1>3. buf' \in Seq(Packets) /\ old' \in BOOLEAN
    <2>1. buf' = <<>> \/ buf' = Tail(buf)
      BY Zenon DEF ParsePartial, ParseBad, ParseOther, ParseAccept, ParseReject
    <2>2. old' = old \/ old' = TRUE
      BY Zenon DEF ParsePartial, ParseBad, ParseOther, ParseAccept, ParseReject
    <2>3. buf \in Seq(Packets) /\ old \in BOOLEAN
      BY DEF Inv, Control
    <2>4. buf' \in Seq(Packets)
      <3>1. <<>> \in Seq(Packets) /\ Tail(buf) \in Seq(Packets)
        BY <1>1, <2>3
      <3>2. QED
        BY <2>1, <3>1, Zenon
    <2>5. old' \in BOOLEAN
      BY <2>2, <2>3, Zenon
    <2>6. QED
      BY <2>4, <2>5
  <1>4. Control'
    BY <1>1, <1>3 DEF Inv, Control
  <1>5. Safe(Heard) /\ Follows(c, Heard)
    BY HeardOK
  <1>6. Safe(shown) /\ Follows(c, shown) /\ shown.handshake = Heard.handshake
    BY HeardShownOK
  <1>7. ASSUME Safe(c'), Follows(c, c') PROVE Inv' /\ TokenStep
    BY <1>2, <1>4, <1>1, <1>7, ConcludeOK
  <1>8. CASE ParsePartial
    <2> DEFINE h == Heard
    <2>1. PICK r \in Remainders : r = IF old THEN "stale" ELSE "own"
      BY DEF Remainders
    <2>2. c' = [h EXCEPT !.rest = r]
      BY <1>8, <2>1 DEF ParsePartial
    <2>3. Safe(h) /\ Follows(c, h)
      BY <1>5
    <2> HIDE DEF h
    <2>4. c' \in Conn
      BY <2>2, <2>3 DEF Safe, Good, Conn
    <2>5. SameSocket(h, c') /\ c'.pool = h.pool /\ c'.status = h.status
          /\ c'.timer = h.timer /\ c'.handshake = h.handshake
      BY <2>2, <2>3 DEF Safe, Good, Conn, SameSocket
    <2>6. Safe(c') /\ Follows(h, c')
      BY <2>3, <2>4, <2>5, HarmlessOK DEF IsHandshakeing
    <2>7. QED
      BY <1>7, <2>3, <2>6, FollowsTrans
  <1>9. CASE ParseBad(opens)
    <2>1. c' = Reconnect(Heard, opens)
      BY <1>9 DEF ParseBad
    <2>2. Safe(c') /\ Follows(Heard, c')
      BY <1>5, <2>1, ReconnectOK DEF Safe
    <2>3. QED
      BY <1>5, <1>7, <2>2, FollowsTrans
  <1>10. CASE ParseOther
    BY <1>6, <1>7, <1>10 DEF ParseOther
  <1>11. CASE ParseAccept
    <2>1. c' = [shown EXCEPT !.handshake = "Successed", !.server = "accepted"]
      BY <1>11 DEF ParseAccept, OnHandshakeResult
    <2>2. IsHandshakeing(shown)
      <3>1. Heard.handshake = c.handshake
        BY DEF Heard, Inv, Safe, Good, Conn
      <3>2. QED
        BY <1>6, <1>11, <3>1 DEF ParseAccept, IsHandshakeing
    <2> HIDE DEF shown
    <2>3. c' \in Conn
      <3>1. "Successed" \in Handshakes /\ "accepted" \in Progress
        BY DEF Handshakes, Progress
      <3>2. QED
        BY <1>6, <2>1, <3>1, Zenon DEF Safe, Good, Conn
    <2>4. SameSocket(shown, c') /\ c'.pool = shown.pool /\ c'.status = shown.status
          /\ c'.timer = shown.timer /\ IsHandshakeing(c')
      BY <1>6, <2>1, Zenon DEF Safe, Good, Conn, SameSocket, IsHandshakeing
    <2>5. Safe(c') /\ Follows(shown, c')
      BY <1>6, <2>2, <2>3, <2>4, HarmlessOK
    <2>6. QED
      BY <1>6, <1>7, <2>5, FollowsTrans
  <1>12. CASE ParseReject(opens)
    <2>1. c' = Connect(CloseConnect(shown), opens)
      BY <1>12, Zenon DEF ParseReject, OnHandshakeResult
    <2> HIDE DEF shown
    <2>2. Safe(c') /\ Follows(shown, c')
      BY <1>6, <2>1, ReopenOK DEF Safe
    <2>3. QED
      BY <1>6, <1>7, <2>2, FollowsTrans
  <1>13. QED
    BY <1>8, <1>9, <1>10, <1>11, <1>12

\* The end of the parse loop keeps the invariant.
LEMMA ParseDoneOK ==
  ASSUME Inv, ParseDone
  PROVE  Inv' /\ TokenStep
  <1>1. Running /\ Control' /\ uin' = uin /\ c' = c /\ pc' # "parse"
    BY PhaseOK, Zenon DEF Inv, Control, Running, ParseDone
  <1>2. QED
    BY <1>1, IdleOK

\* The two writes: the first one of a socket announces the connection.
LEMMA AnnouncedOK ==
  ASSUME Inv, c.sock # "none", NEW rearms \in BOOLEAN, NEW a, a = Announced(rearms)
  PROVE  /\ Safe(a) /\ a.net = c.net /\ (IsHandshakeing(a) <=> IsHandshakeing(c))
         /\ a.nextToken >= c.nextToken
         /\ \/ a.token \in {c.token, 0}
            \/ c.token = 0 /\ a.token >= c.nextToken /\ a.nextToken > a.token
  <1>1. c.nextToken \in Nat /\ c.token \in Nat
    BY DEF Inv, Safe, Good, Conn
  <1>2. CASE c.sent
    BY <1>1, <1>2 DEF Announced, Inv
  <1>3. CASE ~c.sent
    <2>1. a = [OnConnected(c, rearms) EXCEPT !.sent = TRUE]
      BY <1>3 DEF Announced
    <2>2. Safe(c) /\ uin \in Uins \cup {0}
      BY DEF Inv, Control
    <2>3. GetsToken(c, a)
      BY <1>3, <2>1, <2>2, OnConnectedOK, Zenon
    <2>4. QED
      BY <1>1, <2>3 DEF GetsToken
  <1>4. QED
    BY <1>2, <1>3

\* send() keeps the invariant.
LEMMA WriteSomeOK ==
  ASSUME Inv, NEW rearms \in BOOLEAN, NEW left \in SUBSET {"handshake", "data"},
         WriteSome(rearms, left)
  PROVE  Inv' /\ TokenStep
  <1> DEFINE a == Announced(rearms)
  <1>1. pc = "out" /\ c.sock # "none" /\ uin' = uin /\ pc' # "parse"
    BY PhaseOK DEF WriteSome, SocketError
  <1>2. Running /\ uin # 0
    BY <1>1 DEF Inv, LoggedOutIsSilent, Running
  <1>3. Control'
    BY PhaseOK DEF Inv, Control, WriteSome
  <1>4. /\ Safe(a) /\ a.net = c.net /\ (IsHandshakeing(a) <=> IsHandshakeing(c))
        /\ \/ a.token \in {c.token, 0}
           \/ c.token = 0 /\ a.token >= c.nextToken /\ a.nextToken > a.token
    BY <1>1, AnnouncedOK
  <1>5. c' = [a EXCEPT !.out = left,
                       !.server = IF "handshake" \in a.out \ left THEN "asked" ELSE a.server]
    BY ZenonT(30) DEF WriteSome
  <1> HIDE DEF a
  <1>6. PICK p \in Progress : p = IF "handshake" \in a.out \ left THEN "asked" ELSE a.server
    BY <1>4 DEF Safe, Good, Conn, Progress
  <1>7. c' = [a EXCEPT !.out = left, !.server = p]
    BY <1>5, <1>6
  <1>8. c' \in Conn
    BY <1>4, <1>7, Zenon DEF Safe, Good, Conn, Outgoing
  <1>9. SameSocket(a, c') /\ c'.pool = a.pool /\ c'.status = a.status
        /\ c'.timer = a.timer /\ c'.handshake = a.handshake
    BY <1>4, <1>7 DEF Safe, Good, Conn, SameSocket
  <1>10. Safe(c')
    BY <1>4, <1>8, <1>9, HarmlessOK, Zenon DEF IsHandshakeing
  <1>11. TokenStep
    BY <1>4, <1>9 DEF SameSocket, TokenStep
  <1>12. LoggedOutIsSilent' /\ ParsesLoggedIn'
    BY <1>1, <1>2 DEF LoggedOutIsSilent, ParsesLoggedIn
  <1>13. QED
    BY <1>3, <1>10, <1>11, <1>12 DEF Inv

\* A send() that fails closes the socket.
LEMMA WriteFailsOK ==
  ASSUME Inv, NEW rearms \in BOOLEAN, WriteFails(rearms)
  PROVE  Inv' /\ TokenStep
  <1> DEFINE a == Announced(rearms)
  <1>1. pc = "out" /\ c.sock # "none" /\ uin' = uin /\ pc' = "timeout" /\ c' = CloseSocket(a, 1)
    BY DEF WriteFails, SocketError
  <1>2. Running /\ uin # 0
    BY <1>1, Zenon DEF Inv, LoggedOutIsSilent, Running
  <1>3. Control'
    BY DEF Inv, Control, WriteFails
  <1>4. Safe(a)
    BY <1>1, AnnouncedOK
  <1> HIDE DEF a
  <1>5. Safe(c') /\ c'.token = 0
    BY <1>1, <1>4, CloseSocketOK DEF Safe, Good
  <1>6. LoggedOutIsSilent' /\ ParsesLoggedIn' /\ TokenStep
    BY <1>1, <1>2, <1>5, Zenon DEF LoggedOutIsSilent, ParsesLoggedIn, TokenStep
  <1>7. QED
    BY <1>3, <1>5, <1>6, Zenon DEF Inv

\* An adjustWriteOp that fails after send() closes the socket.
LEMMA WriteUnarmedOK ==
  ASSUME Inv, NEW rearms \in BOOLEAN, WriteUnarmed(rearms)
  PROVE  Inv' /\ TokenStep
  <1> DEFINE a == Announced(rearms)
  <1>1. pc = "out" /\ c.sock # "none" /\ uin' = uin /\ pc' # "parse" /\ c' = CloseSocket(a, 1)
    BY DEF WriteUnarmed, SocketError, Phase
  <1>2. Running /\ uin # 0
    BY <1>1, Zenon DEF Inv, LoggedOutIsSilent, Running
  <1>3. Control'
    BY DEF Inv, Control, WriteUnarmed, Phase
  <1>4. Safe(a)
    BY <1>1, AnnouncedOK
  <1> HIDE DEF a
  <1>5. Safe(c') /\ c'.token = 0
    BY <1>1, <1>4, CloseSocketOK DEF Safe, Good
  <1>6. LoggedOutIsSilent' /\ ParsesLoggedIn' /\ TokenStep
    BY <1>1, <1>2, <1>5 DEF LoggedOutIsSilent, ParsesLoggedIn, TokenStep
  <1>7. QED
    BY <1>3, <1>5, <1>6 DEF Inv

\* checkTimeout keeps the invariant.
LEMMA CheckTimeoutOK ==
  ASSUME Inv, CheckTimeout
  PROVE  Inv' /\ TokenStep
  <1>1. Running /\ Control' /\ uin' = uin /\ pc' # "parse"
    BY DEF Inv, Control, Running, CheckTimeout
  <1>2. CASE c' = c
    BY <1>1, <1>2, IdleOK
  <1>3. CASE c.sock # "none" /\ c' = CloseSocket(c, 2)
    <2>1. /\ Safe(c') /\ c'.sock = "none" /\ c'.token = 0
          /\ c'.net = c.net /\ c'.nextToken = c.nextToken
          /\ IsHandshakeing(c') <=> IsHandshakeing(c)
      BY <1>3, CloseSocketOK DEF Inv, Safe, Good
    <2>2. QED
      BY <1>1, <2>1, ConcludeOK DEF Follows
  <1>4. QED
    BY <1>2, <1>3 DEF CheckTimeout

\* beginHandshake replaces the connection and keeps the invariant.
LEMMA ServiceHandshakeOK ==
  ASSUME Inv, NEW opens \in BOOLEAN, ServiceHandshake(opens)
  PROVE  Inv' /\ TokenStep
  <1> DEFINE ing == [c EXCEPT !.handshake = "Ing"]
  <1>1. Running /\ Control' /\ uin' = uin /\ uin # 0 /\ pc' # "parse"
    BY DEF Inv, Control, Running, ServiceHandshake
  <1>2. c' = Connect(CloseConnect(ing), opens)
    BY DEF ServiceHandshake, BeginHandshake
  <1>3. ing \in Conn
    <2>1. "Ing" \in Handshakes
      BY DEF Handshakes
    <2>2. QED
      BY <2>1 DEF Inv, Safe, Good, Conn
  <1>4. SameSocket(c, ing) /\ ing.pool = c.pool /\ ing.status = c.status /\ ing.timer = c.timer
    BY DEF Inv, Safe, Good, Conn, SameSocket
  <1> HIDE DEF ing
  <1>5. Good(ing)
    BY <1>3, <1>4 DEF Inv, Safe, Good, Coherent, SameSocket
  <1>6. Safe(c') /\ Follows(ing, c')
    BY <1>2, <1>5, ReopenOK, Zenon
  <1>7. TokenStep /\ LoggedOutIsSilent' /\ ParsesLoggedIn'
    BY <1>1, <1>4, <1>6
    DEF Follows, SameSocket, TokenStep, LoggedOutIsSilent, ParsesLoggedIn
  <1>8. QED
    BY <1>1, <1>6, <1>7 DEF Inv

\* Joining a pause without a connection ends the process and keeps the invariant.
LEMMA JoinPauseOK ==
  ASSUME Inv, JoinPause
  PROVE  Inv' /\ TokenStep
  <1>1. Running /\ Control'
    BY Zenon DEF Inv, Control, Running, JoinPause
  <1>2. QED
    BY <1>1, IdleOK, Zenon DEF JoinPause

\* sendPing keeps the invariant.
LEMMA ServicePingOK ==
  ASSUME Inv, NEW opens \in BOOLEAN, NEW rearms \in BOOLEAN,
         ServicePing(opens, rearms) \/ ServiceNoPing
  PROVE  Inv' /\ TokenStep
  <1>1. Running /\ Control' /\ uin' = uin
    BY Zenon DEF Inv, Control, Running, ServicePing, ServiceNoPing, WithConnection
  <1>2. CASE ServiceNoPing
    BY <1>1, <1>2, IdleOK, Zenon DEF ServiceNoPing
  <1>3. CASE ServicePing(opens, rearms)
    <2>1. Safe(SendPing(c, opens, rearms)) /\ Follows(c, SendPing(c, opens, rearms))
      BY SendDataOK DEF Inv, SendPing, Outgoing
    <2>2. QED
      BY <1>1, <1>3, <2>1, WithConnectionOK DEF ServicePing
  <1>4. QED
    BY <1>2, <1>3

-----------------------------------------------------------------------------
(* The kernel and the server *)

\* The other side can change the socket's state, never open or close socketFd.
LEMMA EnvironmentOK ==
  ASSUME Inv, Environment
  PROVE  Inv' /\ TokenStep
  <1>1. ASSUME Running, UNCHANGED <<uin, tasks, loop, service>>, c' \in Conn,
               c.sock # "none", c'.sock # "none",
               c'.net = c.net, c'.nextToken = c.nextToken, c'.token = c.token,
               c'.sent = c.sent, c'.pool = c.pool, c'.status = c.status,
               c'.timer = c.timer, c'.handshake = c.handshake
        PROVE  Inv' /\ TokenStep
    <2>1. Control' /\ uin' = uin /\ pc' = pc
      BY <1>1, Zenon DEF Inv, Control, loop
    <2>2. Safe(c') /\ Follows(c, c')
      BY <1>1 DEF Inv, Safe, Good, Coherent, Stranded, Follows, IsHandshakeing
    <2>3. uin # 0
      BY <1>1 DEF Inv, LoggedOutIsSilent
    <2>4. QED
      BY <1>1, <2>1, <2>2, <2>3, ConcludeOK, Zenon
  <1>2. c \in Conn
    BY DEF Inv, Safe, Good
  <1>3. ASSUME NEW k \in Sockets, k # "none", c.sock # "none", Kernel([c EXCEPT !.sock = k])
        PROVE  Inv' /\ TokenStep
    BY <1>1, <1>2, <1>3 DEF Kernel, Conn
  <1>4. CASE Establish
    BY <1>3, <1>4 DEF Establish, Sockets
  <1>5. CASE Finish
    BY <1>3, <1>5 DEF Finish, Sockets
  <1>6. CASE Reset
    <2>1. <<>> \in Seq(Packets) /\ "err" \in Sockets
      BY DEF Sockets
    <2>2. c' = [c EXCEPT !.sock = "err", !.inbox = <<>>] /\ c.sock # "none"
          /\ Running /\ UNCHANGED <<uin, tasks, loop, service>>
      BY <1>6 DEF Reset, Kernel
    <2>3. c' \in Conn
      BY <1>2, <2>1, <2>2, Zenon DEF Conn
    <2>4. QED
      BY <1>1, <1>2, <2>2, <2>3 DEF Conn
  <1>7. ASSUME NEW q \in Packets, Answer(q) PROVE Inv' /\ TokenStep
    <2>1. PICK i \in Seq(Packets) : i = Append(c.inbox, q)
      <3>1. c.inbox \in Seq(Packets)
        BY <1>2 DEF Conn
      <3>2. Append(c.inbox, q) \in Seq(Packets)
        BY <3>1
      <3>3. QED
        BY <3>2, Zenon
    <2>2. c' = [c EXCEPT !.inbox = i, !.server = "answered"] /\ c.sock = "up"
          /\ Running /\ UNCHANGED <<uin, tasks, loop, service>>
      BY <1>7, <2>1 DEF Answer, Kernel
    <2>3. c' \in Conn
      <3>1. "answered" \in Progress
        BY DEF Progress
      <3>2. QED
        BY <1>2, <2>2, <3>1, Zenon DEF Conn
    <2>4. QED
      BY <1>1, <1>2, <2>2, <2>3 DEF Conn
  <1>8. ASSUME NEW q \in Packets, Push(q) PROVE Inv' /\ TokenStep
    <2>1. PICK i \in Seq(Packets) : i = Append(c.inbox, q)
      <3>1. c.inbox \in Seq(Packets)
        BY <1>2 DEF Conn
      <3>2. Append(c.inbox, q) \in Seq(Packets)
        BY <3>1
      <3>3. QED
        BY <3>2, Zenon
    <2>2. c' = [c EXCEPT !.inbox = i] /\ c.sock = "up"
          /\ Running /\ UNCHANGED <<uin, tasks, loop, service>>
      BY <1>8, <2>1 DEF Push, Kernel
    <2>3. QED
      BY <1>1, <1>2, <2>2 DEF Conn
  <1>9. QED
    BY <1>4, <1>5, <1>6, <1>7, <1>8, Zenon DEF Environment

-----------------------------------------------------------------------------
(* The results *)

\* The invariant holds at the start.
LEMMA InitOK == Init => Inv
  <1> SUFFICES ASSUME Init PROVE Inv
    OBVIOUS
  <1>1. uin # 0 /\ Control
    <2>1. <<>> \in Seq(Tasks) /\ <<>> \in Seq(Packets)
      OBVIOUS
    <2>2. uin # 0 /\ uin \in Uins \cup {0}
      BY LongLinkAssumption DEF Init
    <2>3. QED
      BY <2>1, <2>2, Zenon DEF Init, Control
  <1>2. QED
    BY <1>1, NewConnOK DEF Init, Inv, LoggedOutIsSilent, ParsesLoggedIn

\* Every step of the network thread keeps the invariant and moves the token as allowed.
LEMMA NetworkThreadOK ==
  ASSUME Inv, NetworkThread
  PROVE  Inv' /\ TokenStep
  <1>1. \A rearms \in {TRUE, ~EpollFails} : rearms \in BOOLEAN
    BY Zenon
  <1>2. CASE LoginTask \/ LogoutTask \/ ScreenOnTask \/ AddSvrTask \/ RequestTask
    BY <1>2, LoginTaskOK, LogoutTaskOK, ScreenOnTaskOK, AddSvrTaskOK, RequestTaskOK
  <1>3. CASE EpollWait \/ ReadError \/ RecvFails \/ Recv \/ RecvNothing
    BY <1>3, EpollWaitOK, ClosesOK, RecvOK, RecvNothingOK
  <1>4. CASE ParsePartial \/ ParseOther \/ ParseAccept \/ ParseDone
    BY <1>4, ParseOK, ParseDoneOK, Zenon
  <1>5. CASE WriteError \/ Hangup \/ CheckTimeout \/ JoinPause \/ ServiceNoPing
             \/ ProcessNothing
    BY <1>5, ClosesOK, CheckTimeoutOK, JoinPauseOK, ServicePingOK, ProcessOK, Zenon
  <1>6. ASSUME NEW opens \in BOOLEAN,
               \/ NetworkTask(opens) \/ SetSvrTask(opens) \/ CallEvents(opens)
               \/ ParseBad(opens) \/ ParseReject(opens) \/ ServiceHandshake(opens)
               \/ ProcessConnect(opens)
        PROVE  Inv' /\ TokenStep
    BY <1>6, NetworkTaskOK, SetSvrTaskOK, CallEventsOK, ParseOK, ServiceHandshakeOK, ProcessOK
  <1>7. ASSUME NEW opens \in BOOLEAN, NEW rearms \in {TRUE, ~EpollFails},
               NEW resetPing \in BOOLEAN,
               ProcessSend(opens, rearms, resetPing) \/ ServicePing(opens, rearms)
        PROVE  Inv' /\ TokenStep
    BY <1>1, <1>7, ProcessOK, ServicePingOK, Zenon
  <1>8. ASSUME NEW rearms \in {TRUE, ~EpollFails},
               \/ WriteFails(rearms) \/ WriteUnarmed(rearms)
               \/ \E left \in SUBSET {"handshake", "data"} : WriteSome(rearms, left)
        PROVE  Inv' /\ TokenStep
    BY <1>1, <1>8, WriteFailsOK, WriteUnarmedOK, WriteSomeOK, Zenon
  <1>9. QED
    BY <1>2, <1>3, <1>4, <1>5, <1>6, <1>7, <1>8, Zenon DEF NetworkThread

\* So does every step of the system.
LEMMA NextOK == Inv /\ [Next]_vars => Inv' /\ [TokenStep]_vars
  <1> SUFFICES ASSUME Inv, [Next]_vars PROVE Inv' /\ [TokenStep]_vars
    OBVIOUS
  <1>1. CASE Next
    BY <1>1, JavaCallsOK, NetworkThreadOK, EnvironmentOK, Zenon DEF Next
  <1>2. CASE UNCHANGED vars
    BY <1>2 DEF vars, Inv, Control, LoggedOutIsSilent, ParsesLoggedIn, Running
  <1>3. QED
    BY <1>1, <1>2

\* The inductive invariant of the select loop holds in every reachable state.
THEOREM Invariance == Spec => []Inv
  BY InitOK, NextOK, PTL DEF Spec

\* The model is well typed: every callback leaves a connection of the right shape.
THEOREM Typed == Spec => []TypeOK
  <1>1. Inv => TypeOK
    BY DEF Inv, Control, Safe, Good, TypeOK
  <1>2. QED
    BY <1>1, Invariance, PTL

\* No order of callbacks makes the status, the socket, the token and the timer of
\* the connection disagree.
THEOREM StatusAndSocketAgree == Spec => []StatusMatchesSocket
  <1>1. Inv => StatusMatchesSocket
    BY DEF Inv, Safe, Good, Coherent, StatusMatchesSocket
  <1>2. QED
    BY <1>1, Invariance, PTL

\* After clearUp nothing reopens the connection until the next login.
THEOREM LogoutSilences == Spec => []LoggedOutIsSilent
  <1>1. Inv => LoggedOutIsSilent
    BY DEF Inv
  <1>2. QED
    BY <1>1, Invariance, PTL

\* A logged-in client with a network and no socket always has its timer armed.
THEOREM AlwaysRetrying == Spec => []NeverStranded
  <1>1. Inv => NeverStranded
    BY DEF Inv, Safe, Stranded, NeverStranded
  <1>2. QED
    BY <1>1, Invariance, PTL

\* The address index never leaves the list.
THEOREM AddressesInBounds == Spec => []AddressInBounds
  <1>1. Inv => AddressInBounds
    BY DEF Inv, Safe, Good, AddressInBounds
  <1>2. QED
    BY <1>1, Invariance, PTL

\* No two connections ever have the same token.
THEOREM FreshTokens == Spec => TokensAreFresh
  BY InitOK, NextOK, PTL DEF Spec, TokensAreFresh, TokenStep

-----------------------------------------------------------------------------
(* The tasks that the Java side hands over: how a started service can be left
   logged out. *)

\* What LeftByLateLogout says of one step.
LeftStep == ~LeftLoggedOut /\ LeftLoggedOut' => service /\ Pending("logout")

-----------------------------------------------------------------------------

\* A queue that grows at its end loses no login.
LEMMA AppendKeepsLogin ==
  ASSUME Control, NEW t \in Tasks, tasks' = Append(tasks, t)
  PROVE  /\ LoginPending => LoginPending'
         /\ t[1] = "login" => LoginPending'
  <1>1. tasks \in Seq(Tasks)
    BY DEF Control
  <1>2. /\ Len(tasks') = Len(tasks) + 1 /\ DOMAIN tasks' = 1 .. Len(tasks')
        /\ DOMAIN tasks = 1 .. Len(tasks) /\ Len(tasks) \in Nat
        /\ tasks'[Len(tasks) + 1] = t
        /\ \A i \in 1 .. Len(tasks) : tasks'[i] = tasks[i]
    BY <1>1
  <1>3. Len(tasks) + 1 \in DOMAIN tasks' /\ \A i \in DOMAIN tasks : i \in DOMAIN tasks'
    BY <1>2
  <1>4. QED
    BY <1>2, <1>3 DEF LoginPending

\* A queue whose head runs loses a login only if the head is one.
LEMMA TailKeepsLogin ==
  ASSUME Control, NEW op, Pending(op), op # "login", LoginPending
  PROVE  LoginPending'
  <1>1. tasks \in Seq(Tasks) /\ tasks # <<>> /\ tasks' = Tail(tasks) /\ Head(tasks)[1] = op
    BY DEF Control, Pending
  <1>2. PICK i \in DOMAIN tasks : tasks[i][1] = "login"
    BY DEF LoginPending
  <1>3. DOMAIN tasks = 1 .. Len(tasks) /\ Head(tasks) = tasks[1] /\ Len(tasks) \in Nat
    BY <1>1
  <1>4. i \in Int /\ i - 1 \in 1 .. Len(tasks) - 1
    BY <1>1, <1>2, <1>3
  <1>5. /\ DOMAIN tasks' = 1 .. Len(tasks) - 1
        /\ \A j \in 1 .. Len(tasks) - 1 : tasks'[j] = tasks[j + 1]
    BY <1>1
  <1>6. tasks'[i - 1] = tasks[i]
    BY <1>4, <1>5
  <1>7. QED
    BY <1>2, <1>4, <1>5, <1>6 DEF LoginPending

\* A step that leaves the service and the account alone and loses no login.
LEMMA QuietStep ==
  ASSUME service' = service, uin' = uin, LoginPending => LoginPending'
  PROVE  LeftStep
  BY DEF LeftStep, LeftLoggedOut

\* No call of the Java side leaves a service logged out.
LEMMA JavaCallsLeave ==
  ASSUME Inv, JavaCalls
  PROVE  LeftStep
  <1>1. Control
    BY Zenon DEF Inv
  <1>2. ASSUME NEW u \in Uins, JavaStart(u) PROVE LeftStep
    <2>1. CASE u # uin
      <3>1. tasks' = Append(tasks, <<"login", u>>) /\ <<"login", u>> \in Tasks
        BY <1>2, <2>1 DEF JavaStart, ScheduleTask, Tasks
      <3>2. LoginPending'
        BY <1>1, <3>1, AppendKeepsLogin
      <3>3. QED
        BY <3>2 DEF LeftStep, LeftLoggedOut
    <2>2. CASE u = uin
      BY <1>2, <2>2, LongLinkAssumption DEF JavaStart, LeftStep, LeftLoggedOut
    <2>3. QED
      BY <2>1, <2>2
  <1>3. CASE JavaDestroy
    BY <1>3 DEF JavaDestroy, LeftStep, LeftLoggedOut
  <1>4. ASSUME NEW t \in Tasks, ScheduleTask(t), service' = service, uin' = uin
        PROVE  LeftStep
    <2>1. tasks' = Append(tasks, t)
      BY <1>4 DEF ScheduleTask
    <2>2. LoginPending => LoginPending'
      BY <1>1, <2>1, AppendKeepsLogin
    <2>3. QED
      BY <1>4, <2>2, QuietStep
  <1>5. ASSUME NEW available \in BOOLEAN, JavaNetwork(available) PROVE LeftStep
    <2>1. <<"network", available>> \in Tasks
      BY DEF Tasks
    <2>2. QED
      BY <1>4, <1>5, <2>1 DEF JavaNetwork
  <1>6. CASE JavaScreenOn
    <2>1. <<"screenOn", 0>> \in Tasks
      BY DEF Tasks
    <2>2. QED
      BY <1>4, <1>6, <2>1 DEF JavaScreenOn
  <1>7. ASSUME NEW call \in {"addSvr", "setSvr"}, NEW a \in Addresses, NEW p \in Ports,
               JavaServer(call, a, p)
        PROVE  LeftStep
    <2>1. <<call, <<a, p>> >> \in Tasks
      BY DEF Tasks
    <2>2. QED
      BY <1>4, <1>7, <2>1 DEF JavaServer
  <1>8. CASE JavaRequest
    <2>1. <<"request", 0>> \in Tasks
      BY DEF Tasks
    <2>2. QED
      BY <1>4, <1>8, <2>1 DEF JavaRequest
  <1>9. QED
    BY <1>2, <1>3, <1>5, <1>6, <1>7, <1>8 DEF JavaCalls

\* Of the tasks, only clearUp can leave a service logged out.
LEMMA TasksLeave ==
  ASSUME Inv, NEW opens \in BOOLEAN,
         \/ LoginTask \/ LogoutTask \/ ScreenOnTask \/ AddSvrTask \/ RequestTask
         \/ NetworkTask(opens) \/ SetSvrTask(opens)
  PROVE  LeftStep
  <1>1. Control
    BY DEF Inv
  <1>2. CASE LoginTask
    <2>1. Head(tasks) \in Tasks /\ Head(tasks)[1] = "login"
      BY <1>1, <1>2, PendingOK, Zenon DEF LoginTask
    <2>2. uin' # 0
      BY <1>2, <2>1, TaskArgument, LongLinkAssumption DEF LoginTask, Argument
    <2>3. QED
      BY <2>2 DEF LeftStep, LeftLoggedOut
  <1>3. CASE LogoutTask
    BY <1>3 DEF LogoutTask, LeftStep, LeftLoggedOut
  <1>4. ASSUME NEW op, Pending(op), op # "login", UNCHANGED <<uin, service>> PROVE LeftStep
    BY <1>1, <1>4, TailKeepsLogin, QuietStep
  <1>5. CASE ScreenOnTask \/ AddSvrTask \/ RequestTask \/ NetworkTask(opens) \/ SetSvrTask(opens)
    BY <1>4, <1>5 DEF ScreenOnTask, AddSvrTask, RequestTask, NetworkTask, SetSvrTask
  <1>6. QED
    BY <1>2, <1>3, <1>5

\* The rest of the loop touches neither the service, the account nor the queue.
LEMMA LoopLeaves ==
  ASSUME UNCHANGED <<uin, tasks, service>>
  PROVE  LeftStep
  BY QuietStep DEF LoginPending

\* Every step of the network thread.
LEMMA NetworkThreadLeaves ==
  ASSUME Inv, NetworkThread
  PROVE  LeftStep
  <1>1. CASE LoginTask \/ LogoutTask \/ ScreenOnTask \/ AddSvrTask \/ RequestTask
    BY <1>1, TasksLeave, Zenon
  <1>2. CASE EpollWait \/ ReadError \/ RecvFails \/ Recv \/ RecvNothing
    BY <1>2, LoopLeaves, Zenon
    DEF EpollWait, ReadError, RecvFails, Recv, RecvNothing, CloseAndReturn
  <1>3. CASE ParsePartial \/ ParseOther \/ ParseAccept \/ ParseDone
    BY <1>3, LoopLeaves, Zenon DEF ParsePartial, ParseOther, ParseAccept, ParseDone, Parsing
  <1>4. CASE WriteError \/ Hangup \/ CheckTimeout \/ JoinPause \/ ServiceNoPing
             \/ ProcessNothing
    BY <1>4, LoopLeaves, Zenon
    DEF WriteError, Hangup, CheckTimeout, JoinPause, ServiceNoPing, ProcessNothing, CloseAndReturn
  <1>5. ASSUME NEW opens \in BOOLEAN,
               \/ NetworkTask(opens) \/ SetSvrTask(opens) \/ CallEvents(opens)
               \/ ParseBad(opens) \/ ParseReject(opens) \/ ServiceHandshake(opens)
               \/ ProcessConnect(opens)
        PROVE  LeftStep
    <2>1. CASE NetworkTask(opens) \/ SetSvrTask(opens)
      BY <2>1, TasksLeave, Zenon
    <2>2. CASE CallEvents(opens) \/ ServiceHandshake(opens)
      BY <2>2, LoopLeaves, Zenon DEF CallEvents, ServiceHandshake
    <2>3. CASE ParseBad(opens) \/ ParseReject(opens) \/ ProcessConnect(opens)
      BY <2>3, LoopLeaves, Zenon DEF ParseBad, ParseReject, ProcessConnect, Parsing
    <2>4. QED
      BY <1>5, <2>1, <2>2, <2>3, Zenon
  <1>6. ASSUME NEW opens \in BOOLEAN, NEW rearms \in {TRUE, ~EpollFails},
               NEW resetPing \in BOOLEAN,
               ProcessSend(opens, rearms, resetPing) \/ ServicePing(opens, rearms)
        PROVE  LeftStep
    BY <1>6, LoopLeaves, Zenon DEF ProcessSend, ServicePing
  <1>7. ASSUME NEW rearms \in {TRUE, ~EpollFails},
               \/ WriteFails(rearms) \/ WriteUnarmed(rearms)
               \/ \E left \in SUBSET {"handshake", "data"} : WriteSome(rearms, left)
        PROVE  LeftStep
    BY <1>7, LoopLeaves, Zenon DEF WriteFails, WriteUnarmed, WriteSome
  <1>8. QED
    BY <1>1, <1>2, <1>3, <1>4, <1>5, <1>6, <1>7, Zenon DEF NetworkThread

\* Every step of the system.
LEMMA NextLeaves == Inv /\ [Next]_vars => [LeftStep]_vars
  <1> SUFFICES ASSUME Inv, Next PROVE LeftStep
    OBVIOUS
  <1>1. CASE Environment
    <2>1. UNCHANGED <<uin, tasks, service>>
      BY <1>1, Zenon DEF Environment, Establish, Reset, Finish, Answer, Push, Kernel
    <2>2. QED
      BY <2>1, LoopLeaves, Zenon
  <1>2. QED
    BY <1>1, JavaCallsLeave, NetworkThreadLeaves DEF Next

\* setUin compares accounts outside the network thread: a started service is left
\* logged out only by its own late logout, whatever the other calls in the queue.
THEOREM LateLogoutOnly == Spec => LeftByLateLogout
  BY InitOK, NextOK, NextLeaves, PTL DEF Spec, LeftByLateLogout, LeftStep

-----------------------------------------------------------------------------
(* The session and the abstract link *)

Talk ==
    /\ Session(c)
    /\ Directed(c)
    /\ OneVerdict(buf)
    /\ ~NoVerdict(buf) => ~old /\ c.server = "answered" /\ NoVerdict(c.inbox)
    /\ pc # "parse" => buf = <<>>

LinkStep == [L!LinkNext]_(L!linkVars)

-----------------------------------------------------------------------------
(* Steps of the link *)

\* A call that moves the connection is a step of the link.
LEMMA MovesLink ==
  ASSUME Inv, Inv', Running, Running', uin' = uin, Session(c), Moves(c, c')
  PROVE  LinkStep
  <1>1. /\ c.handshake \in {"Idel", "Ing", "Successed"} /\ c \in Conn
        /\ c.sock = "none" => c.token = 0
    BY Zenon DEF Inv, Safe, Good, Coherent, Conn, Handshakes
  <1>2. uin = 0 => c.sock = "none" /\ c'.sock = "none" /\ c.handshake = "Idel"
    BY Zenon DEF Inv, LoggedOutIsSilent
  <1>3. c'.net = c.net /\ c'.nextToken = c.nextToken
    BY Zenon DEF Moves
  <1>4. CASE Opens(c, c')
    <2>1. CASE SameOpen(c, c')
      BY <1>3, <1>4, <2>1, Zenon DEF Opens, SameOpen, LinkStep, L!linkVars
    <2>2. CASE c.net /\ c.sock = "none" /\ c'.sock # "none"
      BY <1>2, <1>3, <1>4, <2>2, Zenon DEF Opens, LinkStep, L!LinkNext, L!Open
    <2>3. QED
      BY <1>4, <2>1, <2>2 DEF Opens, SameOpen
  <1>5. CASE Demotes(c, c')
    <2>1. CASE c.handshake = "Successed"
      BY <1>2, <1>3, <1>5, <2>1, Zenon DEF Demotes, SameOpen, Demote, LinkStep, L!LinkNext, L!Demote
    <2>2. CASE c.handshake # "Successed"
      BY <1>1, <1>3, <1>5, <2>2, Zenon DEF Demotes, SameOpen, Demote, LinkStep, L!linkVars
    <2>3. QED
      BY <2>1, <2>2
  <1>6. CASE Closes(c, c')
    BY <1>2, <1>3, <1>6, Zenon DEF Closes, Demote, LinkStep, L!LinkNext, L!Close, L!Demoted
  <1>7. QED
    BY <1>4, <1>5, <1>6 DEF Moves

\* A step that leaves the connection alone does not show.
LEMMA IdleLink ==
  ASSUME Running' = Running, uin' = uin, c' = c
  PROVE  LinkStep
  BY DEF LinkStep, L!linkVars

\* The end of the process closes the socket of a client without a session.
LEMMA CrashLink ==
  ASSUME Inv, Running, pc' = "crashed", uin' = uin, c' = c, ~IsHandshakeing(c)
  PROVE  LinkStep
  <1>1. ~Running' /\ c.handshake = "Idel"
    BY DEF Running, IsHandshakeing
  <1>2. CASE c.sock = "none"
    <2>1. c.token = 0
      BY <1>2 DEF Inv, Safe, Good, Coherent
    <2>2. QED
      BY <1>1, <1>2, <2>1 DEF LinkStep, L!linkVars
  <1>3. CASE c.sock # "none"
    <2>1. uin # 0
      BY <1>3, Zenon DEF Inv, LoggedOutIsSilent
    <2>2. QED
      BY <1>1, <1>3, <2>1, Zenon DEF LinkStep, L!LinkNext, L!Close, L!Demoted
  <1>4. QED
    BY <1>2, <1>3

\* What remains to be shown of a step outside the parse loop.
LEMMA TalkOK ==
  ASSUME Talk, pc # "parse", pc' # "parse", buf' = buf, Session(c'), Directed(c')
  PROVE  Talk'
  <1>1. buf' = <<>>
    BY DEF Talk
  <1>2. OneVerdict(buf') /\ NoVerdict(buf')
    BY <1>1, EmptyOK
  <1>3. QED
    BY <1>1, <1>2, Zenon DEF Talk

\* ... and of one that moves the connection.
LEMMA MoveOK ==
  ASSUME Inv, Inv', Talk, pc # "parse", pc' # "parse", Running, Running', buf' = buf,
         uin' = uin, Session(c'), Directed(c'), Moves(c, c')
  PROVE  Talk' /\ LinkStep
  BY MovesLink, TalkOK, ZenonT(30) DEF Talk

\* ... or leaves it alone.
LEMMA RestOK ==
  ASSUME Talk, pc # "parse", pc' # "parse", Running' = Running, buf' = buf, uin' = uin, c' = c
  PROVE  Talk' /\ LinkStep
  BY IdleLink, TalkOK DEF Talk

-----------------------------------------------------------------------------
(* Java threads and tasks *)

\* The calls of the Java side touch neither the connection nor the loop.
LEMMA JavaCallsTalk ==
  ASSUME Inv, Talk, JavaCalls
  PROVE  Talk' /\ LinkStep
  <1>1. UNCHANGED <<c, uin, pc, buf, old>>
    BY Zenon DEF JavaCalls, JavaStart, JavaDestroy, JavaNetwork, JavaScreenOn, JavaServer,
           JavaRequest, loop
  <1>2. Talk'
    BY <1>1 DEF Talk
  <1>3. Running' = Running
    BY <1>1 DEF Running
  <1>4. QED
    BY <1>1, <1>2, <1>3, IdleLink

\* The task of setUin is the link's Login.
LEMMA LoginTaskTalk ==
  ASSUME Inv, Talk, LoginTask
  PROVE  Talk' /\ LinkStep
  <1>1. Head(tasks) \in Tasks /\ Head(tasks)[1] = "login" /\ pc \in {"tasks1", "tasks2"}
    BY PendingOK DEF Inv, LoginTask
  <1>2. uin' \in Uins
    BY <1>1, TaskArgument DEF LoginTask, Argument
  <1>3. UNCHANGED <<c, pc, buf>> /\ Running' = Running
    BY DEF LoginTask, loop, Running
  <1>4. Talk'
    BY <1>1, <1>3, TalkOK, Zenon DEF Talk
  <1>5. LinkStep
    BY <1>2, <1>3 DEF LinkStep, L!LinkNext, L!Login
  <1>6. QED
    BY <1>4, <1>5

\* The task of clearUp is the link's Logout, also when it ends the process.
LEMMA LogoutTaskTalk ==
  ASSUME Inv, Talk, LogoutTask
  PROVE  Talk' /\ LinkStep
  <1>1. pc \in {"tasks1", "tasks2"} /\ Running /\ uin' = 0 /\ buf' = buf
    BY PendingOK DEF Inv, LogoutTask
  <1>2. CASE IsHandshakeing(c)
    <2> DEFINE z == CloseConnect(c)
    <2>1. c' = [z EXCEPT !.handshake = "Idel"] /\ pc' = pc
      BY <1>2 DEF LogoutTask, WithConnection
    <2>2. Good(z) /\ Follows(c, z) /\ z.sock = "none" /\ z.token = 0
      BY CloseConnectOK, ZenonT(30) DEF Inv, Safe
    <2>3. Session(z) /\ Directed(z)
      BY CloseConnectMoves DEF Inv, Safe, Talk
    <2> HIDE DEF z
    <2>4. /\ c'.handshake = "Idel" /\ c'.sock = z.sock /\ c'.token = z.token
          /\ c'.net = z.net /\ c'.nextToken = z.nextToken /\ c'.status = z.status
          /\ c'.out = z.out /\ c'.server = z.server /\ c'.inbox = z.inbox
      BY <2>1, <2>2 DEF Good, Conn
    <2>5. Session(c') /\ Directed(c')
      BY <2>2, <2>3, <2>4, Zenon DEF Session, Directed
    <2>6. Talk'
      BY <1>1, <2>1, <2>5, TalkOK, ZenonT(30)
    <2>7. LinkStep
      BY <1>1, <2>2, <2>4 DEF Follows, LinkStep, L!LinkNext, L!Logout
    <2>8. QED
      BY <2>6, <2>7
  <1>3. CASE ~IsHandshakeing(c)
    <2>1. c' = c /\ pc' = "crashed" /\ c.handshake = "Idel"
      BY <1>3, ZenonT(30) DEF LogoutTask, WithConnection, IsHandshakeing
    <2>2. Talk'
      BY <1>1, <2>1, TalkOK DEF Talk
    <2>3. LinkStep
      BY <1>1, <2>1 DEF Running, LinkStep, L!LinkNext, L!Logout
    <2>4. QED
      BY <2>2, <2>3
  <1>4. QED
    BY <1>2, <1>3

\* setNetworkAvailable is the link's Network: it demotes nobody, and connects.
LEMMA NetworkTaskTalk ==
  ASSUME Inv, Talk, NEW opens \in BOOLEAN, NetworkTask(opens)
  PROVE  Talk' /\ LinkStep
  <1>1. /\ Head(tasks) \in Tasks /\ Head(tasks)[1] = "network"
        /\ pc \in {"tasks1", "tasks2"} /\ Running
    BY PendingOK DEF Inv, NetworkTask
  <1>2. PICK n \in BOOLEAN : n = Argument
    BY <1>1, TaskArgument DEF Argument
  <1> DEFINE told == [c EXCEPT !.net = n]
  <1>3. c' = IF ~n THEN [told EXCEPT !.shown = "Waiting"]
             ELSE IF IsHandshakeing(c) /\ uin # 0 THEN Connect(told, opens) ELSE told
    BY <1>2 DEF NetworkTask
  <1>4. uin' = uin /\ pc' = pc /\ buf' = buf /\ Running' = Running
    BY DEF NetworkTask, loop, Running
  <1>5. told \in Conn
    BY DEF Inv, Safe, Good, Conn
  <1>6. /\ told.net = n /\ told.pool = c.pool /\ told.status = c.status
        /\ told.timer = c.timer /\ told.handshake = c.handshake /\ told.sock = c.sock
        /\ told.token = c.token /\ told.nextToken = c.nextToken /\ told.sent = c.sent
        /\ told.out = c.out /\ told.server = c.server /\ told.inbox = c.inbox
        /\ told.shown = c.shown /\ told.peer = c.peer
    BY DEF Inv, Safe, Good, Conn
  <1> HIDE DEF told
  <1>7. Good(told) /\ Session(told) /\ Directed(told)
    BY <1>5, <1>6, Zenon DEF Inv, Safe, Good, Coherent, Talk, Session, Directed
  <1>8. ASSUME Session(c'), Directed(c'), c'.net = n, c'.nextToken = c.nextToken,
               c'.handshake = c.handshake, c'.token = c.token,
               \/ c'.sock = "none" <=> c.sock = "none"
               \/ n /\ uin # 0 /\ c'.sock # "none"
        PROVE  Talk' /\ LinkStep
    <2>1. Talk'
      BY <1>1, <1>4, <1>8, TalkOK, Zenon
    <2>2. L!Network(n)
      BY <1>1, <1>4, <1>8, Zenon DEF L!Network
    <2>3. QED
      BY <2>1, <2>2, Zenon DEF LinkStep, L!LinkNext
  <1>9. CASE ~n
    <2>1. c' = [told EXCEPT !.shown = "Waiting"]
      BY <1>3, <1>9
    <2>2. /\ SameSocket(told, c') /\ c'.pool = told.pool /\ c'.status = told.status
          /\ c'.handshake = told.handshake /\ c'.out = told.out /\ c'.peer = told.peer
          /\ c'.server = told.server /\ c'.inbox = told.inbox /\ c'.shown = "Waiting"
      BY <1>5, <2>1 DEF Conn, SameSocket
    <2>3. Session(c') /\ Directed(c')
      BY <1>7, <2>2, Zenon DEF Session, Directed, SameSocket
    <2>4. QED
      BY <1>6, <1>8, <2>2, <2>3, Zenon DEF SameSocket
  <1>10. CASE n /\ IsHandshakeing(c) /\ uin # 0
    <2>1. c' = Connect(told, opens)
      BY <1>3, <1>10
    <2>2. Session(c') /\ Directed(c') /\ Moves(told, c') /\ Opens(told, c')
      BY <1>6, <1>7, <1>10, <2>1, ConnectMoves, ZenonT(30)
    <2>3. QED
      BY <1>6, <1>8, <1>10, <2>2, Zenon DEF Moves, Opens, SameOpen
  <1>11. CASE n /\ ~(IsHandshakeing(c) /\ uin # 0)
    <2>1. c' = told
      BY <1>3, <1>11
    <2>2. QED
      BY <1>6, <1>7, <1>8, <2>1
  <1>12. QED
    BY <1>9, <1>10, <1>11

\* resumeNetwork reads the token, or ends the process.
LEMMA ScreenOnTaskTalk ==
  ASSUME Inv, Talk, ScreenOnTask
  PROVE  Talk' /\ LinkStep
  <1>1. pc \in {"tasks1", "tasks2"} /\ Running /\ uin' = uin /\ buf' = buf /\ c' = c
    BY PendingOK DEF Inv, ScreenOnTask, WithConnection
  <1>2. pc' = pc \/ (pc' = "crashed" /\ ~IsHandshakeing(c))
    BY DEF ScreenOnTask, WithConnection
  <1>3. Talk'
    BY <1>1, <1>2, TalkOK, Zenon DEF Talk
  <1>4. LinkStep
    BY <1>1, <1>2, IdleLink, CrashLink DEF Running
  <1>5. QED
    BY <1>3, <1>4

\* addSvrAddr takes the forced server out of force.
LEMMA AddSvrTaskTalk ==
  ASSUME Inv, Inv', Talk, AddSvrTask
  PROVE  Talk' /\ LinkStep
  <1>1. pc \in {"tasks1", "tasks2"} /\ Running
    BY PendingOK DEF Inv, AddSvrTask
  <1>2. PICK d \in AddAddressAndPort(c.pool, Argument[1], Argument[2]) : c' = [c EXCEPT !.pool = d]
    BY DEF AddSvrTask
  <1>3. c \in Conn /\ c.pool \in Pool
    BY Zenon DEF Inv, Safe, Good, Conn
  <1>4. d.nio.ip = NoServer
    BY <1>3, AddClears
  <1>5. /\ SameSocket(c, c') /\ c'.pool = d /\ c'.status = c.status
        /\ c'.handshake = c.handshake /\ c'.out = c.out /\ c'.peer = c.peer
        /\ c'.server = c.server /\ c'.inbox = c.inbox /\ c'.shown = c.shown
    BY <1>2, <1>3 DEF Conn, SameSocket
  <1>6. Session(c') /\ Directed(c')
    BY <1>4, <1>5, Zenon DEF Talk, Session, Directed
  <1>7. Moves(c, c')
    BY <1>5, StaysOK, Zenon
  <1>8. uin' = uin /\ pc' = pc /\ buf' = buf /\ Running'
    BY <1>1 DEF AddSvrTask, loop, Running
  <1>9. QED
    BY <1>1, <1>6, <1>7, <1>8, MoveOK

\* setSvrAddr forces a server and goes to it.
LEMMA SetSvrTaskTalk ==
  ASSUME Inv, Inv', Talk, NEW opens \in BOOLEAN, SetSvrTask(opens)
  PROVE  Talk' /\ LinkStep
  <1> DEFINE a == Argument[1]
             p == Argument[2]
             forced == [c EXCEPT !.pool = ForceAddressAndPort(c.pool, a, p)]
  <1>1. /\ Head(tasks) \in Tasks /\ Head(tasks)[1] = "setSvr"
        /\ pc \in {"tasks1", "tasks2"} /\ Running
    BY PendingOK, ZenonT(30) DEF Inv, SetSvrTask
  <1>2. a \in Addresses /\ p \in Ports
    BY <1>1, TaskArgument DEF Argument
  <1>3. WithConnection(Reconnect(forced, opens), pc) /\ uin' = uin /\ buf' = buf
    BY DEF SetSvrTask
  <1> HIDE DEF a, p
  <1>4. PICK d \in Pool : d = ForceAddressAndPort(c.pool, a, p) /\ InBounds(d)
    BY <1>2, ForceOK, Zenon DEF Inv, Safe, Good, Conn
  <1>5. forced = [c EXCEPT !.pool = d]
    BY <1>4
  <1> HIDE DEF forced
  <1>6. forced \in Conn
    BY <1>5, Zenon DEF Inv, Safe, Good, Conn
  <1>7. /\ SameSocket(c, forced) /\ forced.pool = d /\ forced.status = c.status
        /\ forced.timer = c.timer /\ forced.handshake = c.handshake
        /\ forced.out = c.out /\ forced.server = c.server /\ forced.inbox = c.inbox
        /\ forced.shown = c.shown
    BY <1>5 DEF Inv, Safe, Good, Conn, SameSocket
  <1>8. Good(forced) /\ Session(forced)
    BY <1>4, <1>6, <1>7, Zenon DEF Inv, Safe, Good, Coherent, SameSocket, Talk, Session
  <1>9. Moves(c, forced) /\ Good(c) /\ Session(c)
    BY <1>7, StaysOK, Zenon DEF Inv, Safe, Talk
  <1>10. CASE IsHandshakeing(c)
    <2>1. c' = Reconnect(forced, opens) /\ pc' = pc
      BY <1>3, <1>10 DEF WithConnection
    <2>2. Session(c') /\ Directed(c') /\ Moves(forced, c')
      BY <1>8, <2>1, ReconnectMoves
    <2>3. Moves(c, c')
      BY <1>9, <2>2, MovesTrans
    <2>4. QED
      BY <1>1, <1>3, <2>1, <2>2, <2>3, MoveOK DEF Running
  <1>11. CASE ~IsHandshakeing(c)
    <2>1. c' = c /\ pc' = "crashed"
      BY <1>3, <1>11, ZenonT(30) DEF WithConnection
    <2>2. Talk'
      BY <1>1, <1>3, <2>1, TalkOK DEF Talk
    <2>3. QED
      BY <1>1, <1>3, <1>11, <2>1, <2>2, CrashLink
  <1>12. QED
    BY <1>10, <1>11

\* processRequestQueue connects and sends through the same methods.
LEMMA ProcessTalk ==
  ASSUME Inv, Inv', Talk, NEW opens \in BOOLEAN, NEW rearms \in BOOLEAN,
         NEW resetPing \in BOOLEAN,
         \/ ProcessConnect(opens) \/ ProcessSend(opens, rearms, resetPing)
         \/ ProcessNothing \/ RequestTask
  PROVE  Talk' /\ LinkStep
  <1>1. /\ uin' = uin /\ buf' = buf /\ pc # "parse" /\ pc' # "parse" /\ Running /\ Running'
    BY Zenon DEF Inv, Control, Running, ProcessConnect, ProcessSend, ProcessNothing, RequestTask,
           Pending, loop
  <1>2. Good(c) /\ Session(c) /\ Directed(c)
    BY Zenon DEF Inv, Safe, Talk
  <1>3. CASE ProcessNothing \/ RequestTask
    BY <1>1, <1>3, RestOK DEF ProcessNothing, RequestTask
  <1>4. CASE ProcessConnect(opens)
    <2>1. Session(c') /\ Directed(c') /\ Moves(c, c')
      BY <1>2, <1>4, ConnectMoves DEF ProcessConnect
    <2>2. QED
      BY <1>1, <2>1, MoveOK, Zenon
  <1>5. CASE ProcessSend(opens, rearms, resetPing)
    <2> DEFINE z == Connect(c, opens)
               s == SendData(z, "data", opens, rearms)
    <2>1. Safe(z)
      BY <1>2, ConnectOK
    <2>2. Session(z) /\ Directed(z) /\ Moves(c, z)
      BY <1>2, ConnectMoves
    <2> HIDE DEF z
    <2>3. Safe(s)
      BY <2>1, SendDataOK DEF Outgoing
    <2>4. Session(s) /\ Directed(s) /\ Moves(z, s)
      BY <2>1, <2>2, SendDataMoves, Zenon DEF Safe
    <2>5. Moves(c, s)
      BY <1>2, <2>2, <2>4, MovesTrans
    <2>6. PICK b \in BOOLEAN : b = (s.pinging \/ resetPing)
      BY Zenon
    <2>7. c' = [s EXCEPT !.pinging = b]
      BY <1>5, <2>6 DEF ProcessSend, z
    <2> HIDE DEF s
    <2>8. /\ SameSocket(s, c') /\ c'.pool = s.pool /\ c'.status = s.status
          /\ c'.handshake = s.handshake /\ c'.out = s.out /\ c'.peer = s.peer
          /\ c'.server = s.server /\ c'.inbox = s.inbox /\ c'.shown = s.shown
      BY <2>3, <2>7, Zenon DEF Safe, Good, Conn, SameSocket
    <2>9. Session(c') /\ Directed(c')
      BY <2>4, <2>8, Zenon DEF Session, Directed, SameSocket
    <2>10. Moves(c, c')
      BY <1>2, <2>5, <2>8, StaysOK, MovesTrans
    <2>11. QED
      BY <1>1, <2>9, <2>10, MoveOK
  <1>6. QED
    BY <1>3, <1>4, <1>5

-----------------------------------------------------------------------------
(* select *)

\* The timer's callback connects.
LEMMA CallEventsTalk ==
  ASSUME Inv, Inv', Talk, NEW opens \in BOOLEAN, CallEvents(opens)
  PROVE  Talk' /\ LinkStep
  <1>1. uin' = uin /\ buf' = buf /\ pc # "parse" /\ pc' # "parse" /\ Running /\ Running'
    BY PhaseOK DEF CallEvents, Running
  <1>2. CASE uin # 0 /\ c.timer
    <2> DEFINE off == [c EXCEPT !.timer = FALSE]
    <2>1. c' = Connect(off, opens)
      BY <1>2 DEF CallEvents
    <2>2. off \in Conn
      BY Zenon DEF Inv, Safe, Good, Conn
    <2>3. /\ SameSocket(c, off) /\ off.pool = c.pool /\ off.status = c.status
          /\ off.timer = FALSE /\ off.handshake = c.handshake /\ off.out = c.out
          /\ off.server = c.server /\ off.inbox = c.inbox /\ off.shown = c.shown
          /\ off.peer = c.peer
      BY DEF Inv, Safe, Good, Conn, SameSocket
    <2> HIDE DEF off
    <2>4. Good(off) /\ Session(off) /\ Directed(off)
      BY <2>2, <2>3, Zenon DEF Inv, Safe, Good, Coherent, SameSocket, Talk, Session, Directed
    <2>5. Session(c') /\ Directed(c') /\ Moves(off, c')
      BY <2>1, <2>4, ConnectMoves
    <2>6. Moves(c, c')
      BY <2>3, <2>5, StaysOK, MovesTrans, Zenon DEF Inv, Safe, Talk
    <2>7. QED
      BY <1>1, <2>5, <2>6, MoveOK
  <1>3. CASE ~(uin # 0 /\ c.timer)
    BY <1>1, <1>3, RestOK, Zenon DEF CallEvents
  <1>4. QED
    BY <1>2, <1>3

\* Every branch of onEvent and of checkTimeout that closes the socket.
LEMMA ClosesTalk ==
  ASSUME Inv, Inv', Talk, ReadError \/ RecvFails \/ WriteError \/ Hangup \/ CheckTimeout
  PROVE  Talk' /\ LinkStep
  <1>1. uin' = uin /\ buf' = buf /\ pc # "parse" /\ pc' # "parse" /\ Running /\ Running'
    BY Zenon DEF ReadError, RecvFails, WriteError, Hangup, CheckTimeout, CloseAndReturn, Running
  <1>2. Good(c) /\ Session(c)
    BY Zenon DEF Inv, Safe, Talk
  <1>3. ASSUME NEW r, c' = CloseSocket(c, r) PROVE Talk' /\ LinkStep
    BY <1>1, <1>2, <1>3, CloseSocketMoves, MoveOK
  <1>4. CASE c' = c
    BY <1>1, <1>4, RestOK, ZenonT(30)
  <1>5. QED
    BY <1>3, <1>4, Zenon DEF ReadError, RecvFails, WriteError, Hangup, CheckTimeout, CloseAndReturn

\* epoll_wait and a recv that returns nothing leave the connection alone.
LEMMA WaitTalk ==
  ASSUME Inv, Talk, EpollWait \/ RecvNothing \/ ServiceNoPing
  PROVE  Talk' /\ LinkStep
  BY PhaseOK, RestOK DEF EpollWait, RecvNothing, ServiceNoPing, Running

-----------------------------------------------------------------------------
(* Receiving *)

\* recv moves the server's answer from the kernel's queue to the parse loop.
LEMMA RecvTalk ==
  ASSUME Inv, Inv', Talk, Recv
  PROVE  Talk' /\ LinkStep
  <1>1. c.inbox \in Seq(Packets) /\ c.inbox # <<>> /\ c \in Conn
    BY DEF Recv, Inv, Safe, Good, Conn
  <1>2. PICK first \in IF c.rest = "stale" THEN {"bad", "other"} ELSE {Head(c.inbox)} :
           buf' = <<first>> \o Tail(c.inbox)
    BY Zenon DEF Recv
  <1>3. first = Head(c.inbox) \/ first \in Packets \ Verdicts
    BY <1>2, Zenon DEF Packets, Verdicts
  <1>4. OneVerdict(c.inbox) /\ (c.server # "answered" => NoVerdict(c.inbox))
    BY Zenon DEF Talk, Session
  <1>5. OneVerdict(buf') /\ (c.server # "answered" => NoVerdict(buf'))
    BY <1>1, <1>2, <1>3, <1>4, SpoilOK
  <1>6. c' = [c EXCEPT !.inbox = <<>>, !.failed = 0, !.rest = "none"]
        /\ old' = FALSE /\ pc' = "parse" /\ uin' = uin /\ Running /\ Running'
    BY DEF Recv, Running
  <1>7. /\ SameSocket(c, c') /\ c'.pool = c.pool /\ c'.status = c.status
        /\ c'.handshake = c.handshake /\ c'.out = c.out /\ c'.peer = c.peer
        /\ c'.server = c.server /\ c'.inbox = <<>> /\ c'.shown = c.shown
    BY <1>1, <1>6 DEF Conn, SameSocket
  <1>8. Session(c') /\ Directed(c')
    BY <1>7, EmptyOK, Zenon DEF Talk, Session, Directed, SameSocket
  <1>9. Talk'
    BY <1>5, <1>6, <1>7, <1>8, EmptyOK DEF Talk
  <1>10. LinkStep
    BY <1>6, <1>7, StaysOK, MovesLink, Zenon DEF Talk
  <1>11. QED
    BY <1>9, <1>10

\* The head of the parse loop leaves the session and the link alone.
LEMMA HeardTalk ==
  ASSUME Inv, Talk, NEW y, y = Heard \/ y = [Heard EXCEPT !.shown = "Connected"]
  PROVE  /\ y \in Conn /\ SameSocket(c, y) /\ y.pool = c.pool /\ y.status = c.status
         /\ y.timer = c.timer /\ y.handshake = c.handshake /\ y.out = c.out
         /\ y.peer = c.peer /\ y.server = c.server /\ y.inbox = c.inbox
         /\ Good(y) /\ Session(y) /\ Directed(y) /\ Moves(c, y)
  <1> DEFINE h == Heard
  <1>1. c \in Conn
    BY DEF Inv, Safe, Good
  <1>2. h = [c EXCEPT !.recvd = TRUE]
    BY DEF Heard
  <1>3. h \in Conn
    BY <1>1, <1>2, Zenon DEF Conn
  <1>4. /\ SameSocket(c, h) /\ h.pool = c.pool /\ h.status = c.status
        /\ h.timer = c.timer /\ h.handshake = c.handshake /\ h.out = c.out
        /\ h.peer = c.peer /\ h.server = c.server /\ h.inbox = c.inbox /\ h.shown = c.shown
    BY <1>1, <1>2 DEF Conn, SameSocket
  <1>5. y = h \/ y = [h EXCEPT !.shown = "Connected"]
    OBVIOUS
  <1> HIDE DEF h
  <1>6. y \in Conn
    <2>1. "Connected" \in Shown
      BY DEF Shown
    <2>2. QED
      BY <1>3, <1>5, <2>1 DEF Conn
  <1>7. /\ SameSocket(h, y) /\ y.pool = h.pool /\ y.status = h.status
        /\ y.timer = h.timer /\ y.handshake = h.handshake /\ y.out = h.out
        /\ y.peer = h.peer /\ y.server = h.server /\ y.inbox = h.inbox
        /\ y.shown \in {h.shown, "Connected"}
    BY <1>3, <1>5 DEF Conn, SameSocket
  <1>8. /\ SameSocket(c, y) /\ y.pool = c.pool /\ y.status = c.status
        /\ y.timer = c.timer /\ y.handshake = c.handshake /\ y.out = c.out
        /\ y.peer = c.peer /\ y.server = c.server /\ y.inbox = c.inbox
        /\ y.shown \in {c.shown, "Connected"}
    BY <1>4, <1>7 DEF SameSocket
  <1>9. Good(y)
    BY <1>6, <1>8 DEF Inv, Safe, Good, Coherent, SameSocket
  <1>10. Session(y) /\ Directed(y)
    BY <1>8 DEF Talk, Session, Directed, SameSocket
  <1>11. QED
    BY <1>6, <1>8, <1>9, <1>10, StaysOK

\* The parse loop: only the answer to this connection's handshake makes a session.
LEMMA ParseTalk ==
  ASSUME Inv, Inv', Talk, NEW opens \in BOOLEAN,
         ParsePartial \/ ParseBad(opens) \/ ParseOther \/ ParseAccept \/ ParseReject(opens)
  PROVE  Talk' /\ LinkStep
  <1> DEFINE shown == [Heard EXCEPT !.shown = "Connected"]
  <1>1. pc = "parse" /\ uin' = uin /\ pc' = pc /\ buf # <<>> /\ Running /\ Running'
    BY Zenon DEF ParsePartial, ParseBad, ParseOther, ParseAccept, ParseReject, Parsing, Running
  <1>2. uin # 0 /\ buf \in Seq(Packets) /\ Good(c) /\ Session(c) /\ OneVerdict(buf)
    BY <1>1, Zenon DEF Inv, ParsesLoggedIn, Control, Safe, Talk
  <1>3. /\ OneVerdict(Tail(buf)) /\ (NoVerdict(buf) => NoVerdict(Tail(buf)))
        /\ Head(buf) \in Verdicts => NoVerdict(Tail(buf)) /\ ~NoVerdict(buf)
    BY <1>1, <1>2, TailOK
  <1>4. /\ Heard \in Conn /\ SameSocket(c, Heard) /\ Heard.pool = c.pool
        /\ Heard.status = c.status /\ Heard.handshake = c.handshake /\ Heard.out = c.out
        /\ Heard.peer = c.peer /\ Heard.server = c.server /\ Heard.inbox = c.inbox
        /\ Good(Heard) /\ Session(Heard) /\ Directed(Heard) /\ Moves(c, Heard)
    BY HeardTalk
  <1>5. /\ shown \in Conn /\ SameSocket(c, shown) /\ shown.pool = c.pool
        /\ shown.status = c.status /\ shown.handshake = c.handshake /\ shown.out = c.out
        /\ shown.peer = c.peer /\ shown.server = c.server /\ shown.inbox = c.inbox
        /\ Good(shown) /\ Session(shown) /\ Directed(shown) /\ Moves(c, shown)
    BY HeardTalk
  <1>6. shown.shown = "Connected"
    <2> DEFINE h == Heard
    <2>1. h \in Conn /\ shown = [h EXCEPT !.shown = "Connected"]
      BY <1>4
    <2> HIDE DEF h, shown
    <2>2. QED
      BY <2>1 DEF Conn
  \* a step that leaves no answer in the loop
  <1>7. ASSUME Session(c'), Directed(c'), Moves(c, c'), OneVerdict(buf'), NoVerdict(buf')
        PROVE  Talk' /\ LinkStep
    <2>1. Talk'
      BY <1>1, <1>7 DEF Talk
    <2>2. QED
      BY <1>1, <1>2, <1>7, <2>1, MovesLink, ZenonT(30)
  <1>8. CASE ParsePartial
    <2> DEFINE h == Heard
    <2>1. c' = [h EXCEPT !.rest = IF old THEN "stale" ELSE "own"] /\ buf' = <<>>
      BY <1>8, ZenonT(30) DEF ParsePartial
    <2>2. h \in Conn /\ Session(h) /\ Directed(h) /\ Moves(c, h)
      BY <1>4
    <2> HIDE DEF h
    <2>3. /\ SameSocket(h, c') /\ c'.pool = h.pool /\ c'.status = h.status
          /\ c'.handshake = h.handshake /\ c'.out = h.out /\ c'.peer = h.peer
          /\ c'.server = h.server /\ c'.inbox = h.inbox /\ c'.shown = h.shown
      BY <2>1, <2>2 DEF Conn, SameSocket
    <2>4. Session(c') /\ Directed(c')
      BY <2>2, <2>3, Zenon DEF Session, Directed, SameSocket
    <2>5. Moves(c, c')
      BY <1>2, <2>2, <2>3, StaysOK, MovesTrans
    <2>6. QED
      BY <1>7, <2>1, <2>4, <2>5, EmptyOK
  <1>9. CASE ParseBad(opens)
    <2>1. c' = Reconnect(Heard, opens) /\ buf' = <<>>
      BY <1>9, Zenon DEF ParseBad
    <2>2. Session(c') /\ Directed(c') /\ Moves(Heard, c')
      BY <1>4, <2>1, ReconnectMoves, ZenonT(30)
    <2>3. Moves(c, c')
      BY <1>2, <1>4, <2>2, MovesTrans
    <2>4. QED
      BY <1>7, <2>1, <2>2, <2>3, EmptyOK
  <1>10. CASE ParseOther
    <2>1. c' = shown /\ buf' = Tail(buf) /\ old' = old
      BY <1>10 DEF ParseOther
    <2>2. LinkStep
      BY <1>1, <1>2, <1>5, <2>1, MovesLink
    <2>3. c'.server = c.server /\ c'.inbox = c.inbox /\ Session(c') /\ Directed(c')
      BY <1>5, <2>1
    <2>4. Talk'
      BY <1>1, <1>3, <2>1, <2>3 DEF Talk
    <2>5. QED
      BY <2>2, <2>4
  <1>11. CASE ParseAccept
    <2>1. c' = [shown EXCEPT !.handshake = "Successed", !.server = "accepted"]
          /\ buf' = Tail(buf) /\ Head(buf) = "accept" /\ c.handshake = "Ing"
      BY <1>11 DEF ParseAccept, OnHandshakeResult, Parsing
    <2>2. NoVerdict(buf') /\ OneVerdict(buf') /\ ~NoVerdict(buf)
      BY <1>3, <2>1 DEF Verdicts
    <2>3. c.server = "answered" /\ NoVerdict(c.inbox) /\ c.status = "Connected"
          /\ "handshake" \notin c.out
      BY <2>2, Zenon DEF Talk, Session
    <2> HIDE DEF shown
    <2>4. /\ SameSocket(shown, c') /\ c'.pool = shown.pool /\ c'.status = shown.status
          /\ c'.handshake = "Successed" /\ c'.out = shown.out /\ c'.peer = shown.peer
          /\ c'.server = "accepted" /\ c'.inbox = shown.inbox /\ c'.shown = shown.shown
      BY <1>5, <2>1 DEF Conn, SameSocket
    <2>5. Session(c')
      BY <1>5, <1>6, <2>3, <2>4, Zenon DEF Session
    <2>6. Directed(c')
      BY <1>5, <2>4, Zenon DEF Directed, SameSocket
    <2>7. Talk'
      BY <1>1, <2>2, <2>5, <2>6, ZenonT(30) DEF Talk
    <2>8. c.token # 0
      BY <2>3 DEF Inv, Safe, Good, Coherent
    <2>9. L!Accept
      BY <1>1, <1>2, <1>5, <2>1, <2>4, <2>8 DEF SameSocket, L!Accept
    <2>10. QED
      BY <2>7, <2>9 DEF LinkStep, L!LinkNext
  <1>12. CASE ParseReject(opens)
    <2>1. c' = Connect(CloseConnect(shown), opens)
          /\ buf' = Tail(buf) /\ Head(buf) = "reject"
      BY <1>12 DEF ParseReject, OnHandshakeResult, Parsing
    <2>2. NoVerdict(buf') /\ OneVerdict(buf')
      BY <1>3, <2>1, Zenon DEF Verdicts
    <2> HIDE DEF shown
    <2>3. Session(c') /\ Directed(c') /\ Moves(shown, c')
      BY <1>5, <2>1, ReopenMoves, Zenon
    <2>4. Moves(c, c')
      BY <1>2, <1>5, <2>3, MovesTrans
    <2>5. QED
      BY <1>7, <2>2, <2>3, <2>4
  <1>13. QED
    BY <1>8, <1>9, <1>10, <1>11, <1>12

\* The end of the loop: nothing is left in it.
LEMMA ParseDoneTalk ==
  ASSUME Inv, Talk, ParseDone
  PROVE  Talk' /\ LinkStep
  <1>1. buf' = <<>> /\ c' = c /\ uin' = uin /\ Running' = Running
    BY PhaseOK, Zenon DEF ParseDone, Running
  <1>2. Talk'
    BY <1>1, EmptyOK DEF Talk
  <1>3. QED
    BY <1>1, <1>2, IdleLink

-----------------------------------------------------------------------------
(* Writing *)

\* The first writable event announces the connection; later ones do not.
LEMMA AnnouncedTalk ==
  ASSUME Inv, Talk, c.sock # "none", NEW rearms \in BOOLEAN, NEW a, a = Announced(rearms)
  PROVE  /\ Safe(a) /\ Session(a) /\ Directed(a)
         /\ a = c \/ Announces(c, a)
  <1>1. Safe(a)
    BY AnnouncedOK
  <1>2. CASE c.sent
    BY <1>1, <1>2 DEF Announced, Talk
  <1>3. CASE ~c.sent
    <2>1. a = [OnConnected(c, rearms) EXCEPT !.sent = TRUE]
      BY <1>3, ZenonT(30) DEF Announced
    <2>2. Safe(c) /\ Session(c) /\ Directed(c)
      BY DEF Inv, Talk
    <2>3. Session(a) /\ Directed(a) /\ Announces(c, a)
      BY <1>3, <2>1, <2>2, OnConnectedMoves, Zenon
    <2>4. QED
      BY <1>1, <2>3
  <1>4. QED
    BY <1>2, <1>3

\* An announcement is the link's Announce.
LEMMA AnnounceLink ==
  ASSUME Inv, Running, Running', uin' = uin, NEW a, Announces(c, a), c'.net = a.net,
         c'.nextToken = a.nextToken,
         \/ c'.token = a.token /\ c'.sock = a.sock /\ c'.handshake = a.handshake
         \/ c'.token = 0 /\ c'.sock = "none" /\ c'.handshake = Demote(a.handshake)
  PROVE  LinkStep
  <1>1. c.sock # "none" /\ uin # 0
    BY DEF Announces, Inv, LoggedOutIsSilent
  <1>2. c.handshake \in {"Idel", "Ing", "Successed"}
    BY Zenon DEF Inv, Safe, Good, Conn, Handshakes
  <1>3. L!Announce
    BY <1>1, <1>2 DEF Announces, Demote, L!Announce, L!Demoted
  <1>4. QED
    BY <1>3, ZenonT(30) DEF LinkStep, L!LinkNext

\* send() hands the handshake packet to the server once.
LEMMA WriteSomeTalk ==
  ASSUME Inv, Inv', Talk, NEW rearms \in BOOLEAN, NEW left \in SUBSET {"handshake", "data"},
         WriteSome(rearms, left)
  PROVE  Talk' /\ LinkStep
  <1> DEFINE a == Announced(rearms)
  <1>1. /\ pc = "out" /\ c.sock # "none" /\ uin' = uin /\ pc' # "parse" /\ buf' = buf
        /\ Running /\ Running' /\ left \subseteq a.out
    BY PhaseOK DEF WriteSome, SocketError, Running
  <1>2. Safe(a) /\ Session(a) /\ Directed(a) /\ (a = c \/ Announces(c, a))
    BY <1>1, AnnouncedTalk, Zenon
  <1>3. c' = [a EXCEPT !.out = left,
                       !.server = IF "handshake" \in a.out \ left THEN "asked" ELSE a.server]
    BY DEF WriteSome
  <1> HIDE DEF a
  <1>4. /\ SameSocket(a, c') /\ c'.pool = a.pool /\ c'.status = a.status
        /\ c'.handshake = a.handshake /\ c'.out = left /\ c'.peer = a.peer
        /\ c'.server = (IF "handshake" \in a.out \ left THEN "asked" ELSE a.server)
        /\ c'.inbox = a.inbox /\ c'.shown = a.shown
    BY <1>2, <1>3 DEF Safe, Good, Conn, SameSocket
  <1>5. Session(c')
    BY <1>1, <1>2, <1>4, Zenon DEF Session
  <1>6. Directed(c')
    BY <1>2, <1>4, Zenon DEF Directed, SameSocket
  <1>7. Talk'
    BY <1>1, <1>5, <1>6, TalkOK
  <1>8. CASE a = c
    BY <1>1, <1>4, <1>7, <1>8, StaysOK, MovesLink, Zenon DEF Talk
  <1>9. CASE Announces(c, a)
    BY <1>1, <1>4, <1>7, <1>9, AnnounceLink, Zenon DEF SameSocket
  <1>10. QED
    BY <1>2, <1>8, <1>9

\* A failure while writing closes the socket, announced just now or before.
LEMMA WriteFailsTalk ==
  ASSUME Inv, Inv', Talk, NEW rearms \in BOOLEAN, WriteFails(rearms) \/ WriteUnarmed(rearms)
  PROVE  Talk' /\ LinkStep
  <1> DEFINE a == Announced(rearms)
  <1>1. /\ pc = "out" /\ c.sock # "none" /\ uin' = uin /\ pc' # "parse" /\ buf' = buf
        /\ Running /\ Running' /\ c' = CloseSocket(a, 1)
    BY PhaseOK, Zenon DEF WriteFails, WriteUnarmed, SocketError, Running
  <1>2. Safe(a) /\ Session(a) /\ Directed(a) /\ (a = c \/ Announces(c, a))
    BY <1>1, AnnouncedTalk, Zenon
  <1> HIDE DEF a
  <1>3. Session(c') /\ Directed(c') /\ Moves(a, c')
    BY <1>1, <1>2, CloseSocketMoves, Zenon DEF Safe
  <1>4. CASE a = c
    BY <1>1, <1>3, <1>4, MoveOK
  <1>5. CASE Announces(c, a)
    <2>1. c'.token = 0 /\ c'.net = a.net /\ c'.nextToken = a.nextToken
      BY <1>1, <1>2, CloseSocketOK, ZenonT(30) DEF Safe, Good
    <2>2. c'.sock = "none" /\ c'.handshake = Demote(a.handshake)
      <3>1. a \in Conn /\ InBounds(a.pool) /\ c' = CloseSocket(a, 1)
        BY <1>1, <1>2, Zenon DEF Safe, Good
      <3>2. Shut(a, CloseSocket(a, 1))
        BY <3>1, CloseSocketShuts, Zenon
      <3>3. QED
        BY <3>1, <3>2, Zenon DEF Shut
    <2>3. LinkStep
      BY <1>1, <1>5, <2>1, <2>2, AnnounceLink
    <2>4. QED
      BY <1>1, <1>3, <2>3, TalkOK, Zenon
  <1>6. QED
    BY <1>2, <1>4, <1>5, Zenon

-----------------------------------------------------------------------------
(* The end of the round *)

\* beginHandshake is the link's Begin.
LEMMA ServiceHandshakeTalk ==
  ASSUME Inv, Inv', Talk, NEW opens \in BOOLEAN, ServiceHandshake(opens)
  PROVE  Talk' /\ LinkStep
  <1> DEFINE ing == [c EXCEPT !.handshake = "Ing"]
             z == CloseConnect(ing)
  <1>1. /\ pc # "parse" /\ pc' # "parse" /\ Running /\ Running' /\ uin' = uin /\ uin # 0
        /\ buf' = buf /\ c.handshake = "Idel"
    BY DEF ServiceHandshake, Running, IsHandshakeing
  <1>2. c' = Connect(z, opens)
    BY DEF ServiceHandshake, BeginHandshake
  <1>3. ing \in Conn
    <2>1. "Ing" \in Handshakes
      BY DEF Handshakes
    <2>2. QED
      BY <2>1, Zenon DEF Inv, Safe, Good, Conn
  <1>4. /\ SameSocket(c, ing) /\ ing.pool = c.pool /\ ing.status = c.status
        /\ ing.timer = c.timer /\ ing.handshake = "Ing" /\ ing.out = c.out
        /\ ing.server = c.server /\ ing.inbox = c.inbox
    BY DEF Inv, Safe, Good, Conn, SameSocket
  <1> HIDE DEF ing
  <1>5. Good(ing) /\ Session(ing)
    BY <1>3, <1>4, Zenon DEF Inv, Safe, Good, Coherent, SameSocket, Talk, Session
  <1>6. /\ Good(z) /\ Follows(ing, z) /\ z.sock = "none" /\ z.token = 0
    BY <1>5, CloseConnectOK
  <1>7. Session(z) /\ Directed(z)
    BY <1>5, CloseConnectMoves, Zenon
  <1> HIDE DEF z
  <1>8. Session(c') /\ Directed(c') /\ Moves(z, c')
    BY <1>2, <1>6, <1>7, ConnectMoves
  <1>9. Safe(c') /\ Follows(z, c')
    BY <1>2, <1>6, ConnectOK, ZenonT(30)
  <1>10. c'.net = c.net /\ c'.nextToken = c.nextToken /\ c'.token = 0
    BY <1>4, <1>6, <1>9 DEF Follows, SameSocket
  <1>11. c'.handshake = "Ing"
    <2>1. c'.status # "Connected" /\ c'.handshake \in {"Idel", "Ing", "Successed"}
      BY <1>9, <1>10 DEF Safe, Good, Coherent, Conn, Handshakes
    <2>2. c'.handshake # "Idel" /\ c'.handshake # "Successed"
      BY <1>4, <1>6, <1>8, <1>9, <2>1, Zenon DEF Follows, IsHandshakeing, Session
    <2>3. QED
      BY <2>1, <2>2
  <1>12. c'.sock # "none" => c.net
    BY <1>4, <1>6, <1>8, Zenon DEF Moves, Opens, Demotes, Closes, SameOpen, Follows, SameSocket
  <1>13. c.net \in BOOLEAN
    BY Zenon DEF Inv, Safe, Good, Conn
  <1>14. L!Begin
    BY <1>1, <1>10, <1>11, <1>12, <1>13, Zenon DEF L!Begin
  <1>15. QED
    BY <1>1, <1>8, <1>14, TalkOK DEF LinkStep, L!LinkNext

\* Joining a pause without a connection ends the process.
LEMMA JoinPauseTalk ==
  ASSUME Inv, Talk, JoinPause
  PROVE  Talk' /\ LinkStep
  <1>1. /\ pc = "service" /\ pc' = "crashed" /\ Running
        /\ uin' = uin /\ buf' = buf /\ c' = c /\ ~IsHandshakeing(c)
    BY Zenon DEF JoinPause, Running
  <1>2. Talk'
    BY <1>1, TalkOK, Zenon DEF Talk
  <1>3. QED
    BY <1>1, <1>2, CrashLink, Zenon

\* sendPing sends, connects, or ends the process of a logged-out client.
LEMMA ServicePingTalk ==
  ASSUME Inv, Inv', Talk, NEW opens \in BOOLEAN, NEW rearms \in BOOLEAN,
         ServicePing(opens, rearms)
  PROVE  Talk' /\ LinkStep
  <1>1. pc # "parse" /\ pc' # "parse" /\ Running /\ uin' = uin /\ buf' = buf
    BY DEF ServicePing, WithConnection, Running
  <1>2. CASE IsHandshakeing(c)
    <2>1. c' = SendData(c, "data", opens, rearms) /\ pc' = "process"
      BY <1>2, ZenonT(30) DEF ServicePing, WithConnection, SendPing
    <2>2. Session(c') /\ Directed(c') /\ Moves(c, c')
      BY <2>1, SendDataMoves DEF Inv, Safe, Talk
    <2>3. QED
      BY <1>1, <2>1, <2>2, MoveOK DEF Running
  <1>3. CASE ~IsHandshakeing(c)
    <2>1. c' = c /\ pc' = "crashed"
      BY <1>3 DEF ServicePing, WithConnection
    <2>2. Talk'
      BY <1>1, <2>1, TalkOK, Zenon DEF Talk
    <2>3. QED
      BY <1>1, <1>3, <2>1, <2>2, CrashLink
  <1>4. QED
    BY <1>2, <1>3

-----------------------------------------------------------------------------
(* The kernel and the server *)

\* The server answers a handshake it was asked, once; nothing else it or the kernel
\* does shows in the link.
LEMMA EnvironmentTalk ==
  ASSUME Inv, Talk, Environment
  PROVE  Talk' /\ LinkStep
  <1>1. c \in Conn /\ c.inbox \in Seq(Packets)
    BY Zenon DEF Inv, Safe, Good, Conn
  <1>2. /\ UNCHANGED <<uin, pc, buf, old>> /\ Running /\ Running' /\ c.sock # "none"
    BY Zenon DEF Environment, Establish, Reset, Finish, Answer, Push, Kernel, loop, Running
  \* what the server and the kernel cannot touch
  <1>3. ASSUME c'.sock # "none", c'.net = c.net, c'.nextToken = c.nextToken,
               c'.token = c.token, c'.handshake = c.handshake, c'.pool = c.pool,
               c'.peer = c.peer, c'.status = c.status, c'.out = c.out, c'.shown = c.shown,
               OneVerdict(c'.inbox),
               \/ c'.server = c.server /\ (NoVerdict(c.inbox) => NoVerdict(c'.inbox))
               \/ c'.server = "answered" /\ c.server = "asked"
        PROVE  Talk' /\ LinkStep
    <2>1. Session(c')
      BY <1>3, Zenon DEF Talk, Session
    <2>2. Directed(c')
      BY <1>2, <1>3, Zenon DEF Talk, Directed
    <2>3. Talk'
      BY <1>2, <1>3, <2>1, <2>2, Zenon DEF Talk
    <2>4. LinkStep
      BY <1>2, <1>3, Zenon DEF LinkStep, L!linkVars
    <2>5. QED
      BY <2>3, <2>4
  <1>4. OneVerdict(c.inbox) /\ (c.server # "answered" => NoVerdict(c.inbox))
    BY DEF Talk, Session
  <1>5. CASE Establish \/ Finish
    <2>1. PICK k : k # "none" /\ c' = [c EXCEPT !.sock = k]
      BY <1>5 DEF Establish, Finish, Kernel
    <2>2. QED
      BY <1>1, <1>3, <1>4, <2>1 DEF Conn
  <1>6. CASE Reset
    <2>1. c' = [c EXCEPT !.sock = "err", !.inbox = <<>>]
      BY <1>6 DEF Reset, Kernel
    <2>2. c'.inbox = <<>>
      BY <1>1, <2>1 DEF Conn
    <2>3. OneVerdict(c'.inbox) /\ NoVerdict(c'.inbox)
      BY <2>2, EmptyOK
    <2>4. QED
      BY <1>1, <1>3, <2>1, <2>3 DEF Conn
  <1>7. ASSUME NEW p \in Packets, Answer(p) PROVE Talk' /\ LinkStep
    <2> DEFINE i == Append(c.inbox, p)
    <2>1. c' = [c EXCEPT !.inbox = i, !.server = "answered"] /\ c.server = "asked"
          /\ c.sock = "up"
      BY <1>7 DEF Answer, Kernel
    <2>2. OneVerdict(i)
      BY <1>1, <1>4, <2>1, AppendOK
    <2> HIDE DEF i
    <2>3. c'.inbox = i
      BY <1>1, <2>1 DEF Conn
    <2>4. QED
      BY <1>1, <1>3, <2>1, <2>2, <2>3 DEF Conn
  <1>8. ASSUME NEW p \in Packets, Push(p) PROVE Talk' /\ LinkStep
    <2> DEFINE i == Append(c.inbox, p)
    <2>1. c' = [c EXCEPT !.inbox = i] /\ p \notin Verdicts /\ c.sock = "up"
      BY <1>8 DEF Push, Kernel, Verdicts
    <2>2. OneVerdict(i) /\ (NoVerdict(c.inbox) => NoVerdict(i))
      BY <1>1, <1>4, <2>1, AppendOK
    <2> HIDE DEF i
    <2>3. c'.inbox = i
      BY <1>1, <2>1 DEF Conn
    <2>4. QED
      BY <1>1, <1>3, <2>1, <2>2, <2>3 DEF Conn
  <1>9. QED
    BY <1>5, <1>6, <1>7, <1>8 DEF Environment

-----------------------------------------------------------------------------
(* The results *)

\* A connection that was never opened has no session; it is the link's beginning.
LEMMA InitTalk == Init => Talk /\ L!LinkInit
  <1> SUFFICES ASSUME Init PROVE Talk /\ L!LinkInit
    OBVIOUS
  <1>1. c = NewConn /\ uin \in Uins /\ pc = "tasks1" /\ buf = <<>>
    BY DEF Init
  <1>2. Session(c) /\ Directed(c)
    BY <1>1, SilentOK, Zenon DEF NewConn
  <1>3. Talk
    BY <1>1, <1>2, EmptyOK DEF Talk
  <1>4. L!LinkInit
    BY <1>1, Zenon DEF NewConn, L!LinkInit
  <1>5. QED
    BY <1>3, <1>4

\* Every step of the network thread keeps the session honest and is one of the link.
LEMMA NetworkThreadTalk ==
  ASSUME Inv, Inv', Talk, NetworkThread
  PROVE  Talk' /\ LinkStep
  <1>1. \A rearms \in {TRUE, ~EpollFails} : rearms \in BOOLEAN
    BY Zenon
  <1>2. CASE LoginTask \/ LogoutTask \/ ScreenOnTask \/ AddSvrTask \/ RequestTask
    BY <1>2, LoginTaskTalk, LogoutTaskTalk, ScreenOnTaskTalk, AddSvrTaskTalk, ProcessTalk, Zenon
  <1>3. CASE EpollWait \/ ReadError \/ RecvFails \/ Recv \/ RecvNothing
    BY <1>3, WaitTalk, ClosesTalk, RecvTalk
  <1>4. CASE ParsePartial \/ ParseOther \/ ParseAccept \/ ParseDone
    BY <1>4, ParseTalk, ParseDoneTalk, Zenon
  <1>5. CASE WriteError \/ Hangup \/ CheckTimeout \/ JoinPause \/ ServiceNoPing
             \/ ProcessNothing
    BY <1>5, ClosesTalk, WaitTalk, JoinPauseTalk, ProcessTalk, Zenon
  <1>6. ASSUME NEW opens \in BOOLEAN,
               \/ NetworkTask(opens) \/ SetSvrTask(opens) \/ CallEvents(opens)
               \/ ParseBad(opens) \/ ParseReject(opens) \/ ServiceHandshake(opens)
               \/ ProcessConnect(opens)
        PROVE  Talk' /\ LinkStep
    BY <1>6, NetworkTaskTalk, SetSvrTaskTalk, CallEventsTalk, ParseTalk,
       ServiceHandshakeTalk, ProcessTalk
  <1>7. ASSUME NEW opens \in BOOLEAN, NEW rearms \in {TRUE, ~EpollFails},
               NEW resetPing \in BOOLEAN,
               ProcessSend(opens, rearms, resetPing) \/ ServicePing(opens, rearms)
        PROVE  Talk' /\ LinkStep
    BY <1>1, <1>7, ProcessTalk, ServicePingTalk, Zenon
  <1>8. ASSUME NEW rearms \in {TRUE, ~EpollFails},
               \/ WriteFails(rearms) \/ WriteUnarmed(rearms)
               \/ \E left \in SUBSET {"handshake", "data"} : WriteSome(rearms, left)
        PROVE  Talk' /\ LinkStep
    BY <1>1, <1>8, WriteFailsTalk, WriteSomeTalk, Zenon
  <1>9. QED
    BY <1>2, <1>3, <1>4, <1>5, <1>6, <1>7, <1>8, Zenon DEF NetworkThread

\* So does and is every step of the system.
LEMMA NextTalk == Inv /\ Inv' /\ Talk /\ [Next]_vars => Talk' /\ LinkStep
  <1> SUFFICES ASSUME Inv, Inv', Talk, [Next]_vars PROVE Talk' /\ LinkStep
    OBVIOUS
  <1>1. CASE Next
    BY <1>1, JavaCallsTalk, NetworkThreadTalk, EnvironmentTalk, ZenonT(30) DEF Next
  <1>2. CASE UNCHANGED vars
    <2>1. UNCHANGED <<c, uin, pc, buf, old>> /\ Running' = Running
      BY <1>2 DEF vars, Running
    <2>2. QED
      BY <2>1, IdleLink DEF Talk
  <1>3. QED
    BY <1>1, <1>2

\* The server's answer is where the invariant says, in every reachable state.
THEOREM TalkInvariance == Spec => []Talk
  BY InitTalk, Invariance, NextTalk, PTL DEF Spec

\* A session is established only on the socket whose handshake the server answered
\* and the application accepted, however the replacement of the connection, the
\* parse loop and the kernel interleave.
THEOREM SessionOfThisSocket == Spec => []SessionIsOfThisSocket
  <1>1. Talk => SessionIsOfThisSocket
    BY Zenon DEF Talk, Session, SessionIsOfThisSocket
  <1>2. QED
    BY <1>1, TalkInvariance, PTL

\* The application is not told "connecting" while it has a session.
THEOREM SessionShown == Spec => []SessionIsShown
  <1>1. Talk => SessionIsShown
    BY Zenon DEF Talk, Session, SessionIsShown
  <1>2. QED
    BY <1>1, TalkInvariance, PTL

\* A connection that is open goes to the server in force, whatever the order of
\* setSvrAddr, addSvrAddr, failures and failover.
THEOREM ForcedServer == Spec => []ForcedServerIsUsed
  <1>1. Talk => ForcedServerIsUsed
    BY DEF Talk, Directed, ForcedServerIsUsed
  <1>2. QED
    BY <1>1, TalkInvariance, PTL

\* The detailed specification of the loop, the tasks and the callbacks implements the
\* abstract link that the request queue relies on.
THEOREM LinkImplemented == Spec => ImplementsLink
  <1>1. Spec => [][LinkStep]_vars /\ L!LinkInit
    BY InitTalk, Invariance, TalkInvariance, NextTalk, PTL DEF Spec
  <1>2. [LinkStep]_vars => [L!LinkNext]_(L!linkVars)
    BY IdleLink DEF LinkStep, vars, Running
  <1>3. QED
    BY <1>1, <1>2, PTL DEF ImplementsLink, L!LinkSpec
=============================================================================
