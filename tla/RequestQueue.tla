---------------------------- MODULE RequestQueue ----------------------------
(***************************************************************************)
(* The requests of the application (ConnectionsManager::senRequest,        *)
(* processRequestQueue, sendMessageToConnection, clearUp and the matching  *)
(* of replies), over the abstract link of module Link.                     *)
(*                                                                         *)
(* One round of select() runs the scheduled tasks, handles one event of    *)
(* the socket (its readable bit, then its writable bit), and ends with a   *)
(* handshake or with processRequestQueue; phase says where the network     *)
(* thread is.  processRequestQueue decides                                 *)
(* the fate of every request from the same token, handshake state and      *)
(* network, so it is one action.                                           *)
(***************************************************************************)
EXTENDS Link, Sequences, FiniteSets

CONSTANTS
    Requests,   \* the requests the application will make
    MaxRetry,   \* DEFAULT_RETRY_COUNT
    Calls,      \* the other Java calls of this instance
    MaxTasks,   \* bound on the task queue
    MaxTokens   \* bound on the connections announced

ASSUME RequestAssumption == MaxRetry \in Nat /\ MaxTasks \in Nat /\ MaxTokens \in Nat

VARIABLES
    phase,    \* "tasks", "read", "write", "service" or "crashed"
    tasks,    \* the scheduled tasks
    queue,    \* requestsQueue
    running,  \* runningRequests
    req,      \* the fields of each Request
    seq,      \* ConnectionsManager::seq
    done,     \* the codes each request was completed with
    copies,   \* how often each request is in the stream of the open socket
    written,  \* requests that were ever in a stream
    replied   \* requests the server has answered

queueVars == <<tasks, queue, running, req, seq, done, copies, written, replied>>

vars == <<linkVars, phase, queueVars>>

\* The Java side sets exactly one of the three flags, or none.
Flags == {"None", "WithoutAck", "ReSend", "WithoutLogin"}

Codes == {"OK", "WithoutConnectin", "WithoutLogin", "ConnectFail", "Timeout", "RetryLimit"}

Tasks == ({"request"} \X Requests) \cup ({"login"} \X Uins)
         \cup ({"network"} \X BOOLEAN) \cup ({"logout"} \X {0})

NoCopies == [r \in Requests |-> 0]

Init ==
    /\ LinkInit
    /\ phase = "tasks"
    /\ tasks = <<>> /\ queue = <<>> /\ running = <<>>
    /\ req = [r \in Requests |->
                 [flag |-> "None", seq |-> 0, token |-> 0, retries |-> 0]]
    /\ seq = 0
    /\ done = [r \in Requests |-> <<>>]
    /\ copies = NoCopies
    /\ written = {} /\ replied = {}

Elements(s) == {s[i] : i \in DOMAIN s}

\* The elements of list s that are in T, in order.
Only(s, T) ==
    LET kept[i \in 0 .. Len(s)] ==
            IF i = 0 THEN <<>>
            ELSE IF s[i] \in T THEN Append(kept[i - 1], s[i]) ELSE kept[i - 1]
    IN  kept[Len(s)]

Scheduled == {tasks[i][2] : i \in {j \in DOMAIN tasks : tasks[j][1] = "request"}}

\* Requests the application has made and that have not been completed.
InFlight == Scheduled \cup Elements(queue) \cup Elements(running)

Fresh == {r \in Requests : r \notin InFlight /\ done[r] = <<>>}

-----------------------------------------------------------------------------
(* Java threads *)

Refusal == "WithoutLogin"

\* senRequest: refused at once while logged out, scheduled otherwise.
SenRequest(r, f) ==
    /\ r \in Fresh
    /\ req' = [req EXCEPT ![r].flag = f]
    /\ IF uin = 0
       THEN done' = [done EXCEPT ![r] = Append(@, Refusal)] /\ UNCHANGED tasks
       ELSE tasks' = Append(tasks, <<"request", r>>) /\ UNCHANGED done
    /\ UNCHANGED <<linkVars, phase, queue, running, seq, copies, written, replied>>

\* setUin, clearUp and setNetworkAvailable, as far as the queue can tell.
ScheduleTask(t) ==
    /\ t[1] \in Calls
    /\ Len(tasks) < MaxTasks
    /\ t[1] = "login" => t[2] # uin
    /\ tasks' = Append(tasks, t)
    /\ UNCHANGED <<linkVars, phase, queue, running, req, seq, done, copies, written,
                   replied>>

JavaCalls ==
    \/ \E r \in Requests, f \in Flags : SenRequest(r, f)
    \/ \E t \in Tasks : t[1] # "request" /\ ScheduleTask(t)

-----------------------------------------------------------------------------
(* processRequestQueue *)

ReSends(r) == req[r].flag = "ReSend"

\* "the connection changed", and the request may go out on the new one.
MustResend(r, h) ==
    /\ token > 0 /\ token # req[r].token
    /\ h = "Successed" \/ req[r].flag = "WithoutLogin"

\* Mutant: the timeouts of a request that may be sent again are not counted.
TimeoutFateUncounted(r) == IF ReSends(r) THEN "wait" ELSE "Timeout"

TimeoutFate(r) ==
    IF ~ReSends(r) THEN "Timeout"
    ELSE IF req[r].retries + 1 > MaxRetry THEN "RetryLimit" ELSE "retry"

\* What the first loop does with a request that waits for its reply; h is the
\* handshake state after getConnection(true), expired the requests for which
\* isTimeout is true.
RunningFate(r, h, expired) ==
    IF (~net \/ token = 0) /\ ~ReSends(r) THEN "ConnectFail"
    ELSE IF MustResend(r, h) THEN "resend"
    ELSE IF r \in expired THEN TimeoutFate(r) ELSE "wait"

\* Mutant: the connection is not compared with nullptr.
QueueFateNoNullCheck(r, h) ==
    IF token = 0 THEN IF ReSends(r) THEN "send" ELSE "WithoutConnectin"
    ELSE IF h = "Successed" \/ req[r].flag = "WithoutLogin" THEN "send" ELSE "WithoutLogin"

\* Mutant: a request stays queued until there is a session.
QueueFateStays(r, h) ==
    IF token # 0 /\ (h = "Successed" \/ req[r].flag = "WithoutLogin") THEN "send" ELSE "wait"

\* What the second loop does with a new request.
QueueFate(r, h) ==
    IF handshake = "Idel" THEN "wait"
    ELSE IF token = 0 THEN IF ReSends(r) THEN "send" ELSE "WithoutConnectin"
    ELSE IF h = "Successed" \/ req[r].flag = "WithoutLogin" THEN "send" ELSE "WithoutLogin"

\* How often each request is in the messages s.
Count(s) == [r \in Requests |-> Cardinality({i \in DOMAIN s : s[i] = r})]

\* Mutant: the socket is closed and nobody is told.
ConnectionLostSilently == UNCHANGED <<handshake, token>>

\* onDisconnected, as far as the requests can tell.
ConnectionLost == handshake' = Demoted /\ token' = 0

\* What becomes of the connection and of the messages, which are cut into sends
\* of about 3 KB.  Either all are queued on the open socket, or a prefix is lost:
\* sendData drops the buffer when it finds the connection closed and reconnects,
\* and an EPOLL_CTL_MOD that fails closes the socket with what was queued.
Transmit(h, touched, needed) ==
    /\ UNCHANGED <<uin, net, next>>
    /\ \/ /\ needed = <<>>
          /\ open' \in {open, open \/ (touched /\ h # "Idel" /\ net)}
          /\ handshake' = h
          /\ UNCHANGED <<token, copies, written>>
       \/ /\ needed # <<>> /\ (open \/ net)
          /\ open' = TRUE /\ handshake' = h
          /\ copies' = [r \in Requests |-> copies[r] + Count(needed)[r]]
          /\ written' = written \cup Elements(needed)
          /\ UNCHANGED token
       \/ \E k \in 2 .. Len(needed) + 1 :
             LET kept == SubSeq(needed, k, Len(needed))
             IN  /\ needed # <<>>
                 /\ kept # <<>> => net /\ (open => k > 2)
                 /\ open' \in IF kept = <<>> THEN {FALSE, net} ELSE {TRUE}
                 /\ ConnectionLost
                 /\ copies' = Count(kept)
                 /\ written' = written \cup Elements(kept)

\* Mutant: the counter is read and not advanced.
GenerateMessageSeqSame(n) == seq

\* seq after n more messages.
GenerateMessageSeq(n) == seq + n

\* The handshake state after getConnection(true), which connect() demotes when there
\* is no network; it is not called when both lists are empty.
Touched(q) == IF net \/ q \o running = <<>> THEN handshake ELSE Demoted

\* What becomes of a request, with q in requestsQueue.
Fate(r, q, expired) ==
    IF r \in Elements(running) THEN RunningFate(r, Touched(q), expired)
    ELSE IF r \in Elements(q) THEN QueueFate(r, Touched(q)) ELSE "absent"

\* The requests of list s that meet one of these fates, in order.
Meeting(s, fates, q, expired) ==
    Only(s, {r \in Requests : Fate(r, q, expired) \in fates})

Resends(q, expired) == Meeting(running, {"resend"}, q, expired)

Sends(q, expired) == Meeting(q, {"send"}, q, expired)

\* The requests that stay until a reply comes.
Acked == {r \in Requests : req[r].flag # "WithoutAck"}

\* The fields of request r afterwards.
Processed(r, q, expired) ==
    LET sends == Sends(q, expired)
    IN  CASE Fate(r, q, expired) = "resend" -> [req[r] EXCEPT !.token = token]
          [] Fate(r, q, expired) = "retry"  -> [req[r] EXCEPT !.retries = @ + 1]
          [] Fate(r, q, expired) = "send"   ->
                 [req[r] EXCEPT !.token = token,
                     !.seq = GenerateMessageSeq((CHOOSE i \in DOMAIN sends : sends[i] = r) - 1)]
          [] OTHER -> req[r]

\* The codes it has been completed with.
Completed(r, q, expired) ==
    IF Fate(r, q, expired) \in Codes THEN Append(done[r], Fate(r, q, expired))
    ELSE IF Fate(r, q, expired) = "send" /\ r \notin Acked THEN Append(done[r], "OK")
    ELSE done[r]

\* The whole of processRequestQueue, with q in requestsQueue.
Process(q, expired) ==
    /\ Transmit(Touched(q), q \o running # <<>>, Resends(q, expired) \o Sends(q, expired))
    /\ running' = Meeting(running, {"resend", "retry", "wait"}, q, expired)
                  \o Only(Sends(q, expired), Acked)
    /\ queue' = Meeting(q, {"wait"}, q, expired)
    /\ seq' = GenerateMessageSeq(Len(Sends(q, expired)))
    /\ req' = [r \in Requests |-> Processed(r, q, expired)]
    /\ done' = [r \in Requests |-> Completed(r, q, expired)]
    /\ UNCHANGED replied

-----------------------------------------------------------------------------
(* The network thread: the tasks *)

Expiries == SUBSET Elements(running)

RunRequest ==
    /\ phase = "tasks" /\ tasks # <<>> /\ Head(tasks)[1] = "request"
    /\ tasks' = Tail(tasks)
    /\ \E expired \in Expiries : Process(Append(queue, Head(tasks)[2]), expired)
    /\ UNCHANGED phase

\* clearUp: every request is completed and the connection is closed; without a
\* connection the call is on a null pointer.  Line 573 erases the running requests
\* through the other list, which for a std::list unlinks them where they are; only
\* the sizes of the lists go wrong, and nothing reads them.
ClearUp ==
    /\ phase = "tasks" /\ tasks # <<>> /\ Head(tasks)[1] = "logout"
    /\ tasks' = Tail(tasks)
    /\ Logout
    /\ phase' = IF handshake = "Idel" THEN "crashed" ELSE phase
    /\ queue' = <<>> /\ running' = <<>>
    /\ done' = [r \in Requests |-> IF r \in Elements(queue \o running)
                                   THEN Append(done[r], "WithoutLogin") ELSE done[r]]
    /\ copies' = NoCopies
    /\ UNCHANGED <<req, seq, written, replied>>

RunOther ==
    /\ phase = "tasks" /\ tasks # <<>>
    /\ tasks' = Tail(tasks)
    /\ \/ Head(tasks)[1] = "login" /\ Login(Head(tasks)[2])
       \/ Head(tasks)[1] = "network" /\ Network(Head(tasks)[2])
    /\ UNCHANGED <<phase, queue, running, req, seq, done, copies, written, replied>>

EndTasks ==
    /\ phase = "tasks" /\ tasks = <<>>
    /\ phase' = "read"
    /\ UNCHANGED <<linkVars, queueVars>>

-----------------------------------------------------------------------------
(* The network thread: the event of the socket *)

\* Mutant: the request is completed and stays in the list.
EraseNothing(i) == running

Erase(i) == SubSeq(running, 1, i - 1) \o SubSeq(running, i + 1, Len(running))

\* A reply, found by its seq: the first running request with that seq is
\* completed, and without one the packet goes to the application as a push.
Reply(q) ==
    LET matching == {i \in DOMAIN running : req[running[i]].seq = req[q].seq}
    IN  /\ phase = "read" /\ q \in written
        /\ replied' = replied \cup {q}
        /\ IF matching = {} THEN UNCHANGED <<running, done>>
           ELSE LET i == CHOOSE j \in matching : \A k \in matching : j <= k
                IN  /\ done' = [done EXCEPT ![running[i]] = Append(@, "OK")]
                    /\ running' = Erase(i)
        /\ UNCHANGED <<linkVars, phase, tasks, queue, req, seq, copies, written>>

HandshakeAccepted ==
    /\ phase = "read" /\ Accept
    /\ UNCHANGED <<phase, queueVars>>

\* The writable bit comes after the readable one, once.
Announced ==
    /\ phase = "read" /\ next < MaxTokens + 1 /\ Announce
    /\ phase' = "write"
    /\ copies' = IF open' THEN copies ELSE NoCopies
    /\ UNCHANGED <<tasks, queue, running, req, seq, done, written, replied>>

EndEvents ==
    /\ phase \in {"read", "write"}
    /\ phase' = "service"
    /\ UNCHANGED <<linkVars, queueVars>>

\* Errors, hang-ups, timeouts, reconnects and the reconnect timer.
ConnectionMoves ==
    /\ phase # "crashed"
    /\ \/ (Open \/ Demote) /\ UNCHANGED copies
       \/ Close /\ copies' = NoCopies
    /\ UNCHANGED <<phase, tasks, queue, running, req, seq, done, written, replied>>

-----------------------------------------------------------------------------
(* The network thread: the end of the round *)

BeginHandshake ==
    /\ phase = "service" /\ Begin
    /\ phase' = "tasks"
    /\ copies' = NoCopies
    /\ UNCHANGED <<tasks, queue, running, req, seq, done, written, replied>>

Service(expired) ==
    /\ phase = "service" /\ ~(uin # 0 /\ handshake = "Idel")
    /\ Process(queue, expired)
    /\ phase' = "tasks"
    /\ UNCHANGED tasks

NetworkThread ==
    \/ RunRequest \/ ClearUp \/ RunOther \/ EndTasks
    \/ (\E q \in Requests : Reply(q)) \/ HandshakeAccepted \/ Announced \/ EndEvents
    \/ ConnectionMoves \/ BeginHandshake
    \/ \E expired \in Expiries : Service(expired)

Next == JavaCalls \/ NetworkThread

Spec == Init /\ [][Next]_vars

\* The thread keeps running its rounds; the Java side does not refill the task
\* queue forever; a request that waits forever is at some round found expired (one
\* that is sent again meanwhile may be counted among the expired: it is sent again
\* all the same).
Fairness ==
    /\ WF_vars(RunRequest \/ ClearUp \/ RunOther)
    /\ SF_vars(EndTasks)
    /\ WF_vars(EndEvents)
    /\ WF_vars(BeginHandshake)
    /\ WF_vars(\E expired \in Expiries : Service(expired))
    /\ \A r \in Requests :
          SF_vars(\E expired \in Expiries : r \in expired /\ Service(expired))

FairSpec == Spec /\ Fairness

-----------------------------------------------------------------------------
(* Properties *)

\* In how many places a request is: scheduled, queued, running, completed.
Places(r) ==
    Cardinality({i \in DOMAIN tasks : tasks[i] = <<"request", r>>})
    + Count(queue)[r] + Count(running)[r] + Len(done[r])

\* A request is never lost and never completed twice, whatever order replies,
\* timeouts, failures, logouts and reconnects come in: once senRequest has taken
\* it, it is in one of tasks, requestsQueue and runningRequests, or its callback
\* has been called exactly once.
CompletedOnce ==
    [][\A r \in Requests : Places(r)' # Places(r) => Places(r) = 0 /\ Places(r)' = 1]_vars

\* While a request waits for its reply there is a connection object: the first
\* loop of processRequestQueue uses getConnection(true) without a null check.
RunningHasConnection == running # <<>> => handshake # "Idel"

\* A request that waits on the announced connection is in the stream of that
\* very connection: it never waits out its timeout for a message that was
\* dropped or that went down with an earlier socket.
WaitingMeansSent ==
    \A r \in Elements(running) : token # 0 /\ req[r].token = token => copies[r] > 0

\* A request that expects a reply completes with success only by the reply to
\* its own message: seq identifies it among the running requests.
OwnReply ==
    \A r \in Requests :
        done[r] = <<"OK">> => r \in replied \/ req[r].flag = "WithoutAck"

\* Line 345 destroys a request without reply, and gives back its buffer, before
\* sendMessageToConnection copies that buffer: it is alone in its batch, so no
\* later message of the same batch is serialized over it.
UnacknowledgedAlone ==
    [][\A r \in Requests :
          req[r].flag = "WithoutAck" /\ done[r] = <<>> /\ done'[r] = <<"OK">>
          => \A q \in Requests \ {r} : req'[q].token = req[q].token]_vars

\* The request code moves the connection only as module Link allows, which
\* LongLink is shown to implement: opening it, losing it, demoting the session.
DrivesLink == LinkSpec

\* Every request is completed, unless its user logs out, once no further connection
\* is announced.  Before that nothing bounds its life: each new token sends it again
\* and restarts its clock (lines 242-260) without counting a retry, so that a link
\* which drops within every timeout keeps it in flight for ever.
RequestsComplete ==
    <>[][next' = next]_vars =>
        \A r \in Requests :
            r \in InFlight ~> (r \notin InFlight \/ uin = 0 \/ phase = "crashed")
=============================================================================
