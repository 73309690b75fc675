----------------------------- MODULE KeepAlive ------------------------------
(***************************************************************************)
(* The clocks of the link: the timeout of the socket, the heartbeat, and   *)
(* the pause that a dark screen brings about, across logouts and changes   *)
(* of the wall clock, which getCurrentTimeMillis reads.  The server is a   *)
(* healthy one: it answers the handshake and every ping within a tick.     *)
(*                                                                         *)
(* Dates are kept as ages in ticks of 5 seconds, as the wall clock shows   *)
(* them: setting the clock changes every age, to a negative one perhaps.   *)
(* pc says where in select() the thread is:                                *)
(*   first    the first checkPendingTasks                                  *)
(*   late     the same, after it has run a task, whose wakeup may be still *)
(*            to come or may have been read already                        *)
(*   asleep   in epoll_wait, for at most sleep ticks of real time, logged  *)
(*            out until a task is scheduled                                *)
(*   second   from the second checkPendingTasks to the end of the round    *)
(***************************************************************************)
EXTENDS Integers, Sequences

CONSTANTS
    RetryTimeout,    \* setTimeout(8), rounded up to whole ticks
    ConnectTimeout,  \* setTimeout(15)
    HeardTimeout,    \* setTimeout(30)
    PausedTimeout,   \* setTimeout(70)
    NormalPing,      \* NORMAL_PING_INTERVAL
    PushPing,        \* PUSH_PING_INTERVAL
    KeepTime,        \* CONNECTION_BACKGROUND_KEEP_TIME
    Rewind,          \* the 50 seconds of line 179
    Jumps,           \* by how much the wall clock may be set forward or back
    MaxTasks         \* bound on the scheduled tasks

None == 1000  \* the date 0: never; the timeout -1: for ever

ASSUME ClockAssumption ==
    /\ {RetryTimeout, ConnectTimeout, HeardTimeout, PausedTimeout, NormalPing,
        PushPing, KeepTime, Rewind, MaxTasks} \subseteq Nat
    /\ Rewind <= KeepTime /\ KeepTime < None
    /\ 0 < PushPing /\ PushPing < None
    /\ Jumps \subseteq Int

\* The heartbeat leaves its answer a tick before the timeout.
ASSUME IntervalAssumption ==
    /\ 0 < NormalPing /\ NormalPing <= PushPing
    /\ NormalPing < HeardTimeout /\ PushPing < PausedTimeout

VARIABLES
    uin,       \* 1 when logged in, 0 otherwise
    service,   \* CoreService is started, its receivers registered
    link,      \* "off" (no handshake begun: getConnection(false) is null),
               \* "connecting", "up" (announced), "heard" (data received) or
               \* "crashed" (the null connection was dereferenced)
    timeout,   \* TcpSocket::timeout
    event,     \* age of lastEventTime
    send,      \* age of lastPackSendTime, or None
    pause,     \* age of lastPauseTime, or None; KeepTime while paused: nothing reads it
    paused,    \* networkPaused
    owed,      \* 0, or 1 + the real age of the packet the server has to answer
    tasks,     \* the scheduled tasks
    pc,        \* where the network thread is
    sleep,     \* what is left of the timeout of epoll_wait, 0 elsewhere
    skew,      \* history: how the clock was set since the last packet
    exposed    \* history: paused without the longer timeout, or the clock was set

java == <<uin, service>>

vars == <<java, link, timeout, event, send, pause, paused, owed, tasks, pc, sleep, skew,
          exposed>>

\* native_init is the login of the first round.
Init ==
    /\ uin = 1 /\ service = TRUE
    /\ link = "off" /\ timeout = ConnectTimeout
    /\ event = 0 /\ send = None /\ pause = None /\ paused = FALSE
    /\ owed = 0 /\ tasks = <<>> /\ pc = "late" /\ sleep = 0
    /\ skew = 0 /\ exposed = FALSE

Running == link # "crashed"

Announced == link \in {"up", "heard"}

-----------------------------------------------------------------------------
(* The Java side *)

ScheduleTask(t) ==
    /\ Running /\ Len(tasks) < MaxTasks
    /\ tasks' = Append(tasks, t)
    /\ UNCHANGED <<uin, link, timeout, event, send, pause, paused, owed, pc, sleep, skew,
                   exposed>>

\* CoreService starts: setUin schedules only if the account is not the present one.
Start ==
    /\ service' = TRUE
    /\ IF uin = 0 THEN ScheduleTask("login")
       ELSE Running /\ UNCHANGED <<uin, link, timeout, event, send, pause, paused, owed, tasks,
                                  pc, sleep, skew, exposed>>

\* CoreService is destroyed: the receivers are gone, clearUp is scheduled.
Destroy ==
    /\ service /\ service' = FALSE
    /\ ScheduleTask("logout")

\* The screen goes dark: pauseNetwork runs on the caller's thread.
PauseNetwork ==
    /\ Running /\ service
    /\ pause' = IF pause # None THEN pause ELSE 0
    /\ UNCHANGED <<java, link, timeout, event, send, paused, owed, tasks, pc, sleep, skew,
                   exposed>>

\* resumeNetwork only schedules: from the screen's receiver, or for a push message,
\* which needs no service.
ResumeNetwork(isPush) ==
    /\ service \/ isPush
    /\ ScheduleTask(IF isPush THEN "push" ELSE "resume")
    /\ UNCHANGED service

-----------------------------------------------------------------------------
(* The network thread *)

\* Mutant: setTimeout does not restart the clock.
ClockKept == event

\* The clock after the setTimeout of line 437.
ClockResumed == IF Announced THEN 0 ELSE event

\* checkPendingTasks runs the next task, which does what.
Task(what) ==
    /\ Running /\ pc # "asleep" /\ tasks # <<>> /\ Head(tasks) = what
    /\ tasks' = Tail(tasks) /\ pc' = (IF pc = "second" THEN pc ELSE "late") /\ sleep' = 0
    /\ UNCHANGED <<service, send, skew>>

\* The task of resumeNetwork(true).
PushTask ==
    /\ Task("push")
    /\ pause' = IF paused \/ pause # None THEN 0 ELSE pause
    /\ paused' = FALSE
    /\ UNCHANGED <<uin, link, timeout, event, owed, exposed>>

\* The task of resumeNetwork(false), which needs a connection.
ResumeTask ==
    /\ Task("resume")
    /\ pause' = None /\ paused' = FALSE /\ exposed' = (skew < 0)
    /\ link' = IF link = "off" THEN "crashed" ELSE link
    /\ timeout' = IF Announced THEN HeardTimeout ELSE timeout
    /\ event' = ClockResumed
    /\ UNCHANGED <<uin, owed>>

\* The task of setUin.
LoginTask ==
    /\ Task("login")
    /\ uin' = 1
    /\ UNCHANGED <<link, timeout, event, pause, paused, owed, exposed>>

\* The task of clearUp, which needs a connection and leaves the pause as it is;
\* the rest is of no account until a handshake begins.
LogoutTask ==
    /\ Task("logout")
    /\ uin' = 0
    /\ link' = IF link = "off" THEN "crashed" ELSE "off"
    /\ timeout' = ConnectTimeout /\ event' = 0 /\ owed' = 0 /\ exposed' = FALSE
    /\ UNCHANGED <<pause, paused>>

\* epoll_wait reports an event of the socket, or has reported it in this round.
SocketEvent ==
    /\ pc \in {"asleep", "second"}
    /\ pc' = "second" /\ sleep' = 0

\* The first writable event: the handshake request goes out.
OnConnected ==
    /\ SocketEvent /\ link = "connecting"
    /\ link' = "up" /\ event' = 0 /\ send' = 0 /\ owed' = 1 /\ skew' = 0
    /\ UNCHANGED <<java, timeout, pause, paused, tasks, exposed>>

\* Data from the server; the first of a connection sets its timeout.
OnRecvData ==
    /\ SocketEvent /\ Announced /\ owed # 0
    /\ event' = 0 /\ owed' = 0
    /\ link' = "heard"
    /\ timeout' = IF link = "heard" THEN timeout ELSE HeardTimeout
    /\ exposed' = ((paused /\ timeout' # PausedTimeout) \/ skew < 0)
    /\ UNCHANGED <<java, send, pause, paused, tasks, skew>>

\* The connection is lost; the reconnectTimer is due at once.
Lost(t) ==
    /\ SocketEvent /\ link \in {"connecting", "up", "heard"}
    /\ link' = "connecting" /\ timeout' = t /\ event' = 0 /\ owed' = 0
    /\ exposed' = paused
    /\ UNCHANGED <<java, send, pause, paused, tasks, skew>>

\* A request with a reply goes out in place of a ping.
SendRequest ==
    /\ pc = "second" /\ link = "heard"
    /\ send' = 0 /\ owed' = (IF owed = 0 THEN 1 ELSE owed) /\ skew' = 0
    /\ UNCHANGED <<java, link, timeout, event, pause, paused, tasks, pc, sleep,
                   exposed>>

\* checkTimeout.
TimedOut == event > timeout

\* The timeout after line 154.
TimeoutAfterPause(joins) == IF joins /\ Announced THEN PausedTimeout ELSE timeout

\* Mutant: every ping starts the countdown to the pause again.
PauseRestarted(pausing) == IF pause = None THEN None ELSE 0

\* lastPauseTime after a ping: a ping ends the pause for ten seconds.
PauseAfterPing(pausing) == IF pausing THEN Rewind ELSE pause

\* Mutant: the age of the last packet is not subtracted.
SleepWholeInterval(pingInterval, sent, sleeps) == IF sleeps THEN pingInterval ELSE 1

Abs(n) == IF n < 0 THEN -n ELSE n

\* What callEvents returns; the interval of a paused network is PushPing.
TimeToPing(pingInterval, sent, sleeps) ==
    IF sleeps /\ sent # None /\ Abs(sent) < pingInterval THEN pingInterval - Abs(sent) ELSE 1

\* The pause is due: networkPaused is set.
Joins == pause # None /\ Abs(pause) >= KeepTime /\ ~paused

Pausing == paused \/ Joins

PingInterval == IF Pausing THEN PushPing ELSE NormalPing

Pings == send # None /\ send >= PingInterval

\* The rest of the round with a connection: checkTimeout, joining the pause and
\* the ping.
EndRound ==
    /\ pc = "second" /\ pc' = "first"
    /\ tasks = <<>> /\ link \in {"connecting", "up", "heard"}
    /\ link' = IF TimedOut THEN "connecting" ELSE link
    /\ timeout' = IF TimedOut THEN RetryTimeout ELSE TimeoutAfterPause(Joins)
    /\ event' = IF TimedOut \/ (Joins /\ Announced) THEN 0 ELSE event
    /\ send' = IF Pings THEN 0 ELSE send
    /\ skew' = IF Pings THEN 0 ELSE skew
    /\ pause' = IF Pings THEN PauseAfterPing(Pausing) ELSE IF Joins THEN KeepTime ELSE pause
    /\ paused' = (Pausing /\ ~Pings)
    /\ owed' = IF TimedOut THEN 0
               ELSE IF Pings /\ Announced /\ owed = 0 THEN 1 ELSE owed
    /\ exposed' = ((paused' /\ timeout' # PausedTimeout) \/ (exposed /\ event' # 0) \/ skew < 0)
    /\ UNCHANGED <<java, tasks, sleep>>

\* Mutant: a paused network opens no connection.
NeedsHandshakeAwake == link = "off" /\ uin # 0 /\ ~paused

\* Not isHandshakeing, and logged in.
NeedsHandshake == link = "off" /\ uin # 0

\* The rest of the round without a connection.  Joining the pause and the ping
\* need one, which beginHandshake is only about to open.
EndRoundOff(t) ==
    /\ pc = "second" /\ pc' = "first"
    /\ tasks = <<>> /\ link = "off"
    /\ link' = IF Joins \/ (~NeedsHandshake /\ Pings) THEN "crashed"
               ELSE IF NeedsHandshake THEN "connecting" ELSE "off"
    /\ timeout' = IF NeedsHandshake THEN t ELSE timeout
    /\ event' = IF NeedsHandshake THEN 0 ELSE event
    /\ exposed' = IF NeedsHandshake THEN paused ELSE exposed
    /\ UNCHANGED <<java, send, pause, paused, owed, tasks, sleep, skew>>

\* epoll_wait, with the timeout that callEvents returns, unless the wakeup of a task
\* is still to be read.
EpollWait ==
    /\ pc \in {"first", "late"} /\ tasks = <<>> /\ Running
    /\ \/ /\ pc' = "asleep"
          /\ sleep' = IF uin = 0 THEN None ELSE TimeToPing(PushPing, send, paused)
       \/ pc = "late" /\ pc' = "second" /\ sleep' = 0
    /\ UNCHANGED <<java, link, timeout, event, send, pause, paused, owed, tasks, skew, exposed>>

\* epoll_wait returns, for a task or without an event.
WakeUp ==
    /\ Running /\ pc = "asleep" /\ (sleep = 0 \/ tasks # <<>>)
    /\ pc' = "second" /\ sleep' = 0
    /\ UNCHANGED <<java, link, timeout, event, send, pause, paused, owed, tasks, skew, exposed>>

-----------------------------------------------------------------------------
(* Time *)

Older(age, cap) == IF age = None \/ age >= cap THEN age ELSE age + 1

\* Five seconds pass: only while the thread sleeps, and not beyond the moment
\* at which a healthy server has answered.
Tick ==
    /\ Running /\ pc = "asleep" /\ sleep > 0 /\ tasks = <<>> /\ owed < 2
    /\ sleep' = IF sleep = None THEN None ELSE sleep - 1
    /\ event' = IF link = "off" THEN 0 ELSE Older(event, PausedTimeout + 1)
    /\ send' = Older(send, PushPing)
    /\ pause' = Older(pause, KeepTime)
    /\ owed' = IF owed = 0 THEN 0 ELSE owed + 1
    /\ UNCHANGED <<java, link, timeout, paused, tasks, pc, skew, exposed>>

\* The ages that one of cap, or of more, may be once the clock has been set by d.
Shifted(age, cap, d) ==
    IF age = None THEN {None}
    ELSE IF age < cap THEN {IF age + d < cap THEN age + d ELSE cap}
    ELSE IF d < 0 THEN cap + d .. cap ELSE {cap}

\* The wall clock is set, at most once between two packets and not again until it
\* has caught up with every date; epoll_wait does not notice.
SetClock(d) ==
    /\ Running /\ skew = 0 /\ {event, send, pause} \subseteq Nat
    /\ skew' = d
    /\ event' \in IF link = "off" THEN {0} ELSE Shifted(event, PausedTimeout + 1, d)
    /\ send' \in Shifted(send, PushPing, d)
    /\ pause' \in IF paused THEN {pause} ELSE Shifted(pause, KeepTime, d)
    /\ exposed' = (exposed \/ link # "off")
    /\ UNCHANGED <<java, link, timeout, paused, owed, tasks, pc, sleep>>

RunTask == PushTask \/ ResumeTask \/ LoginTask \/ LogoutTask

Next ==
    \/ Start \/ Destroy
    \/ PauseNetwork \/ (\E isPush \in BOOLEAN : ResumeNetwork(isPush))
    \/ RunTask \/ OnConnected \/ OnRecvData \/ SendRequest
    \/ (\E t \in {RetryTimeout, ConnectTimeout} : Lost(t) \/ EndRoundOff(t))
    \/ EndRound \/ EpollWait \/ WakeUp \/ Tick \/ (\E d \in Jumps : SetClock(d))

Spec == Init /\ [][Next]_vars

\* The thread runs and time passes.
FairSpec == Spec /\ WF_vars(RunTask) /\ WF_vars(OnRecvData) /\ WF_vars(EndRound)
                 /\ WF_vars(\E t \in {RetryTimeout, ConnectTimeout} : EndRoundOff(t))
                 /\ WF_vars(EpollWait) /\ WF_vars(WakeUp) /\ SF_vars(Tick)

-----------------------------------------------------------------------------
(* Properties *)

\* A connection to a healthy server that has sent something is never closed by
\* its timeout, through any number of pauses, resumes, pushes and logouts, except
\* one that was opened, or first heard, while the network was paused, and except
\* where the clock was set, until the server has answered a packet sent since:
\* set forward it shortens the timeout, set back it delays the ping.
HealthyStaysUp == link = "heard" /\ TimedOut => exposed

\* The thread never sleeps past the next ping: when epoll_wait returns at the
\* latest, the interval of a paused connection has just been reached, in real
\* time, or is exceeded by what the clock was set back at most.  A sleep of one
\* tick stands for the second of line 667.
NeverOversleeps ==
    Running /\ pc = "asleep" /\ paused /\ uin # 0 /\ send # None /\ sleep > 1 =>
        (send - skew) + sleep <= PushPing + (IF skew < 0 THEN -skew ELSE 0)

\* The code dereferences getConnection(false) in five places without a test for
\* null.  A round that ends logged in leaves a connection, so that one of them can
\* only fail logged out or before the first round after a login has ended.
LoggedInHasConnection == pc = "first" /\ uin # 0 => link # "off"

\* A login gets its connection, once nothing more is scheduled, even if the first
\* checkPendingTasks runs it when its wakeup has been read, and the thread then
\* sleeps for as long as the pause of the time before the logout makes it: unless
\* line 152 ends the process first, where the round after the login joins a pause
\* that was asked for before it, the handshake is begun and stays begun.
LoginConnects ==
    <>[](Running /\ uin # 0 /\ tasks = <<>>) => <>[](link \in {"connecting", "up", "heard"})

\* A dark screen brings the pause: once the account stays logged in, lastPauseTime
\* is set, nothing resumes the network and nobody sets the clock, it is paused
\* again and again, each ping ending it for a while.
PauseTakesHold ==
    <>[](Running /\ uin # 0 /\ pause # None /\ tasks = <<>> /\ skew = 0) => []<>paused

-----------------------------------------------------------------------------
(* What a comment in the code says and the code does not do *)

\* "connected: make sure the heartbeat does not time out": a connection to a
\* healthy server survives the pause, as long as nobody sets the clock.
PausedConnectionSurvives == link = "heard" /\ skew = 0 => ~TimedOut
=============================================================================
