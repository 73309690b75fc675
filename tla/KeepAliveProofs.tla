--------------------------- MODULE KeepAliveProofs --------------------------
(***************************************************************************)
(* Proofs about KeepAlive, for every choice of the intervals and of the    *)
(* changes of the wall clock.                                              *)
(***************************************************************************)
EXTENDS KeepAlive, TLAPS

\* The ages and the time to sleep, as far as the sleep of a paused thread
\* depends on them; a thread that sleeps for ever is logged out.
SleepInv ==
    /\ send \in Int /\ pause \in Int /\ skew \in Int
    /\ sleep \in 0 .. PushPing \cup {None}
    /\ paused \in BOOLEAN
    /\ pc = "asleep" /\ uin # 0 => sleep # None
    /\ NeverOversleeps

\* Before the first round nothing is paused.
LEMMA SleepInit == Init => SleepInv
  <1> SUFFICES ASSUME Init PROVE SleepInv
    OBVIOUS
  <1>1. send \in Int /\ pause \in Int /\ skew \in Int /\ sleep \in 0 .. PushPing \cup {None}
    BY ClockAssumption DEF Init, None
  <1>2. paused = FALSE /\ pc = "late"
    BY DEF Init
  <1>3. NeverOversleeps
    BY <1>2 DEF NeverOversleeps
  <1> QED
    BY <1>1, <1>2, <1>3, Zenon DEF SleepInv

\* What callEvents returns ends at the next ping, give or take what the clock was
\* set back.
LEMMA SleepEndsAtPing ==
  ASSUME NEW sent \in Int, NEW d \in Int, NEW sleeps \in BOOLEAN
  PROVE  LET t == TimeToPing(PushPing, sent, sleeps)
         IN  /\ t \in 0 .. PushPing
             /\ sleeps /\ sent # None /\ t > 1 =>
                    (sent - d) + t <= PushPing + (IF d < 0 THEN -d ELSE 0)
  <1>1. CASE sleeps
    <2>1. CASE sent # None /\ Abs(sent) < PushPing
      <3>1. TimeToPing(PushPing, sent, sleeps) = PushPing - Abs(sent)
        BY <1>1, <2>1 DEF TimeToPing
      <3> QED
        BY <3>1, <2>1, ClockAssumption DEF Abs
    <2>2. CASE ~(sent # None /\ Abs(sent) < PushPing)
      BY <2>2, ClockAssumption DEF TimeToPing
    <2> QED
      BY <2>1, <2>2
  <1>2. CASE ~sleeps
    BY <1>2, ClockAssumption DEF TimeToPing
  <1> QED
    BY <1>1, <1>2

\* Going to sleep.
LEMMA EpollWaitSleeps == SleepInv /\ EpollWait => SleepInv'
  <1> SUFFICES ASSUME SleepInv, EpollWait PROVE SleepInv'
    OBVIOUS
  <1>1. /\ send' = send /\ pause' = pause /\ skew' = skew /\ paused' = paused
        /\ uin' = uin /\ link' = link
    BY DEF EpollWait, java
  <1>2. send \in Int /\ skew \in Int /\ pause \in Int /\ paused \in BOOLEAN
    BY DEF SleepInv
  <1>3. CASE pc' = "second" /\ sleep' = 0
    <2>1. NeverOversleeps'
      BY <1>3 DEF NeverOversleeps
    <2>2. sleep' \in 0 .. PushPing \cup {None}
      BY <1>3, ClockAssumption
    <2> QED
      BY <1>1, <1>2, <1>3, <2>1, <2>2 DEF SleepInv
  <1>4. CASE uin = 0 /\ sleep' = None
    <2>1. NeverOversleeps'
      BY <1>1, <1>4 DEF NeverOversleeps
    <2> QED
      BY <1>1, <1>2, <1>4, <2>1 DEF SleepInv
  <1>5. CASE uin # 0 /\ sleep' = TimeToPing(PushPing, send, paused)
    <2>1. /\ sleep' \in 0 .. PushPing
          /\ paused /\ send # None /\ sleep' > 1 =>
                 (send - skew) + sleep' <= PushPing + (IF skew < 0 THEN -skew ELSE 0)
      BY <1>2, <1>5, SleepEndsAtPing
    <2>2. sleep' # None
      BY <2>1, ClockAssumption DEF None
    <2>3. NeverOversleeps'
      BY <1>1, <2>1 DEF NeverOversleeps
    <2> QED
      BY <1>1, <1>2, <2>1, <2>2, <2>3 DEF SleepInv
  <1> QED
    BY <1>3, <1>4, <1>5 DEF EpollWait

\* The end of a round.
LEMMA EndRoundSleeps == SleepInv /\ EndRound => SleepInv'
  <1> SUFFICES ASSUME SleepInv, EndRound PROVE SleepInv'
    OBVIOUS
  <1>1. /\ send' = IF Pings THEN 0 ELSE send
        /\ skew' = IF Pings THEN 0 ELSE skew
        /\ pause' = IF Pings THEN PauseAfterPing(Pausing) ELSE IF Joins THEN KeepTime ELSE pause
        /\ sleep' = sleep /\ pc' = "first"
    BY DEF EndRound
  <1>2. paused' \in BOOLEAN
    BY Zenon DEF EndRound
  <1>3. send' \in Int /\ skew' \in Int /\ pause' \in Int
    BY <1>1, ClockAssumption DEF SleepInv, PauseAfterPing
  <1>4. NeverOversleeps'
    BY <1>1 DEF NeverOversleeps
  <1> QED
    BY <1>1, <1>2, <1>3, <1>4 DEF SleepInv

\* Setting the clock changes neither the sleep nor the real age of the packet.
LEMMA SetClockSleeps == ASSUME NEW d \in Jumps, SleepInv, SetClock(d) PROVE SleepInv'
  <1>1. d \in Int
    BY ClockAssumption
  <1>2. /\ skew = 0 /\ skew' = d
        /\ send' \in Shifted(send, PushPing, d)
        /\ pause' \in IF paused THEN {pause} ELSE Shifted(pause, KeepTime, d)
    BY DEF SetClock
  <1>3. uin' = uin /\ paused' = paused /\ pc' = pc /\ sleep' = sleep
    BY DEF SetClock, java
  <1>4. link' = link
    BY DEF SetClock
  <1>5. send' \in Int /\ pause' \in Int /\ skew' \in Int
    BY <1>1, <1>2, ClockAssumption DEF SleepInv, Shifted, None
  <1>6. ASSUME Running, pc = "asleep", paused, uin # 0, send' # None, sleep > 1
        PROVE  (send' - d) + sleep <= PushPing + (IF d < 0 THEN -d ELSE 0)
    <2>1. send # None
      BY <1>2, <1>6 DEF Shifted
    <2>2. send + sleep <= PushPing
      BY <1>2, <1>6, <2>1, ClockAssumption DEF SleepInv, NeverOversleeps, None
    <2>3. sleep \in Nat /\ send \in Int
      BY <1>6, ClockAssumption DEF SleepInv, None
    <2>4. send < PushPing
      BY <1>6, <2>2, <2>3, ClockAssumption
    <2>5. send' <= send + d
      BY <1>1, <1>2, <2>1, <2>3, <2>4, ClockAssumption DEF Shifted
    <2> QED
      BY <1>1, <1>5, <2>2, <2>3, <2>5, ClockAssumption
  <1> QED
    BY <1>2, <1>3, <1>4, <1>5, <1>6 DEF SleepInv, NeverOversleeps, Running

\* Every step keeps the sleep within the interval.
LEMMA SleepStep == SleepInv /\ [Next]_vars => SleepInv'
  <1> SUFFICES ASSUME SleepInv, [Next]_vars PROVE SleepInv'
    OBVIOUS
  <1> DEFINE Kept == /\ send' = send /\ skew' = skew /\ uin' = uin /\ sleep' = sleep
                     /\ paused' = paused /\ pc' = pc /\ link' = link
  <1>0. ASSUME NEW t, ScheduleTask(t) PROVE Kept /\ pause' = pause
    BY <1>0 DEF ScheduleTask
  <1>1. ASSUME Kept, pause' \in Int PROVE SleepInv'
    BY <1>1 DEF SleepInv, NeverOversleeps, Running
  <1>2. ASSUME pc' # "asleep", sleep' \in 0 .. PushPing \cup {None}, send' \in Int,
               pause' \in Int, skew' \in Int, paused' \in BOOLEAN
        PROVE SleepInv'
    BY <1>2 DEF SleepInv, NeverOversleeps
  <1>3. 0 \in 0 .. PushPing \cup {None} /\ None \in Int /\ 0 \in Int
    BY ClockAssumption DEF None
  <1>4. pause \in Int /\ send \in Int /\ skew \in Int
        /\ sleep \in 0 .. PushPing \cup {None} /\ paused \in BOOLEAN
    BY DEF SleepInv
  <1>5. CASE Start
    <2>1. Kept /\ pause' = pause
      BY <1>5, <1>0 DEF Start
    <2> QED
      BY <1>1, <1>4, <2>1
  <1>6. CASE Destroy
    BY <1>6, <1>0, <1>1, <1>4 DEF Destroy
  <1>7. CASE PauseNetwork
    <2>1. Kept /\ pause' \in Int
      BY <1>7, <1>3, <1>4 DEF PauseNetwork, java
    <2> QED
      BY <1>1, <2>1
  <1>8. ASSUME NEW isPush \in BOOLEAN, ResumeNetwork(isPush) PROVE SleepInv'
    BY <1>8, <1>0, <1>1, <1>4 DEF ResumeNetwork
  <1>9. ASSUME NEW what, Task(what) PROVE pc' # "asleep" /\ sleep' = 0 /\ send' = send /\ skew' = skew
    BY <1>9 DEF Task
  <1>10. CASE RunTask
    <2>1. CASE PushTask
      <3>1. pause' \in Int /\ paused' = FALSE
        BY <2>1, <1>3, <1>4 DEF PushTask
      <3> QED
        BY <3>1, <2>1, <1>2, <1>3, <1>4, <1>9, Zenon DEF PushTask
    <2>2. CASE ResumeTask
      <3>1. pause' \in Int /\ paused' = FALSE
        BY <2>2, <1>3 DEF ResumeTask
      <3> QED
        BY <3>1, <2>2, <1>2, <1>3, <1>4, <1>9, Zenon DEF ResumeTask
    <2>3. CASE LoginTask
      BY <2>3, <1>2, <1>3, <1>4, <1>9 DEF LoginTask
    <2>4. CASE LogoutTask
      BY <2>4, <1>2, <1>3, <1>4, <1>9 DEF LogoutTask
    <2> QED
      BY <1>10, <2>1, <2>2, <2>3, <2>4 DEF RunTask
  <1>11. CASE OnConnected
    BY <1>11, <1>2, <1>3, <1>4 DEF OnConnected, SocketEvent
  <1>12. CASE OnRecvData
    BY <1>12, <1>2, <1>3, <1>4 DEF OnRecvData, SocketEvent
  <1>13. CASE SendRequest
    BY <1>13, <1>2, <1>3, <1>4 DEF SendRequest
  <1>14. ASSUME NEW t, Lost(t) PROVE SleepInv'
    BY <1>14, <1>2, <1>3, <1>4 DEF Lost, SocketEvent
  <1>15. CASE WakeUp
    BY <1>15, <1>2, <1>3, <1>4 DEF WakeUp
  <1>16. CASE Tick
    <2>1. /\ sleep' = IF sleep = None THEN None ELSE sleep - 1
          /\ send' = Older(send, PushPing) /\ pause' = Older(pause, KeepTime)
          /\ sleep > 0
      BY <1>16 DEF Tick
    <2>2. uin' = uin /\ link' = link /\ paused' = paused /\ pc' = pc /\ skew' = skew
      BY <1>16 DEF Tick, java
    <2>3. send' \in Int /\ pause' \in Int /\ sleep' \in 0 .. PushPing \cup {None}
          /\ (sleep # None => sleep' # None)
      BY <1>4, <2>1, ClockAssumption DEF Older, None
    <2>4. ASSUME Running, pc = "asleep", paused, uin # 0, send' # None, sleep' > 1
          PROVE  (send' - skew) + sleep' <= PushPing + (IF skew < 0 THEN -skew ELSE 0)
      <3>1. sleep # None
        BY <2>4 DEF SleepInv
      <3>2. sleep \in Nat /\ sleep' = sleep - 1 /\ sleep > 1
        BY <1>4, <2>1, <2>4, <3>1, ClockAssumption
      <3>3. send # None /\ send' <= send + 1
        BY <1>4, <2>1, <2>4 DEF Older
      <3>4. (send - skew) + sleep <= PushPing + (IF skew < 0 THEN -skew ELSE 0)
        BY <2>4, <3>2, <3>3 DEF SleepInv, NeverOversleeps
      <3> QED
        BY <1>4, <2>3, <3>2, <3>3, <3>4, ClockAssumption
    <2> QED
      BY <2>2, <2>3, <2>4, <1>4 DEF SleepInv, NeverOversleeps, Running
  <1>17. CASE UNCHANGED vars
    BY <1>17, <1>1, <1>4 DEF vars, java
  <1>18. ASSUME NEW t, EndRoundOff(t) PROVE SleepInv'
    BY <1>18, <1>2, <1>4 DEF EndRoundOff
  <1> QED
    BY <1>5, <1>6, <1>7, <1>8, <1>10, <1>11, <1>12, <1>13, <1>14, <1>15, <1>16, <1>17,
       <1>18, EndRoundSleeps, EpollWaitSleeps, SetClockSleeps DEF Next

\* A paused network thread never sleeps past its next heartbeat by more than the
\* clock was set back, whatever the intervals are and however pauses, resumes,
\* logouts, losses, requests and changes of the clock interleave.
THEOREM PausedThreadWakesForPing == Spec => []NeverOversleeps
  <1>1. SleepInv => NeverOversleeps
    BY DEF SleepInv
  <1> QED
    BY SleepInit, SleepStep, <1>1, PTL DEF Spec

-----------------------------------------------------------------------------
(* The connection of a login *)

\* Every step to the first checkPendingTasks logged in leaves a connection.
LEMMA ConnectionStep == LoggedInHasConnection /\ [Next]_vars => LoggedInHasConnection'
  <1> SUFFICES ASSUME LoggedInHasConnection, [Next]_vars PROVE LoggedInHasConnection'
    OBVIOUS
  <1>1. ASSUME pc' # "first" PROVE LoggedInHasConnection'
    BY <1>1 DEF LoggedInHasConnection
  <1>2. ASSUME pc' = pc, link' = link, uin' = uin PROVE LoggedInHasConnection'
    BY <1>2 DEF LoggedInHasConnection
  <1>3. CASE Start \/ Destroy
    BY <1>3, <1>2 DEF Start, Destroy, ScheduleTask
  <1>4. CASE PauseNetwork
    BY <1>4, <1>2 DEF PauseNetwork, java
  <1>5. ASSUME NEW isPush \in BOOLEAN, ResumeNetwork(isPush) PROVE LoggedInHasConnection'
    BY <1>5, <1>2 DEF ResumeNetwork, ScheduleTask
  <1>6. CASE RunTask
    BY <1>6, <1>1 DEF RunTask, PushTask, ResumeTask, LoginTask, LogoutTask, Task
  <1>7. CASE OnConnected \/ OnRecvData \/ WakeUp \/ EpollWait
    BY <1>7, <1>1 DEF OnConnected, OnRecvData, SocketEvent, WakeUp, EpollWait
  <1>8. CASE SendRequest
    BY <1>8, <1>2 DEF SendRequest, java
  <1>9. ASSUME NEW t, Lost(t) PROVE LoggedInHasConnection'
    BY <1>9, <1>1 DEF Lost, SocketEvent
  <1>10. ASSUME NEW t, EndRoundOff(t) PROVE LoggedInHasConnection'
    BY <1>10 DEF EndRoundOff, NeedsHandshake, LoggedInHasConnection, java
  <1>11. CASE EndRound
    BY <1>11 DEF EndRound, LoggedInHasConnection
  <1>12. CASE Tick
    BY <1>12, <1>2 DEF Tick, java
  <1>13. ASSUME NEW d, SetClock(d) PROVE LoggedInHasConnection'
    BY <1>13, <1>2 DEF SetClock, java
  <1>14. CASE UNCHANGED vars
    BY <1>14, <1>2 DEF vars, java
  <1> QED
    BY <1>3, <1>4, <1>5, <1>6, <1>7, <1>8, <1>9, <1>10, <1>11, <1>12, <1>13, <1>14 DEF Next

\* A round that ends logged in leaves a connection, whatever the intervals and the
\* changes of the clock: the code's unguarded uses of getConnection(false) fail
\* only logged out or before the first round after a login has ended.
THEOREM RoundLeavesConnection == Spec => []LoggedInHasConnection
  <1>1. Init => LoggedInHasConnection
    BY DEF Init, LoggedInHasConnection
  <1> QED
    BY <1>1, ConnectionStep, PTL DEF Spec

-----------------------------------------------------------------------------
(* The connection to a healthy server *)

\* The interval of the heartbeat that the timeout t is meant for.
Limit(t) == IF t = PausedTimeout THEN PushPing ELSE NormalPing

\* What holds of every connection.
Heard ==
    /\ event \in Int /\ owed \in 0 .. 2
    /\ pc \in {"first", "late", "asleep", "second"}
    /\ link \in {"connecting", "up", "heard"} => uin # 0
    /\ link \in {"up", "heard"} => send # None
    /\ link = "heard" => timeout \in {HeardTimeout, PausedTimeout}
    /\ skew >= 0 => send >= 0

\* What was heard last is no older than what was sent last, unless an answer is
\* due, and by the end of the thread's sleep it is not older than the interval.
Answered ==
    /\ skew >= 0
    /\ paused => timeout = PausedTimeout
    /\ owed = 0 => event <= send
    /\ owed = 0 => event + (IF pc = "asleep" THEN sleep
                            ELSE IF pc = "second" THEN 0 ELSE 1) <= Limit(timeout)
    /\ owed # 0 => event + 1 <= Limit(timeout) + owed

HeardInv == Heard /\ (link = "heard" /\ ~exposed => Answered)

\* Before the first round nothing is connected.
LEMMA HeardInit == Init => HeardInv
  <1> SUFFICES ASSUME Init PROVE HeardInv
    OBVIOUS
  <1>1. link = "off" /\ event = 0 /\ owed = 0 /\ pc = "late" /\ skew = 0 /\ send = None
    BY DEF Init
  <1> QED
    BY <1>1 DEF HeardInv, Heard, None

\* Both intervals last a tick at least.
LEMMA LimitPositive ==
  ASSUME NEW t
  PROVE  Limit(t) \in Nat /\ 1 <= Limit(t) /\ Limit(t) <= PushPing
  BY ClockAssumption, IntervalAssumption DEF Limit

\* Only what the two invariants speak of matters.
LEMMA HeardKept ==
  ASSUME HeardInv,
         event' = event, owed' = owed, exposed' = exposed, pc' = pc, link' = link,
         uin' = uin, send' = send, timeout' = timeout, skew' = skew, paused' = paused,
         sleep' = sleep
  PROVE  HeardInv'
  <1>1. Heard'
    BY DEF HeardInv, Heard
  <1>2. Answered' <=> Answered
    BY DEF Answered, Limit
  <1> QED
    BY <1>1, <1>2 DEF HeardInv

\* A task runs outside epoll_wait: it leaves the thread in its round.
LEMMA HeardTask == SleepInv /\ HeardInv /\ RunTask => HeardInv'
  <1> SUFFICES ASSUME SleepInv, HeardInv, RunTask PROVE HeardInv'
    OBVIOUS
  <1>0. send \in Int /\ skew \in Int /\ paused \in BOOLEAN
    BY DEF SleepInv
  <1>1. PICK what : Task(what)
    BY DEF RunTask, PushTask, ResumeTask, LoginTask, LogoutTask
  <1>2. /\ pc # "asleep" /\ pc' # "asleep" /\ (pc' = "second" <=> pc = "second")
        /\ pc' \in {"late", "second"} /\ send' = send /\ skew' = skew
    BY <1>1 DEF Task
  <1>3. CASE PushTask \/ LoginTask
    <2>1. /\ link' = link /\ timeout' = timeout /\ event' = event /\ owed' = owed
          /\ exposed' = exposed /\ (uin' = uin \/ uin' = 1) /\ (paused' = paused \/ paused' = FALSE)
      BY <1>3 DEF PushTask, LoginTask
    <2>2. Heard'
      BY <1>2, <2>1 DEF HeardInv, Heard
    <2>3. Answered => Answered'
      BY <1>2, <2>1 DEF Answered, Limit
    <2> QED
      BY <2>1, <2>2, <2>3 DEF HeardInv
  <1>4. CASE ResumeTask
    <2>1. /\ paused' = FALSE /\ exposed' = (skew < 0) /\ uin' = uin /\ owed' = owed
          /\ link' = IF link = "off" THEN "crashed" ELSE link
          /\ timeout' = IF Announced THEN HeardTimeout ELSE timeout
          /\ event' = IF Announced THEN 0 ELSE event
      BY <1>4 DEF ResumeTask, ClockResumed
    <2>2. Heard'
      BY <1>0, <1>2, <2>1 DEF HeardInv, Heard, Announced
    <2>3. ASSUME link' = "heard", ~exposed' PROVE Answered'
      <3>0. ~(skew < 0)
        BY <2>1, <2>3, Zenon
      <3>1. timeout' = HeardTimeout /\ event' = 0 /\ skew' >= 0 /\ send' >= 0
        BY <1>0, <1>2, <2>1, <2>2, <2>3, <3>0 DEF Announced, Heard
      <3>2. Limit(timeout') \in Nat /\ 1 <= Limit(timeout')
        BY LimitPositive
      <3>3. owed' \in Nat /\ send' \in Int
        BY <1>0, <1>2, <2>2, SMT DEF Heard
      <3>4. ~paused' /\ pc' # "asleep"
        BY <1>2, <2>1
      <3>5. owed' # 0 => event' + 1 <= Limit(timeout') + owed'
        BY <3>1, <3>2, <3>3
      <3>6. event' + (IF pc' = "asleep" THEN sleep' ELSE IF pc' = "second" THEN 0 ELSE 1) <= Limit(timeout')
        BY <3>1, <3>2, <3>4
      <3> QED
        BY <3>1, <3>3, <3>4, <3>5, <3>6 DEF Answered
    <2> QED
      BY <2>2, <2>3 DEF HeardInv
  <1>5. CASE LogoutTask
    <2>1. link' # "heard" /\ link' \in {"off", "crashed"} /\ event' = 0 /\ owed' = 0
      BY <1>5 DEF LogoutTask
    <2> QED
      BY <1>0, <1>2, <2>1 DEF HeardInv, Heard
  <1> QED
    BY <1>3, <1>4, <1>5 DEF RunTask

\* The socket's events: whatever arrives, the clock of the connection starts anew.
LEMMA HeardSocket ==
  SleepInv /\ HeardInv /\ (OnConnected \/ OnRecvData \/ (\E t : Lost(t))) => HeardInv'
  <1> SUFFICES ASSUME SleepInv, HeardInv, OnConnected \/ OnRecvData \/ (\E t : Lost(t))
               PROVE  HeardInv'
    OBVIOUS
  <1>0. send \in Int /\ skew \in Int /\ paused \in BOOLEAN
    BY DEF SleepInv
  <1>1. CASE OnConnected
    BY <1>0, <1>1 DEF OnConnected, SocketEvent, HeardInv, Heard, java, None
  <1>2. ASSUME NEW t, Lost(t) PROVE HeardInv'
    BY <1>0, <1>2 DEF Lost, SocketEvent, HeardInv, Heard, java
  <1>3. CASE OnRecvData
    <2>1. /\ pc' = "second" /\ link \in {"up", "heard"} /\ link' = "heard"
          /\ event' = 0 /\ owed' = 0 /\ uin' = uin /\ send' = send /\ skew' = skew
          /\ timeout' = IF link = "heard" THEN timeout ELSE HeardTimeout
      BY <1>3 DEF OnRecvData, SocketEvent, Announced, java
    <2>2. exposed' = ((paused /\ timeout' # PausedTimeout) \/ skew < 0) /\ paused' = paused
      BY <1>3 DEF OnRecvData
    <2>3. Heard'
      BY <1>0, <2>1 DEF HeardInv, Heard
    <2>4. ASSUME ~exposed' PROVE Answered'
      <3>1. ~(skew < 0) /\ (paused => timeout' = PausedTimeout)
        BY <2>2, <2>4, Zenon
      <3>2. skew' >= 0 /\ send' >= 0
        BY <1>0, <2>1, <2>3, <3>1 DEF Heard
      <3> QED
        BY <2>1, <2>2, <3>1, <3>2, LimitPositive DEF Answered
    <2> QED
      BY <2>3, <2>4 DEF HeardInv
  <1> QED
    BY <1>1, <1>2, <1>3

\* A request goes out: its answer is due.
LEMMA HeardSend == SleepInv /\ HeardInv /\ SendRequest => HeardInv'
  <1> SUFFICES ASSUME SleepInv, HeardInv, SendRequest PROVE HeardInv'
    OBVIOUS
  <1>1. /\ pc = "second" /\ pc' = pc /\ link' = link /\ uin' = uin /\ event' = event
        /\ timeout' = timeout /\ send' = 0 /\ skew' = 0 /\ paused' = paused
        /\ exposed' = exposed /\ owed' = IF owed = 0 THEN 1 ELSE owed
    BY DEF SendRequest, java
  <1>2. Heard'
    BY <1>1 DEF HeardInv, Heard, None
  <1>3. event \in Int /\ owed \in 0 .. 2 /\ Limit(timeout) \in Nat
    BY LimitPositive DEF HeardInv, Heard
  <1>4. Answered => Answered'
    BY <1>1, <1>3 DEF Answered
  <1> QED
    BY <1>1, <1>2, <1>4 DEF HeardInv

\* Time passes: the thread's sleep ends before the interval does, and an answer
\* that is due comes before another tick.
LEMMA HeardTick == SleepInv /\ HeardInv /\ Tick => HeardInv'
  <1> SUFFICES ASSUME SleepInv, HeardInv, Tick PROVE HeardInv'
    OBVIOUS
  <1>1. /\ pc = "asleep" /\ pc' = pc /\ link' = link /\ uin' = uin /\ timeout' = timeout
        /\ skew' = skew /\ paused' = paused /\ exposed' = exposed
        /\ sleep > 0 /\ owed < 2
    BY DEF Tick, java
  <1>2. /\ sleep' = IF sleep = None THEN None ELSE sleep - 1
        /\ event' = IF link = "off" THEN 0 ELSE Older(event, PausedTimeout + 1)
        /\ send' = Older(send, PushPing)
        /\ owed' = IF owed = 0 THEN 0 ELSE owed + 1
    BY DEF Tick
  <1>3. send \in Int /\ skew \in Int /\ event \in Int /\ owed \in 0 .. 2
    BY DEF SleepInv, HeardInv, Heard
  <1>4. /\ event' \in Int /\ send' \in Int /\ owed' \in 0 .. 2
        /\ (send # None => send' # None) /\ send' >= send
        /\ (link # "off" => event' <= event + 1)
    BY <1>1, <1>2, <1>3, ClockAssumption DEF Older, None
  <1>5. Heard'
    BY <1>1, <1>3, <1>4 DEF HeardInv, Heard
  <1>6. ASSUME link = "heard", Answered PROVE Answered'
    <2>1. sleep \in Nat /\ sleep # None /\ sleep' = sleep - 1
      BY <1>1, <1>2, <1>6, ClockAssumption DEF SleepInv, HeardInv, Heard, None
    <2>2. Limit(timeout) \in Nat /\ Limit(timeout) <= PushPing
      BY LimitPositive
    <2>3. event' <= event + 1
      BY <1>4, <1>6
    <2>4. CASE owed = 0
      <3>1. event <= send /\ event + sleep <= Limit(timeout)
        BY <1>1, <1>6, <2>4 DEF Answered
      <3>2. event' <= send'
        BY <1>1, <1>2, <1>3, <1>4, <2>1, <2>2, <2>3, <3>1, ClockAssumption DEF Older, None
      <3>3. event' + sleep' <= Limit(timeout')
        BY <1>1, <1>3, <1>4, <2>1, <2>2, <2>3, <3>1
      <3>4. owed' = 0
        BY <1>2, <2>4
      <3> QED
        BY <1>1, <1>6, <3>2, <3>3, <3>4 DEF Answered
    <2>5. CASE owed # 0
      <3>1. owed' = owed + 1 /\ event + 1 <= Limit(timeout) + owed
        BY <1>2, <1>6, <2>5 DEF Answered
      <3>2. owed' # 0 /\ event' + 1 <= Limit(timeout') + owed'
        BY <1>1, <1>3, <1>4, <2>2, <2>3, <3>1
      <3> QED
        BY <1>1, <1>6, <3>2 DEF Answered
    <2> QED
      BY <2>4, <2>5
  <1> QED
    BY <1>1, <1>5, <1>6 DEF HeardInv

\* Going to sleep, and waking up.
LEMMA HeardWait == SleepInv /\ HeardInv /\ (EpollWait \/ WakeUp) => HeardInv'
  <1> SUFFICES ASSUME SleepInv, HeardInv, EpollWait \/ WakeUp PROVE HeardInv'
    OBVIOUS
  <1>1. /\ link' = link /\ uin' = uin /\ timeout' = timeout /\ event' = event /\ send' = send
        /\ skew' = skew /\ paused' = paused /\ exposed' = exposed /\ owed' = owed
        /\ pc' \in {"asleep", "second"}
    BY DEF EpollWait, WakeUp, java
  <1>2. /\ send \in Int /\ skew \in Int /\ event \in Int /\ paused \in BOOLEAN
        /\ Limit(timeout) \in Nat
    BY LimitPositive DEF SleepInv, HeardInv, Heard
  <1>3. Heard'
    BY <1>1 DEF HeardInv, Heard
  <1>4. ASSUME link = "heard", Answered PROVE Answered'
    <2>1. uin # 0
      BY <1>4 DEF HeardInv, Heard
    <2>2. ASSUME owed = 0
          PROVE  event + (IF pc' = "asleep" THEN sleep'
                          ELSE IF pc' = "second" THEN 0 ELSE 1) <= Limit(timeout)
      <3>1. CASE WakeUp
        <4>1. pc = "asleep" /\ pc' = "second"
          BY <3>1 DEF WakeUp
        <4>2. sleep \in Nat
          BY <2>1, <4>1, ClockAssumption DEF SleepInv
        <4>3. event + sleep <= Limit(timeout)
          BY <1>4, <2>2, <4>1 DEF Answered
        <4> QED
          BY <1>2, <4>1, <4>2, <4>3
      <3>2. CASE EpollWait
        <4>1. event + 1 <= Limit(timeout) /\ event <= send /\ (paused => timeout = PausedTimeout)
          BY <1>4, <2>2, <3>2 DEF Answered, EpollWait
        <4>2. CASE pc' = "second"
          BY <1>2, <4>1, <4>2
        <4>3. CASE pc' = "asleep"
          <5>1. sleep' = TimeToPing(PushPing, send, paused)
            BY <2>1, <3>2, <4>3 DEF EpollWait
          <5>2. send >= 0
            BY <1>4 DEF HeardInv, Heard, Answered
          <5>3. CASE sleep' = 1
            BY <1>2, <4>1, <4>3, <5>3
          <5>4. CASE sleep' # 1
            <6>1. paused /\ sleep' = PushPing - send
              BY <1>2, <5>1, <5>2, <5>4 DEF TimeToPing, Abs
            <6>2. Limit(timeout) = PushPing
              BY <4>1, <6>1 DEF Limit
            <6> QED
              BY <1>2, <4>1, <4>3, <6>1, <6>2, ClockAssumption
          <5> QED
            BY <5>3, <5>4
        <4> QED
          BY <1>1, <4>2, <4>3
      <3> QED
        BY <3>1, <3>2
    <2> QED
      BY <1>1, <1>4, <2>2 DEF Answered
  <1> QED
    BY <1>1, <1>3, <1>4 DEF HeardInv

\* Setting the clock exposes the connection, until the server has answered.
LEMMA HeardSetClock == ASSUME NEW d \in Jumps, SleepInv, HeardInv, SetClock(d) PROVE HeardInv'
  <1>1. d \in Int /\ send \in Int /\ event \in Int
    BY ClockAssumption DEF SleepInv, HeardInv, Heard
  <1>2. /\ skew' = d /\ send \in Nat /\ event \in Nat
        /\ event' \in IF link = "off" THEN {0} ELSE Shifted(event, PausedTimeout + 1, d)
        /\ send' \in Shifted(send, PushPing, d)
    BY DEF SetClock
  <1>3. /\ link' = link /\ uin' = uin /\ timeout' = timeout /\ owed' = owed /\ pc' = pc
        /\ exposed' = (exposed \/ link # "off")
    BY DEF SetClock, java
  <1>4. send' \in Int /\ (send # None => send' # None) /\ (d >= 0 => send' >= 0)
    BY <1>1, <1>2, ClockAssumption DEF Shifted, None
  <1>5. event' \in Int
    BY <1>1, <1>2, ClockAssumption DEF Shifted, None
  <1>6. Heard'
    BY <1>2, <1>3, <1>4, <1>5 DEF HeardInv, Heard
  <1>7. link' = "heard" => exposed'
    BY <1>3, Zenon
  <1> QED
    BY <1>6, <1>7 DEF HeardInv

\* The end of a round: a ping goes out unless the last packet is younger than the
\* interval, and so is then what was heard last.
LEMMA HeardEndRound == SleepInv /\ HeardInv /\ EndRound => HeardInv'
  <1> SUFFICES ASSUME SleepInv, HeardInv, EndRound PROVE HeardInv'
    OBVIOUS
  <1>1. /\ pc = "second" /\ pc' = "first" /\ uin' = uin
        /\ link' = IF TimedOut THEN "connecting" ELSE link
        /\ timeout' = IF TimedOut THEN RetryTimeout ELSE TimeoutAfterPause(Joins)
        /\ event' = IF TimedOut \/ (Joins /\ Announced) THEN 0 ELSE event
        /\ send' = IF Pings THEN 0 ELSE send
        /\ skew' = IF Pings THEN 0 ELSE skew
        /\ owed' = IF TimedOut THEN 0 ELSE IF Pings /\ Announced /\ owed = 0 THEN 1 ELSE owed
        /\ link \in {"connecting", "up", "heard"}
    BY DEF EndRound, java
  <1>2. /\ paused' = (Pausing /\ ~Pings)
        /\ exposed' = ((paused' /\ timeout' # PausedTimeout) \/ (exposed /\ event' # 0) \/ skew < 0)
    BY DEF EndRound
  <1>3. send \in Int /\ skew \in Int /\ event \in Int /\ owed \in 0 .. 2
    BY DEF SleepInv, HeardInv, Heard
  <1>4. Heard'
    <2>1. event' \in Int /\ owed' \in 0 .. 2 /\ (send # None => send' # None)
      BY <1>1, <1>3 DEF None
    <2>2. link' \in {"up", "heard"} => link' = link /\ ~TimedOut
      BY <1>1
    <2>3. link' = "heard" => timeout' \in {HeardTimeout, PausedTimeout}
      BY <1>1, <2>2 DEF HeardInv, Heard, TimeoutAfterPause
    <2>4. skew' >= 0 => send' >= 0
      BY <1>1, <1>3 DEF HeardInv, Heard
    <2> QED
      BY <1>1, <2>1, <2>2, <2>3, <2>4 DEF HeardInv, Heard
  <1>5. ASSUME link' = "heard", ~exposed' PROVE Answered'
    <2>1. ~TimedOut /\ link = "heard" /\ Announced
      BY <1>1, <1>5 DEF Announced
    <2>2. /\ ~(skew < 0) /\ (paused' => timeout' = PausedTimeout)
          /\ (exposed => event' = 0)
      BY <1>2, <1>5, Zenon
    <2>3. skew >= 0 /\ send >= 0 /\ skew' >= 0 /\ send' >= 0
      BY <1>1, <1>3, <2>2 DEF HeardInv, Heard
    <2>4. /\ timeout' = IF Joins THEN PausedTimeout ELSE timeout
          /\ event' = IF Joins THEN 0 ELSE event
          /\ owed' = IF Pings /\ owed = 0 THEN 1 ELSE owed
      BY <1>1, <2>1 DEF TimeoutAfterPause
    <2>5. Limit(timeout') \in Nat /\ 1 <= Limit(timeout')
      BY LimitPositive
    <2>6. CASE event' = 0
      BY <1>1, <1>3, <1>4, <2>2, <2>3, <2>5, <2>6 DEF Answered, Heard
    <2>7. CASE event' # 0
      <3>1. ~Joins /\ event' = event /\ timeout' = timeout /\ Answered
        BY <2>1, <2>2, <2>4, <2>7 DEF HeardInv
      <3>2. CASE Pings \/ owed # 0
        <4>1. owed' \in 0 .. 2 /\ owed' # 0
          BY <1>3, <2>4, <3>2
        <4>2. event + 1 <= Limit(timeout) + owed'
          <5>1. CASE owed = 0
            <6>1. event + 0 <= Limit(timeout) /\ owed' = 1
              BY <1>1, <2>4, <3>1, <3>2, <5>1 DEF Answered
            <6> QED
              BY <1>3, <2>5, <3>1, <6>1
          <5>2. CASE owed # 0
            BY <2>4, <3>1, <5>2 DEF Answered
          <5> QED
            BY <5>1, <5>2
        <4> QED
          BY <2>2, <2>3, <3>1, <4>1, <4>2 DEF Answered
      <3>3. CASE ~Pings /\ owed = 0
        <4>1. send < PingInterval /\ send # None
          BY <1>3, <2>1, <3>3, ClockAssumption DEF Pings, PingInterval, HeardInv, Heard
        <4>2. PingInterval <= Limit(timeout) /\ PingInterval \in Nat
          BY <3>1, ClockAssumption, IntervalAssumption
             DEF PingInterval, Pausing, Limit, Answered
        <4>3. event <= send
          BY <3>1, <3>3 DEF Answered
        <4>4. event + 1 <= Limit(timeout)
          BY <1>3, <2>5, <3>1, <4>1, <4>2, <4>3
        <4>5. owed' = 0 /\ send' = send
          BY <1>1, <2>4, <3>3
        <4> QED
          BY <1>1, <2>2, <2>3, <3>1, <4>3, <4>4, <4>5 DEF Answered
      <3> QED
        BY <3>2, <3>3
    <2> QED
      BY <2>6, <2>7
  <1> QED
    BY <1>4, <1>5 DEF HeardInv

\* Every step of the thread, of the Java side and of the clock keeps the invariant.
LEMMA HeardStep == SleepInv /\ HeardInv /\ [Next]_vars => HeardInv'
  <1> SUFFICES ASSUME SleepInv, HeardInv, [Next]_vars PROVE HeardInv'
    OBVIOUS
  <1> DEFINE Kept == /\ event' = event /\ owed' = owed /\ exposed' = exposed /\ pc' = pc
                     /\ link' = link /\ uin' = uin /\ send' = send /\ timeout' = timeout
                     /\ skew' = skew /\ paused' = paused /\ sleep' = sleep
  <1>0. ASSUME Kept PROVE HeardInv'
    BY <1>0, HeardKept
  <1>1. ASSUME NEW t, ScheduleTask(t) PROVE Kept
    BY <1>1 DEF ScheduleTask
  <1>2. CASE Start \/ Destroy
    <2>1. Kept
      BY <1>1, <1>2 DEF Start, Destroy
    <2> QED
      BY <1>0, <2>1
  <1>3. CASE PauseNetwork
    <2>1. Kept
      BY <1>3 DEF PauseNetwork, java
    <2> QED
      BY <1>0, <2>1
  <1>4. ASSUME NEW isPush \in BOOLEAN, ResumeNetwork(isPush) PROVE HeardInv'
    <2>1. Kept
      BY <1>1, <1>4 DEF ResumeNetwork
    <2> QED
      BY <1>0, <2>1
  <1>5. ASSUME NEW t, EndRoundOff(t) PROVE HeardInv'
    <2>1. /\ pc' = "first" /\ uin' = uin /\ send' = send /\ skew' = skew /\ owed' = owed
          /\ event' = IF NeedsHandshake THEN 0 ELSE event
          /\ link' \in {"off", "connecting", "crashed"}
          /\ (link' = "connecting" => uin # 0)
      BY <1>5 DEF EndRoundOff, NeedsHandshake, java
    <2> QED
      BY <2>1 DEF HeardInv, Heard
  <1>6. CASE UNCHANGED vars
    <2>1. Kept
      BY <1>6 DEF vars, java
    <2> QED
      BY <1>0, <2>1
  <1>7. CASE RunTask
    BY <1>7, HeardTask
  <1>8. CASE SendRequest \/ EndRound \/ EpollWait \/ WakeUp \/ Tick
    BY <1>8, HeardSend, HeardEndRound, HeardWait, HeardTick
  <1>9. CASE OnConnected \/ OnRecvData \/ (\E t \in {RetryTimeout, ConnectTimeout} : Lost(t))
    BY <1>9, HeardSocket
  <1>10. CASE \E d \in Jumps : SetClock(d)
    BY <1>10, HeardSetClock
  <1> QED
    BY <1>2, <1>3, <1>4, <1>5, <1>6, <1>7, <1>8, <1>9, <1>10 DEF Next

\* A connection to a healthy server that has sent something is not closed by its
\* timeout, for all intervals that leave an answer a tick, however pauses, pushes,
\* resumes, logouts and requests interleave, unless it was opened or first heard
\* while paused, or the clock was set.
THEOREM HealthyConnectionStaysUp == Spec => []HealthyStaysUp
  <1>1. SleepInv /\ HeardInv => HealthyStaysUp
    <2> SUFFICES ASSUME SleepInv, HeardInv, link = "heard", TimedOut PROVE exposed
      BY DEF HealthyStaysUp
    <2> SUFFICES ASSUME ~exposed PROVE FALSE
      OBVIOUS
    <2>1. Answered /\ timeout \in {HeardTimeout, PausedTimeout} /\ event \in Int /\ owed \in 0 .. 2
      BY DEF HeardInv, Heard
    <2>2. Limit(timeout) \in Nat /\ timeout \in Nat /\ Limit(timeout) + 1 <= timeout
      BY <2>1, ClockAssumption, IntervalAssumption DEF Limit
    <2>3. event > timeout
      BY DEF TimedOut
    <2>4. CASE owed # 0
      <3>1. event + 1 <= Limit(timeout) + owed
        BY <2>1, <2>4 DEF Answered
      <3> QED
        BY <2>1, <2>2, <2>3, <3>1
    <2>5. CASE owed = 0
      <3>1. PICK n : event + n <= Limit(timeout) /\ n = (IF pc = "asleep" THEN sleep
                            ELSE IF pc = "second" THEN 0 ELSE 1)
        BY <2>1, <2>5 DEF Answered
      <3>2. n \in Nat
        BY <3>1, ClockAssumption DEF SleepInv, None
      <3> QED
        BY <2>1, <2>2, <2>3, <3>1, <3>2
    <2> QED
      BY <2>4, <2>5
  <1> QED
    BY SleepInit, SleepStep, HeardInit, HeardStep, <1>1, PTL DEF Spec
=============================================================================
