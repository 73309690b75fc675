----------------------------- MODULE TaskQueue ------------------------------
(***************************************************************************)
(* Handing tasks to the network thread: scheduleTask, which pushes under   *)
(* the mutex and then writes to the eventfd, and select(), which looks at  *)
(* the queue before and after epoll_wait and reads the eventfd later.  The *)
(* eventfd is edge-triggered; the pipe that stands in for it where the     *)
(* kernel has none is level-triggered, and is still a blocking one:        *)
(* F_SETFD does not set O_NONBLOCK.                                        *)
(* While logged out epoll_wait has no timeout, so a lost wakeup would      *)
(* leave a task in the queue for ever.                                     *)
(***************************************************************************)
EXTENDS Naturals, Sequences, FiniteSets

CONSTANTS
    Threads,  \* the Java threads
    Does,     \* what the tasks of each thread do to uin
    MaxCalls  \* how many tasks each of them schedules

Whats == {"login", "logout", "other"}

ASSUME CallsAssumption == MaxCalls \in Nat
ASSUME DoesAssumption == Does \in [Threads -> SUBSET Whats]

VARIABLES
    tasks,    \* the queue: <<thread, number, what it does>>
    calls,    \* how many tasks each thread has pushed
    waking,   \* the threads between the push and the write to the eventfd
    fd,       \* what wakes the thread: the "eventfd" or the "pipe"
    counter,  \* it has been written and not read
    edge,     \* epoll has a write to report
    uin,      \* ConnectionsManager::uin
    pc,       \* where the network thread is in select()
    event,    \* the eventfd is among the events epoll_wait returned
    ran       \* how many tasks of each thread have run

vars == <<tasks, calls, waking, fd, counter, edge, uin, pc, event, ran>>

Init ==
    /\ tasks = <<>> /\ calls = [t \in Threads |-> 0] /\ waking = {}
    /\ fd \in {"eventfd", "pipe"} /\ counter = FALSE /\ edge = FALSE
    /\ uin \in {0, 1}
    /\ pc = "first" /\ event = FALSE
    /\ ran = [t \in Threads |-> 0]

-----------------------------------------------------------------------------
\* scheduleTask: the push, then wakeup; what says what the task does
\* to uin.
Push(t, what) ==
    /\ t \notin waking /\ calls[t] < MaxCalls
    /\ calls' = [calls EXCEPT ![t] = @ + 1]
    /\ tasks' = Append(tasks, <<t, calls[t] + 1, what>>)
    /\ waking' = waking \cup {t}
    /\ UNCHANGED <<fd, counter, edge, uin, pc, event, ran>>

Wakeup(t) ==
    /\ t \in waking
    /\ waking' = waking \ {t}
    /\ counter' = TRUE /\ edge' = TRUE
    /\ UNCHANGED <<tasks, calls, fd, uin, pc, event, ran>>

-----------------------------------------------------------------------------
\* Mutant: the tasks are a stack.
NextTaskNewest == tasks[Len(tasks)]

\* tasks.front().
NextTask == Head(tasks)

\* checkPendingTasks, one task at a time: the task runs without the mutex.
RunTask ==
    /\ pc \in {"first", "second"} /\ tasks # <<>>
    /\ tasks' = Tail(tasks)
    /\ ran' = [ran EXCEPT ![NextTask[1]] = NextTask[2]]
    /\ uin' = CASE NextTask[3] = "login" -> 1 [] NextTask[3] = "logout" -> 0 [] OTHER -> uin
    /\ UNCHANGED <<calls, waking, fd, counter, edge, pc, event>>

\* Mutant: the queue is not looked at before epoll_wait.
FirstCheckSkipped ==
    /\ pc = "first"
    /\ pc' = "wait"
    /\ UNCHANGED <<tasks, calls, waking, fd, counter, edge, uin, event, ran>>

FirstCheckDone ==
    /\ pc = "first" /\ tasks = <<>>
    /\ pc' = "wait"
    /\ UNCHANGED <<tasks, calls, waking, fd, counter, edge, uin, event, ran>>

\* epoll_wait reports a write to the eventfd once, and only if it has not been read
\* meanwhile, and the pipe as long as there is something in it.
EpollEvent ==
    /\ pc = "wait" /\ IF fd = "pipe" THEN counter ELSE edge
    /\ edge' = FALSE
    /\ event' = counter
    /\ pc' = IF counter THEN "second" ELSE "wait"
    /\ UNCHANGED <<tasks, calls, waking, fd, counter, uin, ran>>

\* epoll_wait times out, after callEvents returned a timeout.
EpollTimeout ==
    /\ pc = "wait" /\ uin # 0
    /\ pc' = "second"
    /\ UNCHANGED <<tasks, calls, waking, fd, counter, edge, uin, event, ran>>

SecondCheckDone ==
    /\ pc = "second" /\ tasks = <<>>
    /\ pc' = "events"
    /\ UNCHANGED <<tasks, calls, waking, fd, counter, edge, uin, event, ran>>

\* EventsDispatcher reads the eventfd, and the rest of the round follows; from the
\* pipe it reads until a read fails, which a blocking one does not.
HandleEvents ==
    /\ pc = "events"
    /\ counter' = (counter /\ ~event)
    /\ event' = FALSE
    /\ pc' = IF event /\ fd = "pipe" THEN "drain" ELSE "first"
    /\ UNCHANGED <<tasks, calls, waking, fd, edge, uin, ran>>

NetworkThread ==
    \/ RunTask \/ FirstCheckDone \/ EpollEvent \/ EpollTimeout \/ SecondCheckDone
    \/ HandleEvents

Next ==
    \/ \E t \in Threads : \E what \in Does[t] : Push(t, what)
    \/ \E t \in Threads : Wakeup(t)
    \/ NetworkThread

Spec == Init /\ [][Next]_vars

-----------------------------------------------------------------------------
(* Properties *)

TypeOK ==
    /\ tasks \in Seq(Threads \X (1 .. MaxCalls) \X Whats)
    /\ calls \in [Threads -> 0 .. MaxCalls] /\ ran \in [Threads -> 0 .. MaxCalls]
    /\ waking \subseteq Threads
    /\ fd \in {"eventfd", "pipe"} /\ {counter, edge, event} \subseteq BOOLEAN
    /\ uin \in {0, 1}
    /\ pc \in {"first", "wait", "second", "events", "drain"}

\* The network thread never sleeps over a task: while it is in epoll_wait and
\* the queue is not empty, a write will still be reported, or a thread that
\* has pushed is about to write.
NoLostWakeup ==
    pc = "wait" /\ tasks # <<>> => waking # {} \/ (counter /\ (edge \/ fd = "pipe"))

\* The tasks of one thread run in the order of its calls, and none is skipped.
InOrder ==
    [][\A t \in Threads : ran'[t] \in {ran[t], ran[t] + 1}]_vars

\* Every task runs, logged in or not, unless there is no eventfd and the thread
\* hangs in the pipe.
EveryTaskRuns ==
    \A t \in Threads : \A n \in 1 .. MaxCalls :
        calls[t] = n ~> ran[t] >= n \/ (fd = "pipe" /\ pc = "drain")
=============================================================================
