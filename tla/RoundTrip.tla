------------------------------ MODULE RoundTrip -----------------------------
(***************************************************************************)
(* TaskQueue and DispatchQueue together: what a Java thread asks of the    *)
(* network thread, and the callbacks that come back to the main thread.    *)
(* The network thread waits at the latch of the dispatch queue in the      *)
(* middle of a task.                                                       *)
(***************************************************************************)
EXTENDS TaskQueue

CONSTANT MaxPosts  \* bound on the callbacks of each thread

VARIABLES handler, posted, queue, main, seen

callbacks == <<handler, posted, queue, main, seen>>

D == INSTANCE DispatchQueue WITH Posters <- Threads \cup {"network"}

RoundInit == Init /\ D!DInit

\* A task of the network thread calls back, or does not.
TaskCallsBack == RunTask /\ (D!Post("network") \/ UNCHANGED callbacks)

\* senRequest refuses a request logged out and calls back on the caller's thread.
Refuse(t) == uin = 0 /\ D!Post(t) /\ UNCHANGED vars

RestOfRound ==
    /\ FirstCheckDone \/ EpollEvent \/ EpollTimeout \/ SecondCheckDone \/ HandleEvents
    /\ UNCHANGED callbacks

Schedule(t) == ((\E what \in Does[t] : Push(t, what)) \/ Wakeup(t)) /\ UNCHANGED callbacks

Dispatch == (D!Run \/ D!Forward \/ D!RunOnMain) /\ UNCHANGED vars

RoundNext ==
    \/ \E t \in Threads : Schedule(t) \/ Refuse(t)
    \/ TaskCallsBack \/ RestOfRound
    \/ Dispatch

\* The three threads go on.
RoundSpec ==
    /\ RoundInit /\ [][RoundNext]_<<vars, callbacks>>
    /\ \A t \in Threads : WF_vars(Wakeup(t) /\ UNCHANGED callbacks)
    /\ WF_vars(TaskCallsBack \/ RestOfRound)
    /\ WF_callbacks(Dispatch)

-----------------------------------------------------------------------------
(* Properties *)

\* The callbacks of the network thread, and those of each caller whose request was
\* refused, run on the main thread once each and in the order they were posted.
CallbacksInOrder == D!CallbacksInOrder

\* Every callback reaches the main thread, also when the network thread is the
\* first to use the queue, before its thread has started.
CallbacksArrive == D!CallbacksArrive
=============================================================================
