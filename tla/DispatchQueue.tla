--------------------------- MODULE DispatchQueue ----------------------------
(***************************************************************************)
(* The way of a callback from the native library to the Java listeners:    *)
(* whoever calls back posts to nativeQueue, whose thread passes the        *)
(* runnable on to the main thread.  A thread that posts before the queue's *)
(* thread has its Handler waits at the latch; an exception is only printed.*)
(***************************************************************************)
EXTENDS Naturals, Sequences

CONSTANTS
    Posters,   \* the threads that post
    MaxPosts   \* bound on the callbacks of each

VARIABLES
    handler,   \* the thread runs: handler and mainHandler are set, the latch is down
    posted,    \* how many callbacks each thread has posted
    queue,     \* the messages of handler: <<thread, number>>
    main,      \* the messages of mainHandler
    seen       \* the last callback of each thread that has run on the main thread

dvars == <<handler, posted, queue, main, seen>>

DInit ==
    /\ handler = FALSE
    /\ posted = [p \in Posters |-> 0] /\ seen = [p \in Posters |-> 0]
    /\ queue = <<>> /\ main = <<>>

\* The thread of the queue starts.
Run ==
    /\ ~handler /\ handler' = TRUE
    /\ UNCHANGED <<posted, queue, main, seen>>

\* Mutant: no latch.  The null handler raises an exception, which is caught.
PostAtOnce(p) ==
    /\ posted[p] < MaxPosts[p]
    /\ posted' = [posted EXCEPT ![p] = @ + 1]
    /\ queue' = IF handler THEN Append(queue, <<p, posted[p] + 1>>) ELSE queue
    /\ UNCHANGED <<handler, main, seen>>

\* postMainRunnable: await the latch, then post.
Post(p) ==
    /\ handler /\ posted[p] < MaxPosts[p]
    /\ posted' = [posted EXCEPT ![p] = @ + 1]
    /\ queue' = Append(queue, <<p, posted[p] + 1>>)
    /\ UNCHANGED <<handler, main, seen>>

\* Mutant: the newest message goes to the front.
ForwardToFront ==
    /\ queue # <<>>
    /\ main' = <<Head(queue)>> \o main /\ queue' = Tail(queue)
    /\ UNCHANGED <<handler, posted, seen>>

\* The thread of the queue passes a runnable on to mainHandler.
Forward ==
    /\ queue # <<>>
    /\ main' = Append(main, Head(queue)) /\ queue' = Tail(queue)
    /\ UNCHANGED <<handler, posted, seen>>

\* The main thread runs a callback.
RunOnMain ==
    /\ main # <<>>
    /\ seen' = [seen EXCEPT ![Head(main)[1]] = Head(main)[2]] /\ main' = Tail(main)
    /\ UNCHANGED <<handler, posted, queue>>

-----------------------------------------------------------------------------
(* Properties *)

\* Of the callbacks of one thread the main thread runs each once and in the order
\* in which they were posted.
CallbacksInOrder ==
    [][\A p \in Posters : seen'[p] \in {seen[p], seen[p] + 1}]_dvars

\* Every callback reaches the main thread, one posted before the queue's thread
\* has started included.
CallbacksArrive ==
    \A p \in Posters : \A n \in 1 .. MaxPosts[p] : posted[p] = n ~> seen[p] >= n
=============================================================================
