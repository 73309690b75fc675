--------------------------- MODULE TaskQueueProofs --------------------------
(***************************************************************************)
(* Proofs about TaskQueue and about its composition with DispatchQueue,    *)
(* for any threads and any number of tasks and callbacks.                  *)
(***************************************************************************)
EXTENDS RoundTrip, TLAPS

Task == Threads \X (1 .. MaxCalls) \X Whats

\* Appending and taking keep the queue a queue of tasks.
LEMMA QueueTypes ==
    ASSUME NEW q \in Seq(Task)
    PROVE  /\ \A x \in Task : Append(q, x) \in Seq(Task)
           /\ q # <<>> => Head(q) \in Task /\ Tail(q) \in Seq(Task)
  OBVIOUS

\* What a task is made of.
LEMMA TaskParts ==
    ASSUME NEW x \in Task
    PROVE  x[1] \in Threads /\ x[2] \in 1 .. MaxCalls /\ x[3] \in Whats
  BY DEF Task

\* The types hold at the start.
LEMMA TypeInit == Init => TypeOK
  <1> SUFFICES ASSUME Init PROVE TypeOK
    OBVIOUS
  <1>1. tasks \in Seq(Threads \X (1 .. MaxCalls) \X Whats)
    BY DEF Init
  <1>2. calls \in [Threads -> 0 .. MaxCalls] /\ ran \in [Threads -> 0 .. MaxCalls]
    BY CallsAssumption DEF Init
  <1> QED
    BY <1>1, <1>2, Zenon DEF Init, TypeOK

\* Every step keeps the types; an appended task has a number within the calls.
LEMMA TypeStep == TypeOK /\ [Next]_vars => TypeOK'
  <1> SUFFICES ASSUME TypeOK, [Next]_vars PROVE TypeOK'
    OBVIOUS
  <1>0. tasks \in Seq(Task) /\ (tasks' \in Seq(Task) => tasks' \in Seq(Threads \X (1 .. MaxCalls) \X Whats))
    BY DEF TypeOK, Task
  <1>1. ASSUME NEW t \in Threads, NEW what \in Does[t], Push(t, what) PROVE TypeOK'
    <2>1. calls[t] + 1 \in 1 .. MaxCalls
      BY <1>1, CallsAssumption DEF Push, TypeOK
    <2>2. <<t, calls[t] + 1, what>> \in Task
      BY <2>1, DoesAssumption DEF Task
    <2>3. tasks' \in Seq(Task)
      BY <1>0, <1>1, <2>2, QueueTypes DEF Push
    <2>4. calls' \in [Threads -> 0 .. MaxCalls]
      BY <1>1, <2>1, CallsAssumption DEF Push, TypeOK
    <2> QED
      BY <1>0, <1>1, <2>3, <2>4 DEF Push, TypeOK
  <1>2. ASSUME NEW t \in Threads, Wakeup(t) PROVE TypeOK'
    BY <1>2 DEF Wakeup, TypeOK
  <1>3. CASE RunTask
    <2>1. NextTask \in Task /\ tasks' \in Seq(Task)
      BY <1>0, <1>3, QueueTypes DEF RunTask, NextTask
    <2>2. NextTask[1] \in Threads /\ NextTask[2] \in 1 .. MaxCalls
      BY <2>1, TaskParts
    <2>3. ran' \in [Threads -> 0 .. MaxCalls]
      BY <1>3, <2>2, CallsAssumption DEF RunTask, TypeOK
    <2>4. uin' \in {0, 1}
      BY <1>3 DEF RunTask, TypeOK
    <2> QED
      BY <1>0, <1>3, <2>1, <2>3, <2>4 DEF RunTask, TypeOK
  <1>4. CASE FirstCheckDone
    BY <1>4 DEF FirstCheckDone, TypeOK
  <1>5. CASE EpollEvent
    BY <1>5, Zenon DEF EpollEvent, TypeOK
  <1>6. CASE EpollTimeout
    BY <1>6 DEF EpollTimeout, TypeOK
  <1>7. CASE SecondCheckDone
    BY <1>7 DEF SecondCheckDone, TypeOK
  <1>8. CASE HandleEvents
    BY <1>8, Zenon DEF HandleEvents, TypeOK
  <1>9. CASE UNCHANGED vars
    BY <1>9 DEF vars, TypeOK
  <1> QED
    BY <1>1, <1>2, <1>3, <1>4, <1>5, <1>6, <1>7, <1>8, <1>9 DEF Next, NetworkThread

\* A step cannot leave the thread asleep over a task.
LEMMA WakeupStep == TypeOK /\ NoLostWakeup /\ [Next]_vars => NoLostWakeup'
  <1> SUFFICES ASSUME TypeOK, NoLostWakeup, [Next]_vars PROVE NoLostWakeup'
    OBVIOUS
  <1> USE DEF NoLostWakeup
  <1>1. ASSUME NEW t \in Threads, NEW what \in Does[t], Push(t, what) PROVE NoLostWakeup'
    BY <1>1 DEF Push
  <1>2. ASSUME NEW t \in Threads, Wakeup(t) PROVE NoLostWakeup'
    BY <1>2 DEF Wakeup
  <1>3. CASE RunTask
    BY <1>3 DEF RunTask
  <1>4. CASE FirstCheckDone
    BY <1>4 DEF FirstCheckDone
  <1>5. CASE EpollEvent
    BY <1>5 DEF EpollEvent, TypeOK
  <1>6. CASE EpollTimeout
    BY <1>6 DEF EpollTimeout
  <1>7. CASE SecondCheckDone
    BY <1>7 DEF SecondCheckDone
  <1>8. CASE HandleEvents
    BY <1>8 DEF HandleEvents
  <1>9. CASE UNCHANGED vars
    BY <1>9 DEF vars
  <1> QED
    BY <1>1, <1>2, <1>3, <1>4, <1>5, <1>6, <1>7, <1>8, <1>9 DEF Next, NetworkThread

\* The network thread never waits in epoll_wait while a task is in the queue and
\* nothing is on the way to wake it, for any number of Java threads and tasks.
THEOREM WakeupsAreNotLost == Spec => []NoLostWakeup
  <1>1. Init => NoLostWakeup
    BY DEF Init, NoLostWakeup
  <1> QED
    BY TypeInit, TypeStep, WakeupStep, <1>1, PTL DEF Spec

-----------------------------------------------------------------------------
(* A queue of numbered entries *)

\* q holds entries <<source, number, ...>>: those after low[s] up to high[s] of every
\* source s, in ascending order.
Within(S, q, low, high) ==
    \A i \in 1 .. Len(q) :
       /\ q[i][1] \in S /\ q[i][2] \in Nat
       /\ low[q[i][1]] < q[i][2] /\ q[i][2] <= high[q[i][1]]

Ascending(q) ==
    \A i, j \in 1 .. Len(q) : i < j /\ q[i][1] = q[j][1] => q[i][2] < q[j][2]

Gapless(S, q, low, high) ==
    \A s \in S : \A n \in Nat :
       low[s] < n /\ n <= high[s] => \E i \in 1 .. Len(q) : q[i][1] = s /\ q[i][2] = n

Numbered(S, q, low, high) ==
    /\ \A s \in S : low[s] <= high[s]
    /\ Within(S, q, low, high) /\ Ascending(q) /\ Gapless(S, q, low, high)

\* An entry with the next number of its source may be appended.
LEMMA AppendNumbered ==
    ASSUME NEW S, NEW T, NEW q \in Seq(T), NEW low \in [S -> Nat], NEW high \in [S -> Nat],
           Numbered(S, q, low, high),
           NEW x \in T, NEW s \in S, x[1] = s, x[2] = high[s] + 1
    PROVE  Numbered(S, Append(q, x), low, [high EXCEPT ![s] = @ + 1])
  <1> DEFINE r == Append(q, x)
             up == [high EXCEPT ![s] = @ + 1]
  <1>0. /\ \A u \in S : low[u] \in Nat /\ high[u] \in Nat /\ low[u] <= high[u]
        /\ Within(S, q, low, high) /\ Ascending(q) /\ Gapless(S, q, low, high)
    BY DEF Numbered
  <1>1. /\ Len(r) = Len(q) + 1 /\ Len(q) \in Nat
        /\ \A i \in 1 .. Len(q) : r[i] = q[i]
        /\ r[Len(q) + 1] = x
    OBVIOUS
  <1>2. up[s] = high[s] + 1 /\ \A u \in S : u # s => up[u] = high[u]
    OBVIOUS
  <1> HIDE DEF r, up
  <1>3. \A u \in S : low[u] <= up[u] /\ high[u] <= up[u] /\ up[u] \in Nat
    BY <1>0, <1>2
  <1>4. Within(S, r, low, up)
    <2> SUFFICES ASSUME NEW i \in 1 .. Len(r)
                 PROVE  /\ r[i][1] \in S /\ r[i][2] \in Nat
                        /\ low[r[i][1]] < r[i][2] /\ r[i][2] <= up[r[i][1]]
      BY DEF Within
    <2>1. CASE i = Len(q) + 1
      BY <1>0, <1>1, <1>2, <2>1
    <2>2. CASE i # Len(q) + 1
      <3>1. i \in 1 .. Len(q) /\ r[i] = q[i]
        BY <1>1, <2>2
      <3>2. q[i][1] \in S /\ q[i][2] \in Nat /\ low[q[i][1]] < q[i][2] /\ q[i][2] <= high[q[i][1]]
        BY <1>0, <3>1 DEF Within
      <3>3. high[q[i][1]] <= up[q[i][1]] /\ high[q[i][1]] \in Nat /\ up[q[i][1]] \in Nat
        BY <1>0, <1>3, <3>2
      <3> QED
        BY <3>1, <3>2, <3>3
    <2> QED
      BY <2>1, <2>2
  <1>5. Ascending(r)
    <2> SUFFICES ASSUME NEW i \in 1 .. Len(r), NEW j \in 1 .. Len(r), i < j, r[i][1] = r[j][1]
                 PROVE  r[i][2] < r[j][2]
      BY DEF Ascending
    <2>1. i \in 1 .. Len(q) /\ r[i] = q[i]
      BY <1>1
    <2>2. CASE j = Len(q) + 1
      <3>1. q[i][1] = s /\ q[i][2] \in Nat /\ q[i][2] <= high[s]
        BY <1>0, <1>1, <2>1, <2>2 DEF Within
      <3> QED
        BY <1>0, <1>1, <2>1, <2>2, <3>1
    <2>3. CASE j # Len(q) + 1
      <3>1. j \in 1 .. Len(q) /\ r[j] = q[j]
        BY <1>1, <2>3
      <3> QED
        BY <1>0, <2>1, <3>1, Zenon DEF Ascending
    <2> QED
      BY <2>2, <2>3
  <1>6. Gapless(S, r, low, up)
    <2> SUFFICES ASSUME NEW u \in S, NEW n \in Nat, low[u] < n, n <= up[u]
                 PROVE  \E i \in 1 .. Len(r) : r[i][1] = u /\ r[i][2] = n
      BY ZenonT(30) DEF Gapless
    <2>1. CASE u = s /\ n = high[s] + 1
      BY <1>1, <2>1
    <2>2. CASE ~(u = s /\ n = high[s] + 1)
      <3>1. n <= high[u]
        <4>1. CASE u = s
          <5>1. n <= high[s] + 1 /\ n # high[s] + 1 /\ high[s] \in Nat
            BY <1>0, <1>2, <2>2, <4>1
          <5> QED
            BY <4>1, <5>1
        <4>2. CASE u # s
          BY <1>2, <4>2
        <4> QED
          BY <4>1, <4>2
      <3>2. PICK i \in 1 .. Len(q) : q[i][1] = u /\ q[i][2] = n
        BY <1>0, <3>1, Zenon DEF Gapless
      <3> QED
        BY <1>1, <3>2
    <2> QED
      BY <2>1, <2>2
  <1> QED
    BY <1>3, <1>4, <1>5, <1>6 DEF Numbered, r, up

\* The first entry has the number after low, and may be taken.
LEMMA TakeNumbered ==
    ASSUME NEW S, NEW T, NEW q \in Seq(T), NEW low \in [S -> Nat], NEW high \in [S -> Nat],
           Numbered(S, q, low, high), q # <<>>
    PROVE  /\ Head(q)[1] \in S /\ Head(q)[2] = low[Head(q)[1]] + 1
           /\ Numbered(S, Tail(q), [low EXCEPT ![Head(q)[1]] = Head(q)[2]], high)
  <1> DEFINE r == Tail(q)
             s == q[1][1]
             n == q[1][2]
             up == [low EXCEPT ![s] = n]
  <1>0. /\ \A u \in S : low[u] \in Nat /\ high[u] \in Nat /\ low[u] <= high[u]
        /\ Within(S, q, low, high) /\ Ascending(q) /\ Gapless(S, q, low, high)
    BY DEF Numbered
  <1>1. /\ Len(q) \in Nat /\ 1 \in 1 .. Len(q) /\ Len(r) = Len(q) - 1
        /\ Head(q) = q[1] /\ \A i \in 1 .. Len(r) : r[i] = q[i + 1] /\ i + 1 \in 1 .. Len(q)
    OBVIOUS
  <1>2. s \in S /\ n \in Nat /\ low[s] < n /\ n <= high[s]
    BY <1>0, <1>1 DEF Within
  <1>3. up[s] = n /\ \A u \in S : u # s => up[u] = low[u]
    BY <1>2
  <1>4. n = low[s] + 1
    <2>0. low[s] \in Nat /\ high[s] \in Nat /\ low[s] + 1 \in Nat /\ low[s] + 1 <= high[s]
      BY <1>0, <1>2
    <2>1. PICK i \in 1 .. Len(q) : q[i][1] = s /\ q[i][2] = low[s] + 1
      <3> HIDE DEF s, n, r, up
      <3>1. low[s] < low[s] + 1
        BY <2>0
      <3> QED
        BY <1>0, <1>2, <2>0, <3>1, Zenon DEF Gapless
    <2>2. CASE i = 1
      BY <2>1, <2>2
    <2>3. CASE i # 1
      <3>1. n < low[s] + 1
        BY <1>0, <1>1, <2>1, <2>3 DEF Ascending
      <3> QED
        BY <1>2, <2>0, <3>1
    <2> QED
      BY <2>2, <2>3
  <1>5. \A i \in 1 .. Len(r) : r[i][1] = s => n < r[i][2]
    <2> SUFFICES ASSUME NEW i \in 1 .. Len(r), r[i][1] = s PROVE n < r[i][2]
      OBVIOUS
    <2>1. r[i] = q[i + 1] /\ i + 1 \in 1 .. Len(q) /\ 1 < i + 1
      BY <1>1
    <2> QED
      BY <1>0, <1>1, <2>1 DEF Ascending
  <1> HIDE DEF r, up, s, n
  <1>6. \A u \in S : up[u] <= high[u]
    BY <1>0, <1>2, <1>3
  <1>7. Within(S, r, up, high)
    <2> SUFFICES ASSUME NEW i \in 1 .. Len(r)
                 PROVE  /\ r[i][1] \in S /\ r[i][2] \in Nat
                        /\ up[r[i][1]] < r[i][2] /\ r[i][2] <= high[r[i][1]]
      BY DEF Within
    <2>1. r[i] = q[i + 1] /\ i + 1 \in 1 .. Len(q)
      BY <1>1
    <2>2. /\ r[i][1] \in S /\ r[i][2] \in Nat
          /\ low[r[i][1]] < r[i][2] /\ r[i][2] <= high[r[i][1]]
      BY <1>0, <2>1 DEF Within
    <2> QED
      BY <1>3, <1>5, <2>2
  <1>8. Ascending(r)
    <2> SUFFICES ASSUME NEW i \in 1 .. Len(r), NEW j \in 1 .. Len(r), i < j, r[i][1] = r[j][1]
                 PROVE  r[i][2] < r[j][2]
      BY DEF Ascending
    <2>1. /\ r[i] = q[i + 1] /\ i + 1 \in 1 .. Len(q)
          /\ r[j] = q[j + 1] /\ j + 1 \in 1 .. Len(q) /\ i + 1 < j + 1
      BY <1>1
    <2> QED
      BY <1>0, <2>1 DEF Ascending
  <1>9. Gapless(S, r, up, high)
    <2> SUFFICES ASSUME NEW u \in S, NEW k \in Nat, up[u] < k, k <= high[u]
                 PROVE  \E i \in 1 .. Len(r) : r[i][1] = u /\ r[i][2] = k
      BY ZenonT(30) DEF Gapless
    <2>1. low[u] < k
      BY <1>0, <1>2, <1>3
    <2>2. PICK i \in 1 .. Len(q) : q[i][1] = u /\ q[i][2] = k
      BY <1>0, <2>1 DEF Gapless
    <2>3. i # 1
      BY <1>2, <1>3, <2>2 DEF s, n
    <2>4. i - 1 \in 1 .. Len(r) /\ r[i - 1] = q[i]
      BY <1>1, <2>3
    <2> QED
      BY <2>2, <2>4, Zenon
  <1> QED
    BY <1>1, <1>2, <1>4, <1>6, <1>7, <1>8, <1>9, Zenon DEF Numbered, r, up, s, n

-----------------------------------------------------------------------------
(* The order of the tasks *)

\* The queue holds the tasks of every thread that have not run, in order.
LEMMA TasksNumberedStep ==
    ASSUME TypeOK, Numbered(Threads, tasks, ran, calls), [Next]_vars
    PROVE  /\ Numbered(Threads, tasks, ran, calls)'
           /\ \A t \in Threads : ran'[t] \in {ran[t], ran[t] + 1}
  <1>0. tasks \in Seq(Task) /\ ran \in [Threads -> Nat] /\ calls \in [Threads -> Nat]
    BY CallsAssumption DEF TypeOK, Task
  <1>1. ASSUME NEW t \in Threads, NEW what \in Does[t], Push(t, what)
        PROVE  Numbered(Threads, tasks', ran', calls') /\ ran' = ran
    <2> DEFINE x == <<t, calls[t] + 1, what>>
    <2>0. calls[t] + 1 \in 1 .. MaxCalls
      BY <1>1, CallsAssumption DEF Push, TypeOK
    <2>1. x \in Task /\ x[1] = t /\ x[2] = calls[t] + 1
      BY <2>0, DoesAssumption DEF Task
    <2>2. tasks' = Append(tasks, x) /\ ran' = ran /\ calls' = [calls EXCEPT ![t] = @ + 1]
      BY <1>1 DEF Push
    <2> HIDE DEF x
    <2> QED
      BY <1>0, <2>1, <2>2, AppendNumbered, Zenon
  <1>2. CASE RunTask
    <2>1. /\ tasks # <<>> /\ tasks' = Tail(tasks) /\ calls' = calls
          /\ ran' = [ran EXCEPT ![Head(tasks)[1]] = Head(tasks)[2]]
      BY <1>2 DEF RunTask, NextTask
    <2>2. /\ Head(tasks)[1] \in Threads /\ Head(tasks)[2] = ran[Head(tasks)[1]] + 1
          /\ Numbered(Threads, tasks', ran', calls')
      BY <1>0, <2>1, TakeNumbered, Zenon
    <2>3. \A t \in Threads : ran'[t] \in {ran[t], ran[t] + 1}
      BY <1>0, <2>1, <2>2
    <2> QED
      BY <2>2, <2>3
  <1>3. CASE UNCHANGED <<tasks, ran, calls>>
    BY <1>3
  <1> QED
    BY <1>1, <1>2, <1>3 DEF Next, NetworkThread, Wakeup, FirstCheckDone, EpollEvent,
       EpollTimeout, SecondCheckDone, HandleEvents, vars

\* It does at the start, when it is empty.
LEMMA TasksNumberedInit == Init => Numbered(Threads, tasks, ran, calls)
  BY DEF Init, Numbered, Within, Ascending, Gapless

\* The tasks of one thread run in the order of its calls and none is skipped or
\* run twice, whatever the threads and however their pushes interleave.
THEOREM TasksRunInOrder == Spec => InOrder
  <1> DEFINE Inv == TypeOK /\ Numbered(Threads, tasks, ran, calls)
  <1>1. Init => Inv
    BY TypeInit, TasksNumberedInit
  <1>2. Inv /\ [Next]_vars => Inv' /\ [\A t \in Threads : ran'[t] \in {ran[t], ran[t] + 1}]_vars
    BY TypeStep, TasksNumberedStep
  <1> QED
    BY <1>1, <1>2, PTL DEF Spec, InOrder

-----------------------------------------------------------------------------
(* The composition with the dispatch queue *)

Posters == Threads \cup {"network"}

Callback == Posters \X Nat

\* The callbacks on their way, in the order in which the main thread will run them.
OnTheirWay == main \o queue

CallbackTypes ==
    /\ posted \in [Posters -> Nat] /\ seen \in [Posters -> Nat]
    /\ queue \in Seq(Callback) /\ main \in Seq(Callback)

\* The two queues together hold the callbacks of every thread that have not run, in
\* order.
CallbacksNumbered == CallbackTypes /\ Numbered(Posters, OnTheirWay, seen, posted)

CallbackStep == \A p \in Posters : seen'[p] \in {seen[p], seen[p] + 1}

\* A step of the composition is one of the task queue or leaves it alone.
LEMMA RoundIsTaskStep == [RoundNext]_<<vars, callbacks>> => [Next]_vars
  BY DEF RoundNext, Schedule, Refuse, TaskCallsBack, RestOfRound, Dispatch, Next, NetworkThread

\* A thread posts a callback behind all the others.
LEMMA PostNumbered ==
    ASSUME CallbacksNumbered, NEW p \in Posters, D!Post(p)
    PROVE  CallbacksNumbered' /\ CallbackStep
  <1> DEFINE x == <<p, posted[p] + 1>>
  <1>1. x \in Callback /\ x[1] = p /\ x[2] = posted[p] + 1
    BY DEF CallbacksNumbered, CallbackTypes, Callback
  <1>2. /\ posted' = [posted EXCEPT ![p] = @ + 1] /\ queue' = Append(queue, x)
        /\ main' = main /\ seen' = seen
    BY DEF D!Post
  <1> HIDE DEF x
  <1>3. CallbackTypes'
    BY <1>1, <1>2 DEF CallbacksNumbered, CallbackTypes
  <1>4. OnTheirWay \in Seq(Callback) /\ OnTheirWay' = Append(OnTheirWay, x)
    BY <1>1, <1>2 DEF CallbacksNumbered, CallbackTypes, OnTheirWay
  <1>5. Numbered(Posters, OnTheirWay', seen', posted')
    <2> HIDE DEF OnTheirWay
    <2> QED
      BY <1>1, <1>2, <1>4, AppendNumbered, Zenon DEF CallbacksNumbered, CallbackTypes
  <1> QED
    BY <1>2, <1>3, <1>5 DEF CallbacksNumbered, CallbackStep, CallbackTypes

\* The head of a sequence moved to the end of the one before it.
LEMMA PassedOn ==
    ASSUME NEW S, NEW s \in Seq(S), NEW t \in Seq(S), t # <<>>
    PROVE  Append(s, Head(t)) \o Tail(t) = s \o t
  <1> DEFINE a == Append(s, Head(t)) \o Tail(t)
             b == s \o t
  <1>1. /\ Len(s) \in Nat /\ Len(t) \in Nat /\ Len(t) > 0
        /\ Head(t) = t[1] /\ Head(t) \in S
    OBVIOUS
  <1>2. /\ Append(s, Head(t)) \in Seq(S) /\ Len(Append(s, Head(t))) = Len(s) + 1
        /\ Tail(t) \in Seq(S) /\ Len(Tail(t)) = Len(t) - 1
    BY <1>1
  <1>3. a \in Seq(S) /\ b \in Seq(S)
    BY <1>2
  <1>4. Len(a) = Len(s) + Len(t) /\ Len(b) = Len(s) + Len(t)
    BY <1>1, <1>2
  <1>5. ASSUME NEW i \in 1 .. Len(a)
        PROVE  a[i] = b[i]
    <2>1. CASE i <= Len(s)
      BY <1>1, <1>2, <1>4, <2>1
    <2>2. CASE i = Len(s) + 1
      BY <1>1, <1>2, <1>4, <2>2
    <2>3. CASE i > Len(s) + 1
      BY <1>1, <1>2, <1>4, <2>3
    <2> QED
      BY <1>1, <1>4, <2>1, <2>2, <2>3
  <1> QED
    BY <1>3, <1>4, <1>5

\* Passing a callback on from one queue to the other keeps its place.
LEMMA ForwardNumbered ==
    ASSUME CallbacksNumbered, D!Forward
    PROVE  CallbacksNumbered' /\ CallbackStep
  <1>1. /\ queue # <<>> /\ main' = Append(main, Head(queue)) /\ queue' = Tail(queue)
        /\ seen' = seen /\ posted' = posted
    BY DEF D!Forward
  <1>2. queue \in Seq(Callback) /\ main \in Seq(Callback)
    BY DEF CallbacksNumbered, CallbackTypes
  <1>3. Head(queue) \in Callback /\ main' \in Seq(Callback) /\ queue' \in Seq(Callback)
    BY <1>1, <1>2
  <1>4. OnTheirWay' = OnTheirWay
    BY <1>1, <1>2, PassedOn DEF OnTheirWay
  <1> QED
    BY <1>1, <1>3, <1>4 DEF CallbacksNumbered, CallbackTypes, CallbackStep

\* The main thread runs the first of all the callbacks.
LEMMA RunOnMainNumbered ==
    ASSUME CallbacksNumbered, D!RunOnMain
    PROVE  CallbacksNumbered' /\ CallbackStep
  <1>1. /\ main # <<>> /\ main' = Tail(main) /\ queue' = queue /\ posted' = posted
        /\ seen' = [seen EXCEPT ![Head(main)[1]] = Head(main)[2]]
    BY DEF D!RunOnMain
  <1>2. queue \in Seq(Callback) /\ main \in Seq(Callback) /\ Head(main) \in Callback
    BY <1>1 DEF CallbacksNumbered, CallbackTypes
  <1>3. /\ OnTheirWay \in Seq(Callback) /\ OnTheirWay # <<>>
        /\ Head(OnTheirWay) = Head(main) /\ OnTheirWay' = Tail(OnTheirWay)
    BY <1>1, <1>2 DEF OnTheirWay
  <1>4. /\ Head(main)[1] \in Posters /\ Head(main)[2] = seen[Head(main)[1]] + 1
        /\ Numbered(Posters, OnTheirWay', seen', posted')
    <2>1. /\ seen \in [Posters -> Nat] /\ posted \in [Posters -> Nat]
          /\ Numbered(Posters, OnTheirWay, seen, posted)
      BY DEF CallbacksNumbered, CallbackTypes
    <2> HIDE DEF OnTheirWay
    <2> DEFINE first == Head(OnTheirWay)
    <2>2. /\ first[1] \in Posters /\ first[2] = seen[first[1]] + 1
          /\ Numbered(Posters, Tail(OnTheirWay), [seen EXCEPT ![first[1]] = first[2]], posted)
      BY <1>3, <2>1, TakeNumbered, Zenon
    <2>3. first = Head(main) /\ seen' = [seen EXCEPT ![first[1]] = first[2]]
      BY <1>1, <1>3, Zenon
    <2> HIDE DEF first
    <2> QED
      BY <1>1, <1>3, <2>2, <2>3, Zenon
  <1>5. CallbackTypes'
    BY <1>1, <1>2, <1>4 DEF CallbacksNumbered, CallbackTypes
  <1> QED
    BY <1>1, <1>4, <1>5 DEF CallbacksNumbered, CallbackTypes, CallbackStep

\* Every step of the composition keeps the order of the callbacks.
LEMMA CallbacksNumberedStep ==
    ASSUME CallbacksNumbered, [RoundNext]_<<vars, callbacks>>
    PROVE  CallbacksNumbered' /\ CallbackStep
  <1>1. CASE UNCHANGED <<posted, queue, main, seen>>
    BY <1>1 DEF CallbacksNumbered, CallbackTypes, OnTheirWay, CallbackStep
  <1>2. ASSUME NEW p \in Posters, D!Post(p) PROVE CallbacksNumbered' /\ CallbackStep
    BY <1>2, PostNumbered
  <1> QED
    BY <1>1, <1>2, ForwardNumbered, RunOnMainNumbered
       DEF RoundNext, Schedule, Refuse, TaskCallsBack, RestOfRound, Dispatch, D!Run, callbacks,
           Posters

\* In the whole of the round trip, too, no wakeup is lost: a network thread that
\* waits at the latch of the dispatch queue, or a caller that does, changes nothing.
THEOREM RoundWakeupsAreNotLost == RoundSpec => []NoLostWakeup
  <1>1. RoundInit => Init
    BY DEF RoundInit
  <1> QED
    BY <1>1, RoundIsTaskStep, WakeupsAreNotLost, PTL DEF RoundSpec, Spec

\* The tasks of one thread run in the order of its calls, callbacks or not.
THEOREM RoundTasksRunInOrder == RoundSpec => InOrder
  <1>1. RoundInit => Init
    BY DEF RoundInit
  <1> QED
    BY <1>1, RoundIsTaskStep, TasksRunInOrder, PTL DEF RoundSpec, Spec

\* Through the two queues of Java the callbacks of one thread, the network thread
\* or any caller, run once each and in the order in which they were posted.
THEOREM CallbacksRunInOrder == RoundSpec => CallbacksInOrder
  <1>1. RoundInit => CallbacksNumbered
    BY DEF RoundInit, D!DInit, CallbacksNumbered, CallbackTypes, OnTheirWay, Numbered, Within,
           Ascending, Gapless, Posters
  <1>2. CallbacksNumbered /\ [RoundNext]_<<vars, callbacks>>
        => CallbacksNumbered' /\ [CallbackStep]_callbacks
    BY CallbacksNumberedStep
  <1>3. [CallbackStep]_callbacks
        => [\A p \in Threads \cup {"network"} : seen'[p] \in {seen[p], seen[p] + 1}]_(D!dvars)
    BY DEF CallbackStep, Posters, callbacks, D!dvars
  <1> QED
    BY <1>1, <1>2, <1>3, PTL DEF RoundSpec, CallbacksInOrder, D!CallbacksInOrder
=============================================================================
