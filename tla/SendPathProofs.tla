--------------------------- MODULE SendPathProofs ----------------------------
(***************************************************************************)
(* The invariant of SendPath, and its safety properties, for any messages, *)
(* buffers, free lists, lengths and sizes.                                 *)
(***************************************************************************)
EXTENDS SendPathLemmas

-----------------------------------------------------------------------------
(* The inductive invariant *)

\* The buffer that message m gives back, in stage st with body bo and outgoingBody ou.
MineOf(m, st, bo, ou) ==
    IF bo # Null THEN bo ELSE IF m \in Acked \/ st = "serialized" THEN ou ELSE Null

Hands == [m \in Messages |-> MineOf(m, stage[m], body[m], out[m])]

Busy == {"serialized", "erased", "copying"}

\* The stages before it is serialized.
Fresh == {"new", "wrapped", "queued"}

Stages == Busy \cup Fresh \cup {"sent", "early", "done"}

\* The packet of message m, when the bodies of the messages e were read to their ends.
Kept(m, e) == <<IF m \in e THEN "header" ELSE "packet", m>>

Types ==
    /\ stage \in [Messages -> Stages]
    /\ length \in [Messages -> Nat] /\ pack \in [Messages -> Nat]
    /\ body \in [Messages -> Buffers \cup {Null}] /\ out \in [Messages -> Buffers \cup {Null}]
    /\ sending \in Buffers \cup {Null}
    /\ queue \in Seq(Entries)
    /\ space \in Nat
    /\ wire \in Seq(Bytes)
    /\ appended \in Seq(Appends)

\* Stage st of message m says which buffers it has and what storage s has in them; n
\* is the length of its body, p packLength, x sendBuffer and w its packet.
Holds(s, m, st, n, p, bo, ou, x, w) ==
    /\ bo # Null <=> st \in {"wrapped", "queued"}
    /\ ou # Null <=> st \in Busy \cup {"sent", "early"}
    /\ st \in {"sent", "early"} => m \in Acked
    /\ bo # Null => s.buffer[bo].limit = n /\ s.buffer[bo].content = <<"body", m>>
    /\ ou # Null /\ (m \in Acked \/ st = "serialized") =>
          /\ s.buffer[ou].limit = PackLength(n)
          /\ HeadLength + n < Limit => s.buffer[ou].content = w
    /\ st \in Busy => p = PackLength(n)
    /\ st = "copying" => x # Null /\ s.buffer[x].limit = p

\* One batch is under way at most.
Placed ==
    /\ \A m \in Messages :
          Holds(store, m, stage[m], length[m], pack[m], body[m], out[m], sending, Kept(m, emptied))
    /\ stage[Ping] \in {"new", "done"}
    /\ \A m, n \in Messages : stage[m] \in Busy /\ stage[n] \in Busy => m = n
    /\ sending # Null => \E m \in Messages : stage[m] = "copying"

\* What entry a says of its message, in stage st with a body of n bytes and packet w.
Recorded(a, st, n, w) ==
    /\ st \notin Fresh
    /\ a[1] \in Acked => /\ a[3] = PackLength(n)
                         /\ HeadLength + n < Limit => a[2] = w

Queuing ==
    \A i \in DOMAIN appended :
        Recorded(appended[i], stage[appended[i][1]], length[appended[i][1]],
                 Kept(appended[i][1], emptied))

Inv ==
    /\ Types
    /\ StoreOK(store)
    /\ Owners(Loose(store), Cleared, sending, Hands)
    /\ Placed
    /\ Queuing
    /\ Stream(store, queue, wire, appended)

-----------------------------------------------------------------------------
(* The messages *)

\* packLength does not wrap around for a length that it can hold.
LEMMA PackLengthIs ==
    ASSUME NEW n \in Nat
    PROVE  /\ PackLength(n) \in Nat /\ PackLength(n) % Limit = PackLength(n)
           /\ HeadLength + n < Limit => PackLength(n) = HeadLength + n
  <1>1. Limit \in Nat /\ Limit > 0 /\ HeadLength \in Nat
    BY SendAssumption
  <1>2. \A a \in Nat : a % Limit \in Nat /\ a % Limit < Limit
    BY <1>1
  <1>3. \A a \in Nat : a < Limit => a % Limit = a
    BY <1>1
  <1> DEFINE l == n % Limit
             k == HeadLength + l
  <1>4. l \in Nat /\ k \in Nat
    BY <1>1, <1>2
  <1>5. PackLength(n) = k % Limit
    BY DEF PackLength
  <1>6. HeadLength + n < Limit => l = n
    <2>1. HeadLength + n < Limit => n < Limit
      BY <1>1
    <2> QED
      BY <1>3, <2>1
  <1> HIDE DEF l, k
  <1>7. HeadLength + n < Limit => k % Limit = HeadLength + n
    BY <1>1, <1>3, <1>6 DEF k
  <1> QED
    BY <1>2, <1>3, <1>4, <1>5, <1>7

\* What is true of message m, and of its buffers.
LEMMA OfMessage ==
    ASSUME Inv, NEW m \in Messages
    PROVE  /\ Holds(store, m, stage[m], length[m], pack[m], body[m], out[m], sending, Kept(m, emptied))
           /\ stage[m] \in Stages /\ length[m] \in Nat /\ pack[m] \in Nat
           /\ body[m] \in Buffers \cup {Null} /\ out[m] \in Buffers \cup {Null}
           /\ Hands[m] = MineOf(m, stage[m], body[m], out[m])
  BY DEF Inv, Types, Placed, Hands

\* What is true of the message of an entry of appended.
LEMMA OfAppended ==
    ASSUME Inv, NEW i \in DOMAIN appended
    PROVE  /\ appended[i] \in Appends /\ appended[i][1] \in Messages
           /\ Recorded(appended[i], stage[appended[i][1]], length[appended[i][1]],
                       Kept(appended[i][1], emptied))
  <1>1. appended[i] \in Appends
    BY DEF Inv, Types
  <1> QED
    BY <1>1 DEF Inv, Queuing, Appends

\* No message is between two steps of its batch, so there is no sendBuffer.
LEMMA WhenIdle ==
    ASSUME Inv, Idle
    PROVE  sending = Null /\ \A m \in Messages : stage[m] \notin Busy
  BY DEF Inv, Placed, Idle, Busy

\* The step of message m to stage st, the length n, packLength p, body bo, outgoingBody
\* ou and sendBuffer x: it touches no buffer of anybody else.
Moves(m, st, n, p, bo, ou, x) ==
    /\ stage' = [stage EXCEPT ![m] = st] /\ length' = [length EXCEPT ![m] = n]
    /\ pack' = [pack EXCEPT ![m] = p] /\ body' = [body EXCEPT ![m] = bo]
    /\ out' = [out EXCEPT ![m] = ou] /\ sending' = x /\ UNCHANGED <<emptied, socket>>
    /\ StoreOK(store')
    /\ Owners(Loose(store'), Cleared, x, [Hands EXCEPT ![m] = MineOf(m, st, bo, ou)])
    /\ \A y \in Buffers :
          y \notin Loose(store) /\ y # Hands[m] => store'.buffer[y] = store.buffer[y]
    /\ Holds(store', m, st, n, p, bo, ou, x, Kept(m, emptied))
    /\ stage[m] \notin Fresh => st \notin Fresh /\ n = length[m]
    /\ st \in Busy => \A k \in Messages : stage[k] \in Busy => k = m
    /\ \/ x = sending /\ stage[m] # "copying" /\ st # "copying"
       \/ sending = Null /\ st = "copying"

\* Such a step keeps the invariant.
LEMMA MovesKeeps ==
    ASSUME Inv, NEW m \in Messages \ {Ping}, NEW st \in Stages, NEW n \in Nat, NEW p \in Nat,
           NEW bo \in Buffers \cup {Null}, NEW ou \in Buffers \cup {Null},
           NEW x \in Buffers \cup {Null}, Moves(m, st, n, p, bo, ou, x)
    PROVE  Inv'
  <1>1. /\ queue' = queue /\ space' = space /\ wire' = wire /\ appended' = appended
        /\ sending' = x /\ emptied' = emptied
    BY DEF Moves, socket
  <1>2. /\ stage' = [stage EXCEPT ![m] = st] /\ length' = [length EXCEPT ![m] = n]
        /\ pack' = [pack EXCEPT ![m] = p] /\ body' = [body EXCEPT ![m] = bo]
        /\ out' = [out EXCEPT ![m] = ou]
    BY DEF Moves
  <1>3. /\ stage'[m] = st /\ length'[m] = n /\ pack'[m] = p /\ body'[m] = bo /\ out'[m] = ou
        /\ \A k \in Messages \ {m} : /\ stage'[k] = stage[k] /\ length'[k] = length[k]
                                     /\ pack'[k] = pack[k] /\ body'[k] = body[k] /\ out'[k] = out[k]
    BY <1>2 DEF Inv, Types
  <1>4. Types'
    BY <1>1, <1>2 DEF Inv, Types
  <1>5. Cleared' = Cleared
    BY <1>1 DEF Cleared
  <1>6. Hands' = [Hands EXCEPT ![m] = MineOf(m, st, bo, ou)]
    <2>1. Hands' = [k \in Messages |-> MineOf(k, stage'[k], body'[k], out'[k])]
      BY DEF Hands
    <2>2. \A k \in Messages \ {m} : MineOf(k, stage'[k], body'[k], out'[k]) = MineOf(k, stage[k], body[k], out[k])
      BY <1>3, Zenon
    <2> QED
      BY <1>3, <2>1, <2>2, Zenon DEF Hands
  <1>7. Owners(Loose(store), Cleared, sending, Hands)'
    BY <1>1, <1>5, <1>6 DEF Moves
  <1>8. Owners(Loose(store), Cleared, sending, Hands)
    BY DEF Inv
  <1>9. \A y \in Buffers : y \notin Loose(store) /\ y # Hands[m] => store'.buffer[y] = store.buffer[y]
    BY DEF Moves
  <1>10. Stream(store, queue, wire, appended)'
    <2>1. ASSUME NEW i \in DOMAIN queue
          PROVE  store'.buffer[queue[i].buffer] = store.buffer[queue[i].buffer]
      <3>1. i \in DOMAIN Cleared /\ Cleared[i] = queue[i].buffer /\ Cleared[i] \in Buffers
        <4>1. queue[i] \in Entries
          BY DEF Inv, Types
        <4> QED
          BY <4>1 DEF Cleared, Entries
      <3>2. Cleared[i] \notin Loose(store) /\ Cleared[i] # Hands[m]
        BY <1>8, <3>1, Zenon DEF Owners
      <3> QED
        BY <1>9, <3>1, <3>2
    <2>2. Stream(store', queue, wire, appended)
      BY <2>1, StreamFrame DEF Inv
    <2> QED
      BY <1>1, <2>2
  <1>11. Queuing'
    <2> SUFFICES ASSUME NEW i \in DOMAIN appended
                 PROVE  Recorded(appended[i], stage'[appended[i][1]], length'[appended[i][1]],
                                 Kept(appended[i][1], emptied))
      BY <1>1, Zenon DEF Queuing
    <2> DEFINE k == appended[i][1]
    <2>1. k \in Messages /\ Recorded(appended[i], stage[k], length[k], Kept(k, emptied))
      BY OfAppended, Zenon
    <2>2. stage[k] \notin Fresh
      BY <2>1, Zenon DEF Recorded
    <2>3. stage'[k] \notin Fresh /\ length'[k] = length[k]
      <3> HIDE DEF k
      <3> QED
        BY <1>3, <2>1, <2>2 DEF Moves
    <2> QED
      BY <2>1, <2>3, Zenon DEF Recorded
  <1>12. ASSUME NEW k \in Messages
         PROVE  Holds(store', k, stage'[k], length'[k], pack'[k], body'[k], out'[k], sending', Kept(k, emptied'))
    <2>1. CASE k = m
      BY <1>1, <1>3, <2>1 DEF Moves
    <2>2. CASE k # m
      <3>1. /\ Holds(store, k, stage[k], length[k], pack[k], body[k], out[k], sending, Kept(k, emptied))
            /\ Hands[k] = MineOf(k, stage[k], body[k], out[k])
        BY OfMessage
      <3>2. Hands[k] # Null => store'.buffer[Hands[k]] = store.buffer[Hands[k]]
        BY <1>8, <1>9, <2>2 DEF Owners
      <3>3. body[k] # Null => body[k] = Hands[k]
        BY <3>1 DEF MineOf
      <3>4. out[k] # Null /\ (k \in Acked \/ stage[k] = "serialized") => out[k] = Hands[k]
        BY <3>1, ZenonT(30) DEF MineOf, Holds, Busy
      <3>5. stage[k] = "copying" => x = sending /\ x # Null
        BY <2>2, <3>1 DEF Moves, Holds, Busy
      <3>6. stage[k] = "copying" => store'.buffer[x] = store.buffer[x]
        BY <1>8, <1>9, <3>5, ZenonT(30) DEF Owners
      <3>7. Holds(store', k, stage[k], length[k], pack[k], body[k], out[k], x, Kept(k, emptied))
        BY <3>1, <3>2, <3>3, <3>4, <3>5, <3>6, Zenon DEF Holds
      <3> QED
        BY <1>1, <1>3, <2>2, <3>7
    <2> QED
      BY <2>1, <2>2
  <1>13. stage'[Ping] \in {"new", "done"}
    BY <1>3, SendAssumption DEF Inv, Placed
  <1>14. \A k, l \in Messages : stage'[k] \in Busy /\ stage'[l] \in Busy => k = l
    BY <1>3 DEF Inv, Placed, Moves
  <1>15. sending' # Null => \E k \in Messages : stage'[k] = "copying"
    BY <1>1, <1>3, Zenon DEF Inv, Placed, Moves
  <1>16. Placed'
    BY <1>12, <1>13, <1>14, <1>15 DEF Placed
  <1> QED
    BY <1>4, <1>7, <1>10, <1>11, <1>16 DEF Inv, Moves

\* NativeByteBuffer.wrap takes a buffer nobody else has, and it is long enough.
LEMMA WrapKeeps ==
    ASSUME Induction, Inv, NEW m \in Messages \ {Ping}, Wrap(m)
    PROVE  Inv'
  <1>1. PICK n \in Lengths[m] :
            /\ stage[m] = "new" /\ Available(store, n)
            /\ store' = [AfterGet(store, n) EXCEPT
                            !.buffer[GetBuffer(store, n)].content = <<"body", m>>]
            /\ length' = [length EXCEPT ![m] = n]
            /\ body' = [body EXCEPT ![m] = GetBuffer(store, n)]
            /\ stage' = [stage EXCEPT ![m] = "wrapped"]
            /\ UNCHANGED <<pack, out, sending, emptied, socket>>
    BY Zenon DEF Wrap
  <1> DEFINE b == GetBuffer(store, n)
             got == AfterGet(store, n)
             v == <<"body", m>>
  <1>2. n \in Nat
    BY SendAssumption
  <1>3. /\ StoreOK(got) /\ b \in Buffers /\ b \in Loose(store) /\ Loose(got) = Loose(store) \ {b}
        /\ got.buffer[b].limit = n
        /\ \A y \in Buffers \ {b} : got.buffer[y] = store.buffer[y]
    BY <1>1, <1>2, AfterGetKeeps DEF Inv
  <1>4. store' = Filled(got, b, v)
    BY <1>1 DEF Filled
  <1>5. v \in Contents
    BY DEF Contents
  <1> HIDE DEF b, got, v
  <1>6. /\ StoreOK(store') /\ Loose(store') = Loose(store) \ {b}
        /\ store'.buffer[b].limit = n /\ store'.buffer[b].content = v
        /\ \A y \in Buffers \ {b} : store'.buffer[y] = store.buffer[y]
    BY <1>3, <1>4, <1>5, ContentKeeps
  <1>7. body[m] = Null /\ out[m] = Null /\ Hands[m] = Null
    BY <1>1, OfMessage, Zenon DEF Holds, MineOf, Busy
  <1>8. Owners(Loose(store'), Cleared, sending, [Hands EXCEPT ![m] = b])
    BY <1>3, <1>6, <1>7, Hand DEF Inv
  <1>9. MineOf(m, "wrapped", b, out[m]) = b /\ b # Null
    BY <1>3, BuffersNotNull DEF MineOf
  <1>10. Holds(store', m, "wrapped", n, pack[m], b, out[m], sending, Kept(m, emptied))
    BY <1>6, <1>7, <1>9 DEF Holds, Busy, v
  <1>11. /\ pack' = [pack EXCEPT ![m] = pack[m]] /\ out' = [out EXCEPT ![m] = out[m]]
         /\ sending' = sending /\ UNCHANGED <<emptied, socket>> /\ body' = [body EXCEPT ![m] = b]
    BY <1>1 DEF Inv, Types, b
  <1>12. \A y \in Buffers : y \notin Loose(store) => store'.buffer[y] = store.buffer[y]
    BY <1>3, <1>6
  <1>13. Moves(m, "wrapped", n, pack[m], b, out[m], sending)
    BY <1>1, <1>6, <1>8, <1>9, <1>10, <1>11, <1>12, Zenon DEF Moves, Busy, Fresh
  <1>14. "wrapped" \in Stages /\ pack[m] \in Nat /\ out[m] \in Buffers \cup {Null} /\ sending \in Buffers \cup {Null}
    BY Zenon DEF Inv, Types, Stages, Fresh
  <1> QED
    BY <1>2, <1>3, <1>13, <1>14, MovesKeeps

\* senRequest hands the message to the network thread, with its body.
LEMMA SenRequestKeeps ==
    ASSUME Inv, NEW m \in Messages \ {Ping}, SenRequest(m)
    PROVE  Inv'
  <1>1. /\ stage[m] = "wrapped" /\ stage' = [stage EXCEPT ![m] = "queued"]
        /\ UNCHANGED <<store, length, pack, body, out, sending, emptied, socket>>
    BY Zenon DEF SenRequest
  <1>2. /\ Holds(store, m, stage[m], length[m], pack[m], body[m], out[m], sending, Kept(m, emptied))
        /\ Hands[m] = MineOf(m, stage[m], body[m], out[m])
        /\ length[m] \in Nat /\ pack[m] \in Nat
        /\ body[m] \in Buffers \cup {Null} /\ out[m] \in Buffers \cup {Null}
    BY OfMessage
  <1>3. Holds(store', m, "queued", length[m], pack[m], body[m], out[m], sending, Kept(m, emptied))
    BY <1>1, <1>2, Zenon DEF Holds, Busy
  <1>4. MineOf(m, "queued", body[m], out[m]) = Hands[m]
    BY <1>1, <1>2, Zenon DEF MineOf, Holds
  <1>5. /\ length' = [length EXCEPT ![m] = length[m]] /\ pack' = [pack EXCEPT ![m] = pack[m]]
        /\ body' = [body EXCEPT ![m] = body[m]] /\ out' = [out EXCEPT ![m] = out[m]]
        /\ sending' = sending /\ UNCHANGED <<emptied, socket>> /\ store' = store
        /\ [Hands EXCEPT ![m] = Hands[m]] = Hands
    BY <1>1, Zenon DEF Inv, Types, Hands
  <1>6. StoreOK(store') /\ Owners(Loose(store'), Cleared, sending, [Hands EXCEPT ![m] = Hands[m]])
    BY <1>5 DEF Inv
  <1>7. Moves(m, "queued", length[m], pack[m], body[m], out[m], sending)
    BY <1>1, <1>3, <1>4, <1>5, <1>6, Zenon DEF Moves, Busy, Fresh
  <1>8. "queued" \in Stages /\ sending \in Buffers \cup {Null}
    BY Zenon DEF Stages, Inv, Types, Fresh
  <1> QED
    BY <1>2, <1>7, <1>8, MovesKeeps

\* Message m gives its buffer back.
LEMMA GivesBack ==
    ASSUME Induction, Inv, NEW m \in Messages, NEW b \in Buffers, Hands[m] = b,
           NEW t, t = GiveBack(store, <<b>>)
    PROVE  /\ StoreOK(t) /\ Owners(Loose(t), Cleared, sending, [Hands EXCEPT ![m] = Null])
           /\ \A y \in Buffers : y # b => t.buffer[y] = store.buffer[y]
  <1>1. Owners(Loose(store), Cleared, sending, Hands) /\ StoreOK(store) /\ b # Null
    BY BuffersNotNull DEF Inv
  <1>2. b \notin Loose(store)
    BY <1>1 DEF Owners
  <1>3. /\ StoreOK(t) /\ Loose(t) = Loose(store) \cup {b}
        /\ \A y \in Buffers \ {b} : t.buffer[y] = store.buffer[y]
    BY <1>1, <1>2, GiveOneBack
  <1>4. Owners(Loose(store) \cup {Hands[m]}, Cleared, sending, [Hands EXCEPT ![m] = Null])
    BY <1>1, Give
  <1> QED
    BY <1>3, <1>4

\* A request that was not serialized gives its body back.
LEMMA RefuseKeeps ==
    ASSUME Induction, Inv, NEW m \in Messages \ {Ping}, Refuse(m)
    PROVE  Inv'
  <1>1. /\ stage[m] \in {"wrapped", "queued"}
        /\ store' = GiveBack(store, <<body[m]>>) /\ body' = [body EXCEPT ![m] = Null]
        /\ stage' = [stage EXCEPT ![m] = "done"]
        /\ UNCHANGED <<length, pack, out, sending, emptied, socket>>
    BY DEF Refuse
  <1>2. /\ Holds(store, m, stage[m], length[m], pack[m], body[m], out[m], sending, Kept(m, emptied))
        /\ Hands[m] = MineOf(m, stage[m], body[m], out[m])
        /\ length[m] \in Nat /\ pack[m] \in Nat
        /\ body[m] \in Buffers \cup {Null} /\ out[m] \in Buffers \cup {Null}
    BY OfMessage, Zenon
  <1>3. body[m] # Null /\ body[m] \in Buffers /\ Hands[m] = body[m] /\ out[m] = Null
    BY <1>1, <1>2, Zenon DEF Holds, MineOf, Busy
  <1>4. /\ StoreOK(store') /\ Owners(Loose(store'), Cleared, sending, [Hands EXCEPT ![m] = Null])
        /\ \A y \in Buffers : y # body[m] => store'.buffer[y] = store.buffer[y]
    BY <1>1, <1>3, GivesBack
  <1>5. Holds(store', m, "done", length[m], pack[m], Null, out[m], sending, Kept(m, emptied))
    BY <1>3 DEF Holds, Busy
  <1>6. MineOf(m, "done", Null, out[m]) = Null
    BY <1>3 DEF MineOf
  <1>7. /\ length' = [length EXCEPT ![m] = length[m]] /\ pack' = [pack EXCEPT ![m] = pack[m]]
        /\ out' = [out EXCEPT ![m] = out[m]] /\ sending' = sending /\ UNCHANGED <<emptied, socket>>
    BY <1>1 DEF Inv, Types
  <1>8. Moves(m, "done", length[m], pack[m], Null, out[m], sending)
    BY <1>1, <1>3, <1>4, <1>5, <1>6, <1>7, Zenon DEF Moves, Busy, Fresh
  <1>9. "done" \in Stages /\ sending \in Buffers \cup {Null} /\ Null \in Buffers \cup {Null}
    BY DEF Stages, Inv, Types, Fresh
  <1> QED
    BY <1>2, <1>8, <1>9, MovesKeeps, Zenon

\* A request that is answered, late or failed gives its packet back.
LEMMA CompleteKeeps ==
    ASSUME Induction, Inv, NEW m \in Messages \ {Ping}, Complete(m)
    PROVE  Inv'
  <1>1. /\ stage[m] \in {"sent", "early"}
        /\ store' = GiveBack(store, <<out[m]>>) /\ out' = [out EXCEPT ![m] = Null]
        /\ stage' = [stage EXCEPT ![m] = "done"]
        /\ UNCHANGED <<length, pack, body, sending, emptied, socket>>
    BY Zenon DEF Complete
  <1>2. /\ Holds(store, m, stage[m], length[m], pack[m], body[m], out[m], sending, Kept(m, emptied))
        /\ Hands[m] = MineOf(m, stage[m], body[m], out[m])
        /\ length[m] \in Nat /\ pack[m] \in Nat
        /\ body[m] \in Buffers \cup {Null} /\ out[m] \in Buffers \cup {Null}
    BY OfMessage, Zenon
  <1>3. out[m] # Null /\ out[m] \in Buffers /\ Hands[m] = out[m] /\ body[m] = Null
    BY <1>1, <1>2, Zenon DEF Holds, MineOf, Busy
  <1>4. /\ StoreOK(store') /\ Owners(Loose(store'), Cleared, sending, [Hands EXCEPT ![m] = Null])
        /\ \A y \in Buffers : y # out[m] => store'.buffer[y] = store.buffer[y]
    BY <1>1, <1>3, GivesBack
  <1>5. Holds(store', m, "done", length[m], pack[m], body[m], Null, sending, Kept(m, emptied))
    BY <1>3 DEF Holds, Busy
  <1>6. MineOf(m, "done", body[m], Null) = Null
    BY <1>3 DEF MineOf
  <1>7. /\ length' = [length EXCEPT ![m] = length[m]] /\ pack' = [pack EXCEPT ![m] = pack[m]]
        /\ body' = [body EXCEPT ![m] = body[m]] /\ sending' = sending /\ UNCHANGED <<emptied, socket>>
    BY <1>1 DEF Inv, Types
  <1>8. Moves(m, "done", length[m], pack[m], body[m], Null, sending)
    BY <1>1, <1>3, <1>4, <1>5, <1>6, <1>7, Zenon DEF Moves, Busy, Fresh
  <1>9. "done" \in Stages /\ sending \in Buffers \cup {Null} /\ Null \in Buffers \cup {Null}
    BY DEF Stages, Inv, Types, Fresh
  <1> QED
    BY <1>2, <1>8, <1>9, MovesKeeps, Zenon

\* A packet that is sent again has the length it had.
LEMMA ResendKeeps ==
    ASSUME Inv, NEW m \in Messages \ {Ping}, Resend(m)
    PROVE  Inv'
  <1>1. /\ stage[m] = "early" /\ Idle /\ stage' = [stage EXCEPT ![m] = "erased"]
        /\ pack' = [pack EXCEPT ![m] = LengthAgain(m)]
        /\ UNCHANGED <<store, length, body, out, sending, emptied, socket>>
    BY DEF Resend
  <1>2. /\ Holds(store, m, stage[m], length[m], pack[m], body[m], out[m], sending, Kept(m, emptied))
        /\ Hands[m] = MineOf(m, stage[m], body[m], out[m])
        /\ length[m] \in Nat /\ pack[m] \in Nat
        /\ body[m] \in Buffers \cup {Null} /\ out[m] \in Buffers \cup {Null}
    BY OfMessage
  <1>3. sending = Null /\ \A k \in Messages : stage[k] \notin Busy
    BY <1>1, WhenIdle
  <1>4. m \in Acked /\ out[m] # Null /\ body[m] = Null
    BY <1>1, <1>2, Zenon DEF Holds
  <1>5. store.buffer[out[m]].limit = PackLength(length[m])
    BY <1>2, <1>4, ZenonT(30) DEF Holds
  <1>6. LengthAgain(m) = PackLength(length[m]) /\ PackLength(length[m]) \in Nat
    BY <1>2, <1>5, PackLengthIs DEF LengthAgain
  <1> DEFINE p == LengthAgain(m)
  <1>7. Holds(store', m, "erased", length[m], p, body[m], out[m], sending, Kept(m, emptied))
    BY <1>1, <1>2, <1>4, <1>6, ZenonT(30) DEF Holds, Busy
  <1>8. MineOf(m, "erased", body[m], out[m]) = Hands[m]
    BY <1>2, <1>4 DEF MineOf
  <1>9. /\ length' = [length EXCEPT ![m] = length[m]] /\ body' = [body EXCEPT ![m] = body[m]]
        /\ out' = [out EXCEPT ![m] = out[m]] /\ sending' = sending /\ UNCHANGED <<emptied, socket>>
        /\ store' = store /\ [Hands EXCEPT ![m] = Hands[m]] = Hands
    BY <1>1, Zenon DEF Inv, Types, Hands
  <1>10. StoreOK(store') /\ Owners(Loose(store'), Cleared, sending, [Hands EXCEPT ![m] = Hands[m]])
    BY <1>9 DEF Inv
  <1> HIDE DEF p
  <1>11. Moves(m, "erased", length[m], p, body[m], out[m], sending)
    BY <1>1, <1>3, <1>7, <1>8, <1>9, <1>10, Zenon DEF Moves, Busy, p, Fresh
  <1>12. "erased" \in Stages /\ sending \in Buffers \cup {Null} /\ p \in Nat
    BY <1>6 DEF Stages, Busy, Inv, Types, p, Fresh
  <1> QED
    BY <1>2, <1>11, <1>12, MovesKeeps, Zenon

\* sendMessageToConnection takes a buffer of the length of the packet.
LEMMA GetSendBufferKeeps ==
    ASSUME Induction, Inv, NEW m \in Messages \ {Ping}, GetSendBuffer(m)
    PROVE  Inv'
  <1> DEFINE b == GetBuffer(store, pack[m])
  <1>1. /\ stage[m] = "erased" /\ Available(store, pack[m])
        /\ store' = AfterGet(store, pack[m]) /\ sending' = b
        /\ stage' = [stage EXCEPT ![m] = "copying"]
        /\ UNCHANGED <<length, pack, body, out, emptied, socket>>
    BY DEF GetSendBuffer
  <1>2. /\ Holds(store, m, stage[m], length[m], pack[m], body[m], out[m], sending, Kept(m, emptied))
        /\ Hands[m] = MineOf(m, stage[m], body[m], out[m])
        /\ length[m] \in Nat /\ pack[m] \in Nat
        /\ body[m] \in Buffers \cup {Null} /\ out[m] \in Buffers \cup {Null}
    BY OfMessage
  <1>3. \A k \in Messages : stage[k] \in Busy => k = m
    BY <1>1, Zenon DEF Inv, Placed, Busy
  <1>4. sending = Null
    BY <1>1, <1>3, Zenon DEF Inv, Placed, Busy
  <1>5. /\ StoreOK(store') /\ b \in Buffers /\ b \in Loose(store)
        /\ Loose(store') = Loose(store) \ {b} /\ store'.buffer[b].limit = pack[m]
        /\ \A y \in Buffers \ {b} : store'.buffer[y] = store.buffer[y]
    <2>1. StoreOK(store)
      BY Zenon DEF Inv
    <2>2. Taken(store, store', b, pack[m])
      BY <1>1, <1>2, <2>1, GetTakes, Zenon
    <2> QED
      BY <2>2, Zenon DEF Taken
  <1> HIDE DEF b
  <1>6. Owners(Loose(store'), Cleared, b, Hands) /\ Owners(Loose(store), Cleared, sending, Hands)
    <2>1. Owners(Loose(store), Cleared, Null, Hands) /\ Owners(Loose(store), Cleared, sending, Hands)
      BY <1>4, Zenon DEF Inv
    <2>2. Owners(Loose(store) \ {b}, Cleared, b, Hands)
      BY <1>5, <2>1, Take, ZenonT(30)
    <2> QED
      BY <1>5, <2>1, <2>2, Zenon
  <1>7. Hands[m] # Null => store'.buffer[Hands[m]] = store.buffer[Hands[m]]
    BY <1>5, <1>6 DEF Owners
  <1>8. body[m] = Null /\ out[m] # Null /\ pack[m] = PackLength(length[m])
    BY <1>1, <1>2, ZenonT(30) DEF Holds, Busy
  <1>9. m \in Acked => Hands[m] = out[m]
    BY <1>2, <1>8 DEF MineOf
  <1>10. Holds(store', m, "copying", length[m], pack[m], body[m], out[m], b, Kept(m, emptied))
    BY <1>2, <1>5, <1>7, <1>8, <1>9, BuffersNotNull, Zenon DEF Holds, Busy
  <1>11. MineOf(m, "copying", body[m], out[m]) = Hands[m]
    BY <1>1, <1>2, Zenon DEF MineOf
  <1>12. /\ length' = [length EXCEPT ![m] = length[m]] /\ pack' = [pack EXCEPT ![m] = pack[m]]
         /\ body' = [body EXCEPT ![m] = body[m]] /\ out' = [out EXCEPT ![m] = out[m]]
         /\ UNCHANGED <<emptied, socket>> /\ [Hands EXCEPT ![m] = Hands[m]] = Hands
    BY <1>1, Zenon DEF Inv, Types, Hands
  <1>13. \A y \in Buffers : y \notin Loose(store) => store'.buffer[y] = store.buffer[y]
    BY <1>5
  <1>14. Moves(m, "copying", length[m], pack[m], body[m], out[m], b)
    BY <1>1, <1>3, <1>4, <1>5, <1>6, <1>10, <1>11, <1>12, <1>13, ZenonT(30) DEF Moves, Fresh
  <1>15. "copying" \in Stages
    BY DEF Stages, Busy, Fresh
  <1> QED
    BY <1>2, <1>5, <1>14, <1>15, MovesKeeps, Zenon

\* A request without reply is destroyed with its packet, which it alone holds.
LEMMA EraseRequestKeeps ==
    ASSUME Induction, Inv, NEW m \in Messages \ {Ping}, EraseRequest(m)
    PROVE  Inv'
  <1>1. /\ stage[m] = "serialized" /\ stage' = [stage EXCEPT ![m] = "erased"]
        /\ store' = GiveBack(store, Erased(m))
        /\ UNCHANGED <<length, pack, body, out, sending, emptied, socket>>
    BY Zenon DEF EraseRequest
  <1>2. /\ Holds(store, m, stage[m], length[m], pack[m], body[m], out[m], sending, Kept(m, emptied))
        /\ Hands[m] = MineOf(m, stage[m], body[m], out[m])
        /\ length[m] \in Nat /\ pack[m] \in Nat
        /\ body[m] \in Buffers \cup {Null} /\ out[m] \in Buffers \cup {Null}
    BY OfMessage
  <1>3. body[m] = Null /\ out[m] # Null /\ Hands[m] = out[m] /\ out[m] \in Buffers
    BY <1>1, <1>2, ZenonT(30) DEF Holds, MineOf, Busy
  <1>4. /\ StoreOK(store')
        /\ Owners(Loose(store'), Cleared, sending, [Hands EXCEPT ![m] = MineOf(m, "erased", body[m], out[m])])
        /\ \A y \in Buffers : y # Hands[m] \/ m \in Acked => store'.buffer[y] = store.buffer[y]
    <2>1. CASE m \in Acked
      <3>1. StoreOK(store) /\ store \in Stores /\ Owners(Loose(store), Cleared, sending, Hands)
        BY DEF Inv, StoreOK
      <3>2. store' = GiveBack(store, <<>>)
        BY <1>1, <2>1 DEF Erased
      <3>3. store' = store
        BY <3>1, <3>2, GiveNoneBack
      <3>5. MineOf(m, "erased", body[m], out[m]) = Hands[m] /\ [Hands EXCEPT ![m] = Hands[m]] = Hands
        BY <1>3, <2>1 DEF MineOf, Hands
      <3> QED
        BY <3>1, <3>3, <3>5, ZenonT(30)
    <2>2. CASE m \notin Acked
      <3>1. store' = GiveBack(store, <<out[m]>>)
        BY <1>1, <2>2, ZenonT(30) DEF Erased
      <3>2. /\ StoreOK(store') /\ Owners(Loose(store'), Cleared, sending, [Hands EXCEPT ![m] = Null])
            /\ \A y \in Buffers : y # out[m] => store'.buffer[y] = store.buffer[y]
        BY <1>3, <3>1, GivesBack
      <3>3. MineOf(m, "erased", body[m], out[m]) = Null
        BY <1>3, <2>2 DEF MineOf
      <3> QED
        BY <1>3, <2>2, <3>2, <3>3, Zenon
    <2> QED
      BY <2>1, <2>2
  <1>5. Holds(store', m, "erased", length[m], pack[m], body[m], out[m], sending, Kept(m, emptied))
    BY <1>1, <1>2, <1>3, <1>4, ZenonT(30) DEF Holds, Busy
  <1>6. /\ length' = [length EXCEPT ![m] = length[m]] /\ pack' = [pack EXCEPT ![m] = pack[m]]
        /\ body' = [body EXCEPT ![m] = body[m]] /\ out' = [out EXCEPT ![m] = out[m]]
        /\ sending' = sending /\ UNCHANGED <<emptied, socket>>
    BY <1>1 DEF Inv, Types
  <1>7. \A k \in Messages : stage[k] \in Busy => k = m
    BY <1>1, Zenon DEF Inv, Placed, Busy
  <1>8. Moves(m, "erased", length[m], pack[m], body[m], out[m], sending)
    BY <1>1, <1>4, <1>5, <1>6, <1>7, Zenon DEF Moves, Fresh
  <1>9. "erased" \in Stages /\ sending \in Buffers \cup {Null}
    BY DEF Stages, Busy, Inv, Types, Fresh
  <1> QED
    BY <1>2, <1>8, <1>9, MovesKeeps, Zenon

\* serializeToBuffer takes a buffer for the packet and gives the body back.
LEMMA SerializeKeeps ==
    ASSUME Induction, Inv, NEW m \in Messages \ {Ping}, Serialize(m)
    PROVE  Inv'
  <1> DEFINE c == body[m]
             size == PackLength(store.buffer[c].limit)
             b == GetBuffer(store, size)
             got == AfterGet(store, size)
             v == Written(m, c, got.buffer[b].limit)
             mid == Filled(got, b, v)
  <1>1. /\ stage[m] = "queued" /\ Idle /\ Available(store, size)
        /\ store' = GiveBack(mid, <<c>>)
        /\ pack' = [pack EXCEPT ![m] = size] /\ out' = [out EXCEPT ![m] = b]
        /\ body' = [body EXCEPT ![m] = Null] /\ stage' = [stage EXCEPT ![m] = "serialized"]
        /\ UNCHANGED <<length, sending, emptied, socket>>
    BY Zenon DEF Serialize, Filled
  <1>2. /\ Holds(store, m, stage[m], length[m], pack[m], c, out[m], sending, Kept(m, emptied))
        /\ Hands[m] = MineOf(m, stage[m], c, out[m])
        /\ length[m] \in Nat /\ c \in Buffers \cup {Null}
    BY OfMessage
  <1>3. sending = Null /\ \A k \in Messages : stage[k] \notin Busy
    BY <1>1, WhenIdle, Zenon
  <1> HIDE DEF c
  <1>4. /\ c \in Buffers /\ c # Null /\ Hands[m] = c
        /\ store.buffer[c].limit = length[m] /\ store.buffer[c].content = <<"body", m>>
    BY <1>1, <1>2, Zenon DEF Holds, MineOf
  <1>5. /\ size = PackLength(length[m]) /\ size \in Nat
        /\ HeadLength + length[m] < Limit => size = HeadLength + length[m]
    BY <1>2, <1>4, PackLengthIs, Zenon
  <1> HIDE DEF size
  <1>6. StoreOK(store) /\ Owners(Loose(store), Cleared, Null, Hands)
    BY <1>3 DEF Inv
  <1>7. /\ StoreOK(got) /\ b \in Buffers /\ b \in Loose(store) /\ Loose(got) = Loose(store) \ {b}
        /\ got.buffer[b].limit = size
        /\ \A y \in Buffers \ {b} : got.buffer[y] = store.buffer[y]
    <2>1. Taken(store, got, b, size)
      BY <1>1, <1>5, <1>6, GetTakes, Zenon
    <2> QED
      BY <2>1, Zenon DEF Taken
  <1>8. v \in Contents
    BY Zenon DEF Written, Contents
  <1>9. HeadLength + length[m] < Limit => v = Kept(m, emptied)
    <2>1. HeadLength + length[m] < Limit => ~(HeadLength + length[m] > size)
      BY <1>2, <1>5, SendAssumption
    <2> QED
      BY <1>4, <1>7, <2>1, ZenonT(30) DEF Written, Kept
  <1> HIDE DEF b, got, v
  <1>10. /\ StoreOK(mid) /\ Loose(mid) = Loose(store) \ {b}
         /\ mid.buffer[b].limit = size /\ mid.buffer[b].content = v
         /\ \A y \in Buffers \ {b} : mid.buffer[y] = store.buffer[y]
    <2>1. Rewritten(got, mid, b, v)
      BY <1>7, <1>8, WriteRewrites, Zenon
    <2> HIDE DEF mid
    <2> QED
      BY <1>7, <2>1, Zenon DEF Rewritten
  <1> HIDE DEF mid
  <1>11. c \notin Loose(store) /\ c # b /\ c \notin Loose(mid)
    BY <1>4, <1>6, <1>7, <1>10, ZenonT(30) DEF Owners
  <1>12. /\ StoreOK(store') /\ Loose(store') = (Loose(store) \ {b}) \cup {c}
         /\ \A y \in Buffers \ {c} : store'.buffer[y] = mid.buffer[y]
    BY <1>1, <1>4, <1>10, <1>11, GiveOneBack
  <1>13. store'.buffer[b].limit = size /\ store'.buffer[b].content = v
    BY <1>7, <1>10, <1>11, <1>12
  <1>14. \A y \in Buffers : y # b /\ y # c => store'.buffer[y] = store.buffer[y]
    BY <1>10, <1>12, Zenon
  <1>15. Owners(Loose(store'), Cleared, Null, [Hands EXCEPT ![m] = b])
    <2> DEFINE h == [Hands EXCEPT ![m] = Null]
    <2>1. Owners(Loose(store) \ {b}, Cleared, b, Hands)
      BY <1>6, <1>7, Take
    <2>2. Owners((Loose(store) \ {b}) \cup {Hands[m]}, Cleared, b, h)
      BY <1>4, <2>1, Give
    <2>3. h[m] = Null /\ [h EXCEPT ![m] = b] = [Hands EXCEPT ![m] = b]
      BY Zenon DEF Hands
    <2> HIDE DEF h
    <2>4. Owners((Loose(store) \ {b}) \cup {Hands[m]}, Cleared, Null, [h EXCEPT ![m] = b])
      BY <1>7, <2>2, <2>3, HandOver
    <2> QED
      BY <1>4, <1>12, <2>3, <2>4
  <1>16. MineOf(m, "serialized", Null, b) = b /\ b # Null
    BY <1>7, BuffersNotNull DEF MineOf
  <1>17. Holds(store', m, "serialized", length[m], size, Null, b, sending, Kept(m, emptied))
    BY <1>5, <1>9, <1>13, <1>16 DEF Holds, Busy
  <1>18. /\ length' = [length EXCEPT ![m] = length[m]] /\ sending' = sending /\ UNCHANGED <<emptied, socket>>
    BY <1>1 DEF Inv, Types
  <1>19. \A y \in Buffers : y \notin Loose(store) /\ y # Hands[m] => store'.buffer[y] = store.buffer[y]
    BY <1>4, <1>7, <1>14
  <1>20. Owners(Loose(store'), Cleared, sending, [Hands EXCEPT ![m] = MineOf(m, "serialized", Null, b)])
    BY <1>3, <1>15, <1>16, Zenon
  <1>21. Moves(m, "serialized", length[m], size, Null, b, sending)
    BY <1>1, <1>3, <1>12, <1>17, <1>18, <1>19, <1>20, ZenonT(30) DEF Moves, Fresh
  <1>22. "serialized" \in Stages /\ sending \in Buffers \cup {Null} /\ Null \in Buffers \cup {Null}
    BY <1>3 DEF Stages, Busy, Fresh
  <1> QED
    BY <1>2, <1>5, <1>7, <1>21, <1>22, MovesKeeps, Zenon

-----------------------------------------------------------------------------
(* The socket *)

\* What a step of the socket may do to message k.
Onward(k) ==
    \/ stage'[k] = stage[k] /\ out'[k] = out[k]
    \/ stage[k] = "sent" /\ stage'[k] = "early" /\ out'[k] = out[k]
    \/ stage[k] = "copying" /\ k \in Acked /\ stage'[k] \in {"sent", "early"} /\ out'[k] = out[k]
    \/ stage[k] = "copying" /\ k \notin Acked /\ stage'[k] = "done" /\ out'[k] = Null
    \/ k = Ping /\ stage[k] = "new" /\ stage'[k] = "done" /\ out'[k] = out[k]

\* A message that has been serialized keeps its packet.
Stays(k) == body[k] = Null => Kept(k, emptied') = Kept(k, emptied)

\* A step of the socket keeps the invariant when it keeps the stream, and touches no
\* buffer that a message has to give back.
LEMMA SocketKeeps ==
    ASSUME Inv, StoreOK(store'), Owners(Loose(store'), Cleared', sending', Hands),
           Stream(store', queue', wire', appended'), Queuing',
           queue' \in Seq(Entries), space' \in Nat, wire' \in Seq(Bytes),
           appended' \in Seq(Appends),
           length' = length, pack' = pack, body' = body,
           stage' \in [Messages -> Stages], out' \in [Messages -> Buffers \cup {Null}],
           \A k \in Messages : Onward(k), \A k \in Messages : Stays(k),
           \A k \in Messages : Hands[k] # Null => store'.buffer[Hands[k]] = store.buffer[Hands[k]],
           \/ sending' = sending /\ store' = store /\ stage' = stage
           \/ sending' = Null /\ \A k \in Messages : stage'[k] # "copying"
    PROVE  Inv'
  <1>1. sending' \in Buffers \cup {Null}
    BY DEF Owners
  <1>2. Types'
    BY <1>1, Zenon DEF Inv, Types
  <1>3. ASSUME NEW k \in Messages
        PROVE  MineOf(k, stage'[k], body'[k], out'[k]) = Hands[k]
    <2>1. /\ Holds(store, k, stage[k], length[k], pack[k], body[k], out[k], sending, Kept(k, emptied))
          /\ Hands[k] = MineOf(k, stage[k], body[k], out[k]) /\ Onward(k)
      BY OfMessage, Zenon
    <2>2. stage[k] \in {"copying", "sent", "new"} => body[k] = Null
      BY <2>1, Zenon DEF Holds
    <2> QED
      BY <2>1, <2>2, Zenon DEF MineOf, Onward
  <1>4. Hands' = Hands
    <2>1. Hands' = [k \in Messages |-> MineOf(k, stage'[k], body'[k], out'[k])]
      BY Zenon DEF Hands
    <2>2. Hands = [k \in Messages |-> Hands[k]]
      BY Zenon DEF Hands
    <2> QED
      BY <1>3, <2>1, <2>2
  <1>5. Owners(Loose(store), Cleared, sending, Hands)'
    BY <1>4
  <1>6. ASSUME NEW k \in Messages
        PROVE  Holds(store', k, stage'[k], length'[k], pack'[k], body'[k], out'[k], sending', Kept(k, emptied'))
    <2>1. /\ Holds(store, k, stage[k], length[k], pack[k], body[k], out[k], sending, Kept(k, emptied))
          /\ Hands[k] = MineOf(k, stage[k], body[k], out[k])
          /\ Hands[k] # Null => store'.buffer[Hands[k]] = store.buffer[Hands[k]]
          /\ Onward(k)
      BY OfMessage, Zenon
    <2>2. body[k] # Null => body[k] = Hands[k]
      BY <2>1, Zenon DEF MineOf
    <2>3. out[k] # Null /\ (k \in Acked \/ stage[k] = "serialized") => out[k] = Hands[k]
      BY <2>1, Zenon DEF MineOf, Holds, Busy
    <2>4. stage'[k] = "copying" => stage[k] = "copying" /\ sending' = sending /\ store' = store
      BY <2>1, Zenon DEF Onward
    <2>5. out[k] # Null => Kept(k, emptied') = Kept(k, emptied)
      <3>1. out[k] # Null => body[k] = Null
        BY <2>1, Zenon DEF Holds, Busy
      <3> QED
        BY <3>1, Zenon DEF Stays
    <2>6. CASE stage'[k] = stage[k] /\ out'[k] = out[k]
      BY <2>1, <2>2, <2>3, <2>4, <2>5, <2>6, ZenonT(30) DEF Holds
    <2>7. CASE stage[k] = "sent" /\ stage'[k] = "early" /\ out'[k] = out[k]
      BY <2>1, <2>2, <2>3, <2>5, <2>7, Zenon DEF Holds, Busy
    <2>8. CASE stage[k] = "copying" /\ k \in Acked /\ stage'[k] \in {"sent", "early"} /\ out'[k] = out[k]
      BY <2>1, <2>2, <2>3, <2>5, <2>8, Zenon DEF Holds, Busy
    <2>9. CASE stage[k] = "copying" /\ k \notin Acked /\ stage'[k] = "done" /\ out'[k] = Null
      BY <2>1, <2>2, <2>9, Zenon DEF Holds, Busy
    <2>10. CASE k = Ping /\ stage[k] = "new" /\ stage'[k] = "done" /\ out'[k] = out[k]
      BY <2>1, <2>2, <2>10, Zenon DEF Holds, Busy
    <2> QED
      BY <2>1, <2>6, <2>7, <2>8, <2>9, <2>10, Zenon DEF Onward
  <1>7. stage'[Ping] \in {"new", "done"}
    BY SendAssumption, Zenon DEF Inv, Placed, Onward
  <1>8. \A k, l \in Messages : stage'[k] \in Busy /\ stage'[l] \in Busy => k = l
    <2>1. \A k \in Messages : stage'[k] \in Busy => stage[k] \in Busy
      BY DEF Onward, Busy
    <2> QED
      BY <2>1, ZenonT(30) DEF Inv, Placed
  <1>9. sending' # Null => \E k \in Messages : stage'[k] = "copying"
    BY Zenon DEF Inv, Placed
  <1>10. Placed'
    BY <1>6, <1>7, <1>8, <1>9, ZenonT(30) DEF Placed
  <1> QED
    BY <1>2, <1>5, <1>10, ZenonT(30) DEF Inv

\* What is recorded of message k stays true.
LEMMA RecordedKeeps ==
    ASSUME Inv, NEW k \in Messages, Onward(k), Stays(k), NEW a,
           Recorded(a, stage[k], length[k], Kept(k, emptied))
    PROVE  Recorded(a, stage'[k], length[k], Kept(k, emptied'))
  <1>1. stage[k] \notin Fresh
    BY Zenon DEF Recorded
  <1>2. stage'[k] \notin Fresh
    BY <1>1, ZenonT(30) DEF Onward, Fresh
  <1>3. Holds(store, k, stage[k], length[k], pack[k], body[k], out[k], sending, Kept(k, emptied))
    BY OfMessage, Zenon
  <1>4. body[k] = Null
    BY <1>1, <1>3, Zenon DEF Holds, Fresh
  <1>5. Kept(k, emptied') = Kept(k, emptied)
    BY <1>4, Zenon DEF Stays
  <1> QED
    BY <1>2, <1>5, Zenon DEF Recorded

\* What is recorded of the messages stays true.
LEMMA QueuingKeeps ==
    ASSUME Inv, appended' = appended, length' = length, \A k \in Messages : Onward(k),
           \A k \in Messages : Stays(k)
    PROVE  Queuing'
  <1> SUFFICES ASSUME NEW i \in DOMAIN appended
               PROVE  Recorded(appended[i], stage'[appended[i][1]], length[appended[i][1]],
                               Kept(appended[i][1], emptied'))
    BY Zenon DEF Queuing
  <1> DEFINE k == appended[i][1]
  <1>1. k \in Messages /\ Recorded(appended[i], stage[k], length[k], Kept(k, emptied))
    BY OfAppended, Zenon
  <1> HIDE DEF k
  <1>2. Recorded(appended[i], stage'[k], length[k], Kept(k, emptied'))
    BY <1>1, RecordedKeeps, ZenonT(30)
  <1> QED
    BY <1>2, Zenon DEF k

\* Opening the connection, and room in it, change no buffer.
LEMMA ConnectKeeps ==
    ASSUME Inv, Connect \/ RoomAppears
    PROVE  Inv'
  <1>1. /\ UNCHANGED <<store, stage, length, pack, body, out, sending, queue, wire, appended>>
        /\ space' \in Nat /\ emptied' = emptied
    <2>1. space \in Nat
      BY DEF Inv, Types
    <2>2. CASE Connect
      BY <2>1, <2>2, ZenonT(30) DEF Connect, message
    <2>3. CASE RoomAppears
      BY <2>1, <2>3, SendAssumption DEF RoomAppears, message
    <2> QED
      BY <2>2, <2>3
  <1>2. Cleared' = Cleared
    BY <1>1 DEF Cleared
  <1>3. \A k \in Messages : Onward(k) /\ Stays(k)
    BY <1>1 DEF Onward, Stays
  <1>4. Queuing'
    BY <1>1, <1>3, QueuingKeeps
  <1>5. /\ StoreOK(store') /\ Owners(Loose(store'), Cleared', sending', Hands)
        /\ Stream(store', queue', wire', appended')
    BY <1>1, <1>2 DEF Inv
  <1>6. /\ queue' \in Seq(Entries) /\ wire' \in Seq(Bytes)
        /\ appended' \in Seq(Appends)
        /\ stage' \in [Messages -> Stages] /\ out' \in [Messages -> Buffers \cup {Null}]
    BY <1>1 DEF Inv, Types
  <1> QED
    BY <1>1, <1>3, <1>4, <1>5, <1>6, SocketKeeps

\* The socket is closed with the buffers q in the stream.
LEMMA ClosedKeeps ==
    ASSUME Induction, NEW s, StoreOK(s), NEW q, Owners(Loose(s), q, Null, Hands), Closed(s, q)
    PROVE  /\ StoreOK(store') /\ Owners(Loose(store'), Cleared', Null, Hands)
           /\ Stream(store', queue', wire', appended') /\ Queuing'
           /\ queue' = <<>> /\ wire' = <<>> /\ appended' = <<>> /\ space' = 0
           /\ \A k \in Messages : Hands[k] # Null => store'.buffer[Hands[k]] = s.buffer[Hands[k]]
  <1>1. /\ store' = GiveBack(s, q) /\ queue' = <<>> /\ wire' = <<>> /\ appended' = <<>> /\ space' = 0
    BY DEF Closed
  <1> DEFINE n == Len(q)
  <1>2. /\ q \in Seq(Buffers) /\ DOMAIN q = 1 .. n /\ n \in Nat /\ n \in 0 .. n
        /\ \A i, j \in DOMAIN q : q[i] = q[j] => i = j
        /\ \A i \in DOMAIN q : q[i] \notin Loose(s)
        /\ \A k \in Messages : Hands[k] \in Buffers \cup {Null} /\ \A i \in DOMAIN q : Hands[k] # q[i]
    <2>1. q \in Seq(Buffers)
      BY Zenon DEF Owners
    <2>2. DOMAIN q = 1 .. n /\ n \in Nat /\ n \in 0 .. n
      BY <2>1
    <2>3. \A k \in Messages : Hands[k] \in Buffers \cup {Null}
      BY ZenonT(30) DEF Owners
    <2> QED
      BY <2>1, <2>2, <2>3, Zenon DEF Owners
  <1>3. /\ StoreOK(store') /\ Loose(store') = Loose(s) \cup {q[i] : i \in DOMAIN q}
        /\ \A y \in Buffers : (\A i \in DOMAIN q : q[i] # y) => store'.buffer[y] = s.buffer[y]
    BY <1>1, <1>2, GiveBackKeeps
  <1>4. Owners(Loose(store'), SubSeq(q, n + 1, n), Null, Hands)
    <2>1. Owners(Loose(s) \cup {q[i] : i \in 1 .. n}, SubSeq(q, n + 1, n), Null, Hands)
      BY <1>2, Dequeue, Zenon
    <2> QED
      BY <1>2, <1>3, <2>1, Zenon
  <1>5. Cleared' = <<>> /\ SubSeq(q, n + 1, n) = <<>>
    <2>1. n + 1 \in Int /\ n \in Int /\ n < n + 1
      BY <1>2
    <2>2. SubSeq(q, n + 1, n) = <<>>
      <3> HIDE DEF n
      <3> QED
        BY <2>1, NoSubSeq
    <2>3. Cleared' = <<>>
      BY <1>1 DEF Cleared
    <2> QED
      BY <2>2, <2>3, ZenonT(30)
  <1>6. Stream(store', queue', wire', appended')
    BY <1>1, StreamEmpty
  <1>7. Queuing'
    BY <1>1, Elements, Zenon DEF Queuing
  <1>8. \A k \in Messages : Hands[k] # Null => store'.buffer[Hands[k]] = s.buffer[Hands[k]]
    BY <1>2, <1>3, Zenon
  <1> QED
    BY <1>1, <1>3, <1>4, <1>5, <1>6, <1>7, <1>8, ZenonT(30)

\* closeSocket gives back what is queued.
LEMMA CloseSocketKeeps ==
    ASSUME Induction, Inv, CloseSocket
    PROVE  Inv'
  <1>1. /\ Idle /\ Closed(store, Cleared) /\ stage' = Unsent
        /\ UNCHANGED <<length, pack, body, out, sending, emptied>>
    BY DEF CloseSocket
  <1>2. sending = Null /\ \A m \in Messages : stage[m] \notin Busy
    BY <1>1, WhenIdle, Zenon
  <1>3. /\ StoreOK(store') /\ Owners(Loose(store'), Cleared', Null, Hands)
        /\ Stream(store', queue', wire', appended') /\ Queuing'
        /\ queue' = <<>> /\ wire' = <<>> /\ appended' = <<>> /\ space' = 0
        /\ \A k \in Messages : Hands[k] # Null => store'.buffer[Hands[k]] = store.buffer[Hands[k]]
    BY <1>1, <1>2, ClosedKeeps, ZenonT(30) DEF Inv
  <1>4. /\ stage' \in [Messages -> Stages] /\ out' \in [Messages -> Buffers \cup {Null}]
        /\ \A k \in Messages : Onward(k) /\ stage'[k] # "copying"
    BY <1>1, <1>2 DEF Inv, Types, Unsent, Stages, Onward, Busy, Fresh
  <1>6. \A k \in Messages : Stays(k)
    BY <1>1, Zenon DEF Stays
  <1>5. /\ queue' \in Seq(Entries) /\ wire' \in Seq(Bytes) /\ space' \in Nat
        /\ appended' \in Seq(Appends)
    BY <1>3
  <1> QED
    BY <1>1, <1>2, <1>3, <1>4, <1>5, <1>6, SocketKeeps, ZenonT(30)

\* send() takes some bytes, or there are none.
LEMMA OnWritableKeeps ==
    ASSUME Induction, Inv, OnWritable
    PROVE  Inv'
  <1>1. Idle /\ UNCHANGED <<stage, length, pack, body, out, sending, emptied, appended>>
    BY DEF OnWritable, message
  <1>2. sending = Null /\ \A m \in Messages : stage[m] \notin Busy
    BY <1>1, WhenIdle
  <1>3. /\ StoreOK(store) /\ Owners(Loose(store), Cleared, Null, Hands)
        /\ Stream(store, queue, wire, appended) /\ store \in Stores /\ Inside(store, queue)
        /\ queue \in Seq(Entries) /\ space \in Nat /\ wire \in Seq(Bytes)
        /\ appended \in Seq(Appends)
    BY <1>2, Zenon DEF Inv, Types, StoreOK, Stream
  <1>4. /\ \A k \in Messages : Onward(k) /\ stage'[k] # "copying"
        /\ stage' \in [Messages -> Stages] /\ out' \in [Messages -> Buffers \cup {Null}]
    BY <1>1, <1>2 DEF Onward, Inv, Types, Busy
  <1>8. \A k \in Messages : Stays(k)
    BY <1>1, Zenon DEF Stays
  <1>5. Queuing'
    BY <1>1, <1>4, <1>8, QueuingKeeps
  <1>6. CASE Get = 0
    <2>1. UNCHANGED <<store, queue, space, wire>>
      BY <1>6 DEF OnWritable
    <2>2. Cleared' = Cleared
      BY <2>1 DEF Cleared
    <2>3. /\ StoreOK(store') /\ Owners(Loose(store'), Cleared', sending', Hands)
          /\ Stream(store', queue', wire', appended')
      BY <1>1, <1>2, <1>3, <2>1, <2>2
    <2> QED
      BY <1>1, <1>2, <1>3, <1>4, <1>5, <1>8, <2>1, <2>3, SocketKeeps, ZenonT(30)
  <1>7. CASE Get # 0
    <2> DEFINE n == Min({Get, space})
               d == Discarded(n)
               p == QueueAfter(n, d)
               N == Len(queue)
               bs == [i \in 1 .. d |-> queue[i].buffer]
               sent == SubSeq(Queued, 1, n)
    <2>1. /\ wire' = wire \o sent /\ store' = GiveBack(store, bs)
          /\ queue' = p /\ space' = space - n
      BY <1>7, Zenon DEF OnWritable
    <2>2. N \in Nat /\ RemainingOf(N) \in Nat
      <3>1. PICK f \in [0 .. N -> Seq(Bytes)] : \A i \in 0 .. N : RemainingOf(i) = Len(f[i])
        BY <1>3, QueuedIs, Zenon
      <3>2. N \in 0 .. N /\ N \in Nat
        BY <1>3
      <3>3. f[N] \in Seq(Bytes)
        BY <3>1, <3>2
      <3> HIDE DEF N
      <3> QED
        BY <3>1, <3>2, <3>3
    <2>3. Get \in Nat /\ Get <= RemainingOf(N)
      <3> DEFINE T == {ReadSize, RemainingOf(N)}
      <3>1. T \subseteq Nat /\ T # {} /\ RemainingOf(N) \in T
        BY <2>2, SendAssumption
      <3>2. Get = Min(T)
        BY DEF Get
      <3> HIDE DEF T
      <3>3. Min(T) \in T /\ Min(T) <= RemainingOf(N)
        BY <3>1, LeastIs, Zenon
      <3> QED
        BY <3>1, <3>2, <3>3, ZenonT(30)
    <2>4. n \in Nat /\ n <= Get /\ n <= space
      <3> DEFINE T == {Get, space}
      <3>1. T \subseteq Nat /\ T # {} /\ Get \in T /\ space \in T
        BY <1>3, <2>3
      <3> HIDE DEF T
      <3>2. Min(T) \in T /\ Min(T) <= Get /\ Min(T) <= space
        BY <3>1, LeastIs, Zenon
      <3> QED
        BY <3>1, <3>2 DEF T
    <2> HIDE DEF n
    <2>5. n <= RemainingOf(N) /\ space - n \in Nat
      BY <1>3, <2>2, <2>3, <2>4
    <2>6. /\ d \in 0 .. N /\ p \in Seq(Entries) /\ Len(p) = N - d
          /\ \A i \in 1 .. N - d : p[i].buffer = queue[d + i].buffer
          /\ Inside(store, p) /\ sent \in Seq(Bytes)
          /\ sent \o Joined(Pieces(store, p)) = Queued
      BY <1>3, <2>4, <2>5, Cut
    <2> HIDE DEF d, p, sent
    <2>7. /\ Cleared \in Seq(Buffers) /\ Len(Cleared) = N /\ DOMAIN Cleared = 1 .. N
          /\ \A i \in 1 .. N : Cleared[i] = queue[i].buffer /\ Cleared[i] \in Buffers
      <3>1. DOMAIN queue = 1 .. N /\ \A i \in 1 .. N : queue[i].buffer \in Buffers
        <4>1. DOMAIN queue = 1 .. N /\ \A i \in 1 .. N : queue[i] \in Entries
          BY <1>3
        <4> HIDE DEF N
        <4> QED
          BY <4>1 DEF Entries
      <3>2. Cleared \in [1 .. N -> Buffers] /\ \A i \in 1 .. N : Cleared[i] = queue[i].buffer
        BY <3>1 DEF Cleared
      <3>3. Cleared \in Seq(Buffers) /\ Len(Cleared) = N
        BY <2>2, <3>2, FunctionIsSeq
      <3> QED
        BY <3>2, <3>3, Zenon
    <2>8. d \in Nat /\ \A i \in 1 .. d : i \in 1 .. N
      BY <2>2, <2>6
    <2>9. /\ bs \in Seq(Buffers) /\ DOMAIN bs = 1 .. d /\ \A i \in 1 .. d : bs[i] = Cleared[i]
      <3>1. bs \in [1 .. d -> Buffers] /\ \A i \in 1 .. d : bs[i] = Cleared[i]
        BY <2>7, <2>8
      <3> HIDE DEF bs
      <3>2. bs \in Seq(Buffers)
        BY <2>8, <3>1, FunctionIsSeq
      <3> QED
        BY <3>1, <3>2
    <2> HIDE DEF bs, N
    <2>10. /\ \A i, j \in DOMAIN bs : bs[i] = bs[j] => i = j
           /\ \A i \in DOMAIN bs : bs[i] \notin Loose(store)
      BY <1>3, <2>7, <2>8, <2>9, Zenon DEF Owners
    <2>11. /\ StoreOK(store') /\ Loose(store') = Loose(store) \cup {bs[i] : i \in DOMAIN bs}
           /\ \A y \in Buffers : (\A i \in DOMAIN bs : bs[i] # y) => store'.buffer[y] = store.buffer[y]
      <3>1. StoreOK(store) /\ bs \in Seq(Buffers) /\ store' = GiveBack(store, bs)
        BY <1>3, <2>1, <2>9
      <3>2. ReturnedAll(store, store', bs)
        BY <2>10, <3>1, GiveReturnsAll, Zenon
      <3> QED
        BY <3>2, ZenonT(30) DEF ReturnedAll
    <2>12. {bs[i] : i \in DOMAIN bs} = {Cleared[i] : i \in 1 .. d}
      BY <2>9
    <2>13. Cleared' = SubSeq(Cleared, d + 1, N)
      <3> DEFINE x == Cleared'
                 y == SubSeq(Cleared, d + 1, N)
      <3>1. /\ y \in Seq(Buffers) /\ Len(y) = N - d
            /\ \A i \in 1 .. N - d : y[i] = Cleared[d + 1 + i - 1]
        BY <2>6, <2>7, Tails, ZenonT(30)
      <3>2. \A i \in 1 .. N - d : d + 1 + i - 1 = d + i /\ d + i \in 1 .. N
        BY <2>2, <2>8
      <3>3. DOMAIN p = 1 .. N - d /\ N - d \in Nat
        BY <2>2, <2>6, <2>8
      <3>4. x = [i \in 1 .. N - d |-> p[i].buffer]
        BY <2>1, <3>3 DEF Cleared
      <3> HIDE DEF x, y
      <3>5. \A i \in 1 .. N - d : y[i] = queue[d + i].buffer /\ y[i] \in Buffers
        BY <2>7, <3>1, <3>2, Zenon
      <3>6. x \in [1 .. N - d -> Buffers] /\ \A i \in 1 .. N - d : x[i] = y[i]
        BY <2>6, <3>4, <3>5, Zenon
      <3>7. x \in Seq(Buffers) /\ Len(x) = N - d
        BY <3>3, <3>6, FunctionIsSeq
      <3>8. x = y
        BY <3>1, <3>6, <3>7, SameSeq
      <3> QED
        BY <3>8 DEF x, y
    <2>14. Owners(Loose(store'), Cleared', Null, Hands)
      <3>1. Owners(Loose(store) \cup {Cleared[i] : i \in 1 .. d}, SubSeq(Cleared, d + 1, N), Null, Hands)
        BY <1>3, <2>6, <2>7, Dequeue, ZenonT(30)
      <3> QED
        BY <2>11, <2>12, <2>13, <3>1, Zenon
    <2>15. \A y \in Buffers : y \notin Loose(store') => store'.buffer[y] = store.buffer[y]
      BY <2>11
    <2>16. \A k \in Messages : Hands[k] # Null => store'.buffer[Hands[k]] = store.buffer[Hands[k]]
      BY <2>14, <2>15 DEF Owners
    <2>17. Stream(store', queue', wire', appended')
      <3>1. \A i \in DOMAIN p : p[i].buffer \in Buffers /\ p[i].buffer \notin Loose(store')
        <4>1. \A i \in DOMAIN p : i \in DOMAIN Cleared' /\ Cleared'[i] = p[i].buffer
          BY <2>1 DEF Cleared
        <4>2. \A i \in DOMAIN p : p[i].buffer \in Buffers
          <5>1. \A i \in DOMAIN p : p[i] \in Entries
            BY <2>6
          <5> QED
            BY <5>1 DEF Entries
        <4> QED
          BY <2>14, <4>1, <4>2 DEF Owners
      <3>2. wire \o Queued = Joined(Chunks(appended))
        <4>1. Queued = Joined(Pieces(store, queue))
          BY DEF Queued, Remaining, Pieces, Piece
        <4> QED
          BY <1>3, <4>1, ZenonT(30) DEF Stream
      <3>3. Joined(Pieces(store, p)) \in Seq(Bytes)
        BY <1>3, <2>6, PiecesAre, JoinedType
      <3>4. \A x \in Seq(Bytes) : (wire \o sent) \o x = wire \o (sent \o x)
        <4>1. Regroups(Bytes)
          BY Associative, Zenon
        <4> QED
          BY <1>3, <2>6, <4>1, Zenon DEF Regroups
      <3>5. (wire \o sent) \o Joined(Pieces(store, p)) = Joined(Chunks(appended))
        BY <2>6, <3>2, <3>3, <3>4, Zenon
      <3>6. Stream(store, p, wire \o sent, appended)
        BY <2>6, <3>5, ZenonT(30) DEF Stream
      <3>7. Stream(store', p, wire \o sent, appended)
        BY <2>15, <3>1, <3>6, StreamFrame
      <3> QED
        BY <1>1, <2>1, <3>7, ZenonT(30)
    <2>18. wire' \in Seq(Bytes)
      <3>1. wire \o sent \in Seq(Bytes)
        BY <1>3, <2>6, ConcatIs, ZenonT(30)
      <3> QED
        BY <2>1, <3>1, Zenon
    <2>19. queue' \in Seq(Entries) /\ space' \in Nat /\ appended' \in Seq(Appends)
      BY <1>1, <1>3, <2>1, <2>5, <2>6
    <2>20. Owners(Loose(store'), Cleared', sending', Hands) /\ sending' = Null
      BY <1>1, <1>2, <2>14
    <2> QED
      BY <1>1, <1>4, <1>5, <1>8, <2>11, <2>16, <2>17, <2>18, <2>19, <2>20, SocketKeeps, ZenonT(30)
  <1> QED
    BY <1>6, <1>7

\* What sendData leaves when buffer b of storage s was sent for message m.
DataSent(m, s, b) ==
    /\ StoreOK(store') /\ Owners(Loose(store'), Cleared', Null, Hands)
    /\ Stream(store', queue', wire', appended')
    /\ queue' \in Seq(Entries) /\ space' \in Nat /\ wire' \in Seq(Bytes)
    /\ appended' \in Seq(Appends)
    /\ \A k \in Messages : Hands[k] # Null => store'.buffer[Hands[k]] = store.buffer[Hands[k]]
    /\ \A i \in DOMAIN appended' :
          \/ i \in DOMAIN appended /\ appended'[i] = appended[i]
          \/ appended'[i] = <<m, s.buffer[b].content, s.buffer[b].limit>>

\* sendData with buffer b of message m in storage s.
LEMMA SendDataKeeps ==
    ASSUME Induction, Inv, NEW m \in Messages, NEW s, StoreOK(s), NEW b \in Buffers,
           Owners(Loose(s), Cleared, b, Hands),
           \A y \in Buffers : y \notin Loose(s) /\ y # b => s.buffer[y] = store.buffer[y],
           SendData(m, s, b)
    PROVE  DataSent(m, s, b)
  <1>1. /\ queue \in Seq(Entries) /\ space \in Nat /\ wire \in Seq(Bytes) /\ s \in Stores
        /\ appended \in Seq(Appends) /\ Stream(store, queue, wire, appended)
    BY Zenon DEF Inv, Types, StoreOK
  <1>2. \A i \in DOMAIN queue : /\ i \in DOMAIN Cleared /\ Cleared[i] = queue[i].buffer
                                /\ Cleared[i] \in Buffers
    <2>1. \A i \in DOMAIN queue : queue[i] \in Entries
      BY <1>1, Elements, ZenonT(30)
    <2> QED
      BY <2>1, Zenon DEF Cleared, Entries
  <1>3. /\ b \notin Loose(s) /\ b # Null
        /\ \A i \in DOMAIN queue : queue[i].buffer \notin Loose(s) /\ queue[i].buffer # b
        /\ \A k \in Messages : Hands[k] # Null => /\ Hands[k] \in Buffers /\ Hands[k] # b
                                                  /\ Hands[k] \notin Loose(s)
    BY <1>2, BuffersNotNull DEF Owners
  <1>4. /\ \A i \in DOMAIN queue : s.buffer[queue[i].buffer] = store.buffer[queue[i].buffer]
        /\ \A k \in Messages : Hands[k] # Null => s.buffer[Hands[k]] = store.buffer[Hands[k]]
    BY <1>2, <1>3, Zenon
  <1>5. Stream(s, queue, wire, appended)
    <2>1. Same(store, s, queue)
      BY <1>4, Zenon DEF Same
    <2> QED
      BY <1>1, <2>1, StreamSame, Zenon
  <1>6. CASE store' = GiveBack(s, <<b>>) /\ UNCHANGED <<queue, space, wire, appended>>
    <2>1. /\ StoreOK(store') /\ Loose(store') = Loose(s) \cup {b}
          /\ \A y \in Buffers \ {b} : store'.buffer[y] = s.buffer[y]
      <3>1. Returned(s, store', b)
        BY <1>3, <1>6, GiveReturns, Zenon
      <3> QED
        BY <3>1, Zenon DEF Returned
    <2>2. Cleared' = Cleared
      BY <1>6, Zenon DEF Cleared
    <2>3. Owners(Loose(store'), Cleared', Null, Hands)
      <3>1. Owners(Loose(s) \cup {b}, Cleared, Null, Hands)
        BY Drop, ZenonT(30)
      <3> QED
        BY <2>1, <2>2, <3>1, Zenon
    <2>4. \A i \in DOMAIN queue : store'.buffer[queue[i].buffer] = s.buffer[queue[i].buffer]
      BY <1>2, <1>3, <2>1
    <2>5. Stream(store', queue, wire, appended)
      <3>1. Same(s, store', queue)
        BY <2>4, ZenonT(30) DEF Same
      <3> QED
        BY <1>5, <3>1, StreamSame, Zenon
    <2>6. \A k \in Messages : Hands[k] # Null => store'.buffer[Hands[k]] = store.buffer[Hands[k]]
      BY <1>3, <1>4, <2>1
    <2> QED
      BY <1>1, <1>6, <2>1, <2>3, <2>5, <2>6, Zenon DEF DataSent
  <1>7. CASE /\ store' = s /\ queue' = Append(queue, [buffer |-> b, sent |-> 0])
             /\ appended' = Append(appended, <<m, s.buffer[b].content, s.buffer[b].limit>>)
             /\ UNCHANGED <<space, wire>>
    <2>1. /\ queue' \in Seq(Entries) /\ appended' \in Seq(Appends)
          /\ Stream(s, queue', wire, appended')
      <3> DEFINE e == [buffer |-> b, sent |-> 0]
                 a == <<m, s.buffer[b].content, s.buffer[b].limit>>
      <3>1. e \in Entries
        BY DEF Entries
      <3>2. s.buffer[b].content \in Contents /\ s.buffer[b].limit \in Nat
        BY <1>1, ZenonT(30) DEF Stores, Records
      <3>3. a \in Appends
        BY <3>2 DEF Appends
      <3>4. Stream(s, Append(queue, e), wire, Append(appended, a))
        BY <1>1, <1>5, StreamAppend, Zenon
      <3> HIDE DEF e, a
      <3>5. queue' = Append(queue, e) /\ appended' = Append(appended, a)
        BY <1>7, Zenon DEF e, a
      <3> QED
        BY <1>1, <3>1, <3>3, <3>4, <3>5
    <2>2. Owners(Loose(s), Append(Cleared, b), Null, Hands)
      BY Enqueue
    <2>3. Cleared' = Append(Cleared, b)
      BY <1>1, <1>7, ClearedAppend, ZenonT(30)
    <2>4. \A i \in DOMAIN appended' :
             \/ i \in DOMAIN appended /\ appended'[i] = appended[i]
             \/ appended'[i] = <<m, s.buffer[b].content, s.buffer[b].limit>>
      <3> DEFINE a == <<m, s.buffer[b].content, s.buffer[b].limit>>
                 n == Len(appended)
      <3> HIDE DEF a
      <3>1. appended' = Append(appended, a) /\ appended \in Seq(Appends)
        BY <1>1, <1>7, ZenonT(30) DEF a
      <3>2. \A i \in DOMAIN appended' : (i \in DOMAIN appended /\ appended'[i] = appended[i]) \/ appended'[i] = a
        BY <3>1
      <3> QED
        BY <3>2 DEF a
    <2>5. Stream(store', queue', wire', appended')
      BY <1>7, <2>1, ZenonT(30)
    <2>6. Owners(Loose(store'), Cleared', Null, Hands)
      BY <1>7, <2>2, <2>3
    <2> QED
      BY <1>1, <1>4, <1>7, <2>1, <2>4, <2>5, <2>6, ZenonT(30) DEF DataSent
  <1>8. CASE Closed(s, Append(Cleared, b))
    <2>1. Owners(Loose(s), Append(Cleared, b), Null, Hands)
      BY Enqueue
    <2>2. /\ StoreOK(store') /\ Owners(Loose(store'), Cleared', Null, Hands)
          /\ Stream(store', queue', wire', appended')
          /\ queue' = <<>> /\ wire' = <<>> /\ appended' = <<>> /\ space' = 0
          /\ \A k \in Messages : Hands[k] # Null => store'.buffer[Hands[k]] = s.buffer[Hands[k]]
      BY <1>8, <2>1, ClosedKeeps, Zenon
    <2>3. \A k \in Messages : Hands[k] # Null => store'.buffer[Hands[k]] = store.buffer[Hands[k]]
      BY <1>4, <2>2, Zenon
    <2>4. /\ queue' \in Seq(Entries) /\ wire' \in Seq(Bytes) /\ space' \in Nat
          /\ appended' \in Seq(Appends) /\ DOMAIN appended' = {}
      BY <2>2, Elements, SomeLength, ZenonT(30)
    <2> QED
      BY <2>2, <2>3, <2>4, Zenon DEF DataSent
  <1> QED
    BY <1>6, <1>7, <1>8, Zenon DEF SendData

\* What is recorded stays true when one entry, of message m, may be new.
LEMMA QueuingGrows ==
    ASSUME Inv, length' = length, \A k \in Messages : Onward(k), \A k \in Messages : Stays(k),
           NEW m \in Messages, NEW a, a[1] = m,
           Recorded(a, stage'[m], length[m], Kept(m, emptied')),
           \A i \in DOMAIN appended' :
              (i \in DOMAIN appended /\ appended'[i] = appended[i]) \/ appended'[i] = a
    PROVE  Queuing'
  <1> SUFFICES ASSUME NEW i \in DOMAIN appended'
               PROVE  Recorded(appended'[i], stage'[appended'[i][1]], length[appended'[i][1]],
                               Kept(appended'[i][1], emptied'))
    BY Zenon DEF Queuing
  <1>1. CASE appended'[i] = a
    BY <1>1, Zenon
  <1>2. CASE i \in DOMAIN appended /\ appended'[i] = appended[i]
    <2> DEFINE k == appended[i][1]
    <2>1. k \in Messages /\ Recorded(appended[i], stage[k], length[k], Kept(k, emptied))
      BY <1>2, OfAppended, Zenon
    <2> HIDE DEF k
    <2>2. Recorded(appended[i], stage'[k], length[k], Kept(k, emptied'))
      BY <2>1, RecordedKeeps, Zenon
    <2> QED
      BY <1>2, <2>2, Zenon DEF k
  <1> QED
    BY <1>1, <1>2

\* The copy is queued, or dropped with the closed connection.
LEMMA SendCopyKeeps ==
    ASSUME Induction, Inv, NEW m \in Messages \ {Ping}, SendCopy(m)
    PROVE  Inv'
  <1> DEFINE v == Copied(out[m])
             s == Filled(store, sending, v)
             a == <<m, s.buffer[sending].content, s.buffer[sending].limit>>
             stages == IF conn' = conn THEN stage ELSE Unsent
  <1>1. /\ stage[m] = "copying" /\ SendData(m, s, sending)
        /\ stage' = [stages EXCEPT ![m] = IF m \notin Acked THEN "done"
                                          ELSE IF conn' = "up" THEN "sent" ELSE "early"]
        /\ sending' = Null /\ out' = [out EXCEPT ![m] = IF m \in Acked THEN @ ELSE Null]
        /\ UNCHANGED <<length, pack, body>> /\ emptied' = Emptied(out[m])
    BY DEF SendCopy, Filled
  <1>2. /\ Holds(store, m, stage[m], length[m], pack[m], body[m], out[m], sending, Kept(m, emptied))
        /\ length[m] \in Nat /\ out[m] \in Buffers \cup {Null} /\ sending \in Buffers \cup {Null}
    BY OfMessage, Zenon DEF Inv, Types
  <1>3. /\ out[m] \in Buffers /\ out[m] # Null /\ sending \in Buffers
        /\ store.buffer[sending].limit = PackLength(length[m])
        /\ m \in Acked => /\ store.buffer[out[m]].limit = PackLength(length[m])
                          /\ HeadLength + length[m] < Limit => store.buffer[out[m]].content = Kept(m, emptied)
    BY <1>1, <1>2, ZenonT(30) DEF Holds, Busy
  <1>4. StoreOK(store) /\ store \in Stores /\ Owners(Loose(store), Cleared, sending, Hands)
    BY DEF Inv, StoreOK
  <1>5. v \in Contents
    <2>1. store.buffer[sending].content \in Contents /\ store.buffer[out[m]].content \in Contents
      BY <1>3, <1>4, Zenon DEF Stores, Records
    <2> QED
      BY <2>1 DEF Copied, Contents
  <1>6. m \in Acked /\ HeadLength + length[m] < Limit => v = Kept(m, emptied)
    <2> DEFINE l == PackLength(length[m])
    <2>1. l \in Nat /\ (HeadLength + length[m] < Limit => l = HeadLength + length[m])
      BY <1>2, PackLengthIs
    <2> HIDE DEF l
    <2>2. HeadLength + length[m] < Limit => l # 0 /\ l <= l /\ ~(l < l)
      BY <1>2, <2>1, SomeLength, Zenon
    <2>3. m \in Acked => store.buffer[out[m]].limit = l /\ store.buffer[sending].limit = l
      BY <1>3, Zenon DEF l
    <2> QED
      BY <1>3, <2>2, <2>3, ZenonT(30) DEF Copied, Copies
  <1> HIDE DEF v
  <1>7. /\ StoreOK(s) /\ Loose(s) = Loose(store)
        /\ s.buffer[sending].limit = store.buffer[sending].limit /\ s.buffer[sending].content = v
        /\ \A y \in Buffers \ {sending} : s.buffer[y] = store.buffer[y]
    <2>1. Rewritten(store, s, sending, v)
      BY <1>3, <1>4, <1>5, WriteRewrites, Zenon
    <2> HIDE DEF s
    <2> QED
      BY <2>1, Zenon DEF Rewritten
  <1> HIDE DEF s
  <1>8. /\ StoreOK(store') /\ Owners(Loose(store'), Cleared', Null, Hands)
        /\ Stream(store', queue', wire', appended')
        /\ queue' \in Seq(Entries) /\ space' \in Nat /\ wire' \in Seq(Bytes)
        /\ appended' \in Seq(Appends)
        /\ \A k \in Messages : Hands[k] # Null => store'.buffer[Hands[k]] = store.buffer[Hands[k]]
        /\ \A i \in DOMAIN appended' : (i \in DOMAIN appended /\ appended'[i] = appended[i]) \/ appended'[i] = a
    <2>1. Owners(Loose(s), Cleared, sending, Hands)
      BY <1>4, <1>7, Zenon
    <2>2. \A y \in Buffers : y \notin Loose(s) /\ y # sending => s.buffer[y] = store.buffer[y]
      BY <1>7
    <2>3. DataSent(m, s, sending)
      BY <1>1, <1>3, <1>7, <2>1, <2>2, SendDataKeeps, Zenon
    <2> QED
      BY <2>3, Zenon DEF DataSent
  <1>9. /\ stages \in [Messages -> Stages]
        /\ \A k \in Messages : stages[k] = stage[k] \/ (stage[k] = "sent" /\ stages[k] = "early")
    BY Zenon DEF Unsent, Inv, Types, Stages, Fresh
  <1>10. \A k \in Messages : k # m => stage[k] \notin Busy
    BY <1>1, ZenonT(30) DEF Inv, Placed, Busy
  <1> HIDE DEF stages
  <1>11. /\ stage' \in [Messages -> Stages] /\ out' \in [Messages -> Buffers \cup {Null}]
         /\ \A k \in Messages \ {m} : stage'[k] = stages[k] /\ out'[k] = out[k]
         /\ stage'[m] = IF m \notin Acked THEN "done" ELSE IF conn' = "up" THEN "sent" ELSE "early"
         /\ out'[m] = IF m \in Acked THEN out[m] ELSE Null
    BY <1>1, <1>9 DEF Inv, Types, Stages, Fresh
  <1>12. ASSUME NEW k \in Messages
         PROVE  Onward(k) /\ stage'[k] # "copying"
    <2>1. CASE k = m
      BY <1>1, <1>11, <2>1 DEF Onward
    <2>2. CASE k # m
      BY <1>9, <1>10, <1>11, <2>2, Zenon DEF Onward, Busy
    <2> QED
      BY <2>1, <2>2, ZenonT(30)
  <1>14. ASSUME NEW k \in Messages
         PROVE  Stays(k)
    <2>1. body[k] = Null => (k \in Emptied(out[m]) <=> k \in emptied)
      BY <1>3, Zenon DEF Emptied
    <2> QED
      BY <1>1, <2>1, Zenon DEF Stays, Kept
  <1>13. Queuing'
    <2>1. body[m] = Null /\ stage'[m] \notin Fresh
      BY <1>1, <1>2, <1>11, Zenon DEF Holds, Fresh
    <2>2. Kept(m, emptied') = Kept(m, emptied)
      BY <1>14, <2>1, Zenon DEF Stays
    <2>3. Recorded(a, stage'[m], length[m], Kept(m, emptied')) /\ a[1] = m
      BY <1>3, <1>6, <1>7, <2>1, <2>2, Zenon DEF Recorded
    <2> HIDE DEF a
    <2> QED
      BY <1>1, <1>8, <1>12, <1>14, <2>3, QueuingGrows, Zenon
  <1> QED
    BY <1>1, <1>8, <1>11, <1>12, <1>13, <1>14, SocketKeeps, Zenon

\* A header without body is queued, or dropped with the closed connection.
LEMMA SendPingKeeps ==
    ASSUME Induction, Inv, SendPing
    PROVE  Inv'
  <1> DEFINE b == GetBuffer(store, HeadLength)
             got == AfterGet(store, HeadLength)
             v == <<"packet", Ping>>
             s == Filled(got, b, v)
             a == <<Ping, s.buffer[b].content, s.buffer[b].limit>>
             stages == IF conn' = conn THEN stage ELSE Unsent
  <1>1. /\ stage[Ping] = "new" /\ Idle /\ Available(store, HeadLength) /\ SendData(Ping, s, b)
        /\ stage' = [stages EXCEPT ![Ping] = "done"]
        /\ UNCHANGED <<length, pack, body, out, sending, emptied>>
    BY Zenon DEF SendPing, Filled
  <1>2. sending = Null /\ \A k \in Messages : stage[k] \notin Busy
    BY <1>1, WhenIdle
  <1>3. HeadLength \in Nat /\ Ping \in Messages /\ Ping \notin Acked
    BY SendAssumption
  <1>4. StoreOK(store) /\ Owners(Loose(store), Cleared, Null, Hands)
    BY <1>2 DEF Inv
  <1>5. /\ StoreOK(got) /\ b \in Buffers /\ b \in Loose(store) /\ Loose(got) = Loose(store) \ {b}
        /\ \A y \in Buffers \ {b} : got.buffer[y] = store.buffer[y]
    <2>1. Taken(store, got, b, HeadLength)
      BY <1>1, <1>3, <1>4, GetTakes, Zenon
    <2> QED
      BY <2>1, Zenon DEF Taken
  <1>6. v \in Contents
    BY <1>3, Zenon DEF Contents
  <1> HIDE DEF b, got, v
  <1>7. /\ StoreOK(s) /\ Loose(s) = Loose(store) \ {b}
        /\ \A y \in Buffers \ {b} : s.buffer[y] = store.buffer[y]
    BY <1>5, <1>6, ContentKeeps
  <1> HIDE DEF s
  <1>8. /\ StoreOK(store') /\ Owners(Loose(store'), Cleared', Null, Hands)
        /\ Stream(store', queue', wire', appended')
        /\ queue' \in Seq(Entries) /\ space' \in Nat /\ wire' \in Seq(Bytes)
        /\ appended' \in Seq(Appends)
        /\ \A k \in Messages : Hands[k] # Null => store'.buffer[Hands[k]] = store.buffer[Hands[k]]
        /\ \A i \in DOMAIN appended' : (i \in DOMAIN appended /\ appended'[i] = appended[i]) \/ appended'[i] = a
    <2>1. Owners(Loose(s), Cleared, b, Hands)
      BY <1>4, <1>5, <1>7, Take
    <2>2. \A y \in Buffers : y \notin Loose(s) /\ y # b => s.buffer[y] = store.buffer[y]
      BY <1>7, Zenon
    <2>3. Ping \in Messages /\ b \in Buffers /\ StoreOK(s) /\ SendData(Ping, s, b)
      BY <1>1, <1>3, <1>5, <1>7
    <2>4. DataSent(Ping, s, b)
      BY <2>1, <2>2, <2>3, SendDataKeeps, Zenon
    <2> QED
      BY <2>4, Zenon DEF DataSent
  <1>9. /\ stages \in [Messages -> Stages]
        /\ \A k \in Messages : stages[k] = stage[k] \/ (stage[k] = "sent" /\ stages[k] = "early")
    BY Zenon DEF Unsent, Inv, Types, Stages, Fresh
  <1> HIDE DEF stages
  <1>10. /\ stage' \in [Messages -> Stages] /\ out' \in [Messages -> Buffers \cup {Null}] /\ out' = out
         /\ \A k \in Messages \ {Ping} : stage'[k] = stages[k]
         /\ stage'[Ping] = "done"
    BY <1>1, <1>3, <1>9 DEF Inv, Types, Stages, Fresh
  <1>11. ASSUME NEW k \in Messages
         PROVE  Onward(k) /\ stage'[k] # "copying"
    <2>1. CASE k = Ping
      BY <1>1, <1>10, <2>1, Zenon DEF Onward
    <2>2. CASE k # Ping
      BY <1>2, <1>9, <1>10, <2>2 DEF Onward, Busy
    <2> QED
      BY <2>1, <2>2, Zenon
  <1>14. \A k \in Messages : Stays(k)
    BY <1>1, Zenon DEF Stays
  <1>12. Queuing'
    <2>1. Recorded(a, stage'[Ping], length[Ping], Kept(Ping, emptied')) /\ a[1] = Ping
      BY <1>3, <1>10, Zenon DEF Recorded, Fresh
    <2> HIDE DEF a
    <2> QED
      BY <1>1, <1>3, <1>8, <1>11, <1>14, <2>1, QueuingGrows, ZenonT(30)
  <1>13. sending' = Null /\ Owners(Loose(store'), Cleared', sending', Hands)
    BY <1>1, <1>2, <1>8, Zenon
  <1> QED
    BY <1>1, <1>8, <1>10, <1>11, <1>12, <1>13, <1>14, SocketKeeps, Zenon

-----------------------------------------------------------------------------
(* The first state and every step *)

\* The capacity of a buffer at the beginning is that of the free list it is in.
LEMMA FirstCapacity ==
    ASSUME NEW b, NEW k, k = Max({0} \cup {c \in Capacities : b \in Range(FirstPool[c])})
    PROVE  /\ k \in Nat
           /\ k # 0 => k \in Capacities /\ b \in Range(FirstPool[k])
           /\ \A c \in Capacities : b \in Range(FirstPool[c]) => k = c
  <1> DEFINE T == {c \in Capacities : b \in Range(FirstPool[c])}
             W == {0} \cup T
  <1>1. Capacities \subseteq Nat \ {0}
    BY SendAssumption
  <1>2. \A c, d \in T : c = d
    BY SendAssumption DEF Range
  <1>3. PICK l \in W : \A c \in W : l >= c /\ l \in Nat
    <2>1. CASE T = {}
      BY <2>1
    <2>2. CASE T # {}
      <3>1. PICK c \in T : TRUE
        BY <2>2
      <3>2. \A d \in W : d = 0 \/ d = c
        BY <1>2
      <3>3. c \in W /\ c \in Nat
        BY <1>1
      <3> HIDE DEF W, T
      <3> QED
        BY <3>2, <3>3
    <2> QED
      BY <2>1, <2>2
  <1>4. k \in W /\ \A c \in W : k >= c
    <2>1. k = CHOOSE x \in W : \A c \in W : x >= c
      BY DEF Max
    <2> HIDE DEF W
    <2> QED
      BY <1>3, <2>1
  <1>5. \A c \in T : k = c
    <2> SUFFICES ASSUME NEW c \in T
                 PROVE  k = c
      OBVIOUS
    <2>1. c \in Nat /\ c # 0 /\ k >= c
      BY <1>1, <1>4
    <2>2. k # 0
      BY <2>1
    <2> QED
      BY <1>2, <1>4, <2>2
  <1> QED
    BY <1>1, <1>4, <1>5

\* It holds when the manager starts: every buffer is free.
LEMMA InitInv ==
    ASSUME Induction, Init
    PROVE  Inv
  <1> DEFINE cap(b) == Max({0} \cup {c \in Capacities : b \in Range(FirstPool[c])})
  <1>1. store = [free |-> FirstPool, buffer |-> [b \in Buffers |-> NewBuffer(cap(b))]]
    BY DEF Init
  <1>2. \A b : /\ cap(b) \in Nat
               /\ cap(b) # 0 => cap(b) \in Capacities /\ b \in Range(FirstPool[cap(b)])
               /\ \A c \in Capacities : b \in Range(FirstPool[c]) => cap(b) = c
    BY FirstCapacity, ZenonT(30)
  <1> HIDE DEF cap
  <1>3. FirstPool \in [Capacities -> Seq(Buffers)]
    BY SendAssumption
  <1>4. \A b \in Buffers : NewBuffer(cap(b)) \in Records /\ NewBuffer(cap(b)).capacity = cap(b)
    BY <1>2 DEF NewBuffer, Records, Contents
  <1>5. store \in Stores
    <2>1. [b \in Buffers |-> NewBuffer(cap(b))] \in [Buffers -> Records]
      BY <1>4
    <2> QED
      BY <1>1, <1>3, <2>1, StoreType
  <1>6. store.free = FirstPool /\ \A b \in Buffers : store.buffer[b].capacity = cap(b)
    BY <1>1, <1>4, ZenonT(30)
  <1>7. StoreOK(store)
    <2>1. \A c, d \in Capacities : \A i \in DOMAIN store.free[c], j \in DOMAIN store.free[d] :
             store.free[c][i] = store.free[d][j] => <<c, i>> = <<d, j>>
      BY <1>6, SendAssumption
    <2>2. ASSUME NEW c \in Capacities, NEW i \in DOMAIN store.free[c]
          PROVE  store.buffer[store.free[c][i]].capacity = c
      <3> DEFINE b == store.free[c][i]
      <3>1. b \in Buffers /\ b \in Range(FirstPool[c])
        BY <1>3, <1>6 DEF Range
      <3> HIDE DEF b
      <3>2. store.buffer[b].capacity = c
        BY <1>2, <1>6, <3>1
      <3> QED
        BY <3>2 DEF b
    <2>3. ASSUME NEW b \in Buffers, store.buffer[b].capacity # 0
          PROVE  ListFor(store.buffer[b].capacity) = store.buffer[b].capacity
      <3>1. store.buffer[b].capacity \in Capacities
        BY <1>2, <1>6, <2>3
      <3> QED
        BY <3>1, ListForItself
    <2> QED
      BY <1>5, <2>1, <2>2, <2>3 DEF StoreOK
  <1>8. Loose(store) = Buffers
    <2>1. ASSUME NEW b \in Buffers
          PROVE  b \in Loose(store)
      <3>1. CASE cap(b) = 0
        BY <1>6, <3>1 DEF Loose, Unallocated
      <3>2. CASE cap(b) # 0
        BY <1>2, <1>6, <3>2 DEF Loose, FreeOf
      <3> QED
        BY <3>1, <3>2
    <2> QED
      BY <1>7, <2>1, LooseBuffers
  <1>9. Cleared = <<>> /\ sending = Null /\ \A m \in Messages : Hands[m] = Null
    BY DEF Init, Cleared, Hands, MineOf
  <1>10. Hands \in [Messages -> Buffers \cup {Null}]
    <2>1. Hands = [m \in Messages |-> Hands[m]]
      BY DEF Hands
    <2> QED
      BY <1>9, <2>1
  <1>11. Owners(Loose(store), Cleared, sending, Hands)
    <2>1. Cleared \in Seq(Buffers) /\ DOMAIN Cleared = {}
      BY <1>9
    <2> QED
      BY <1>8, <1>9, <1>10, <2>1, BuffersNotNull DEF Owners
  <1>12. Types
    <2>1. queue = <<>> /\ wire = <<>> /\ appended = <<>> /\ space = 0
      BY DEF Init
    <2>2. queue \in Seq(Entries) /\ wire \in Seq(Bytes) /\ appended \in Seq(Appends) /\ space \in Nat
      BY <2>1
    <2>3. /\ stage \in [Messages -> Stages]
          /\ length \in [Messages -> Nat] /\ pack \in [Messages -> Nat]
          /\ body \in [Messages -> Buffers \cup {Null}] /\ out \in [Messages -> Buffers \cup {Null}]
          /\ sending \in Buffers \cup {Null}
      BY DEF Init, Stages, Fresh
    <2> QED
      BY <2>2, <2>3, ZenonT(30) DEF Types
  <1>13. Placed
    BY SendAssumption, ZenonT(30) DEF Init, Placed, Holds, Busy
  <1>14. Queuing
    BY DEF Init, Queuing
  <1>15. Stream(store, queue, wire, appended)
    BY StreamEmpty DEF Init
  <1> QED
    BY <1>7, <1>11, <1>12, <1>13, <1>14, <1>15 DEF Inv

\* A step that changes nothing.
LEMMA StutterKeeps ==
    ASSUME Inv, UNCHANGED vars
    PROVE  Inv'
  <1>1. /\ UNCHANGED <<store, stage, length, pack, body, out, sending, queue, wire, appended>>
        /\ space' = space /\ emptied' = emptied
    BY DEF vars
  <1>2. Cleared' = Cleared /\ Hands' = Hands
    BY <1>1, Zenon DEF Cleared, Hands
  <1>3. Types' /\ Placed' /\ Queuing'
    BY <1>1, Zenon DEF Inv, Types, Placed, Queuing
  <1> QED
    BY <1>1, <1>2, <1>3 DEF Inv

\* Every step keeps the invariant.
LEMMA NextInv ==
    ASSUME Induction, Inv, [Next]_vars
    PROVE  Inv'
  <1>1. CASE Connect \/ RoomAppears
    BY <1>1, ConnectKeeps
  <1>2. CASE OnWritable
    BY <1>2, OnWritableKeeps
  <1>3. CASE CloseSocket
    BY <1>3, CloseSocketKeeps
  <1>4. CASE SendPing
    BY <1>4, SendPingKeeps
  <1>5. ASSUME NEW m \in Messages \ {Ping},
               \/ Wrap(m) \/ SenRequest(m) \/ Refuse(m) \/ Serialize(m)
               \/ EraseRequest(m) \/ Resend(m) \/ GetSendBuffer(m) \/ SendCopy(m) \/ Complete(m)
        PROVE  Inv'
    BY <1>5, WrapKeeps, SenRequestKeeps, RefuseKeeps, SerializeKeeps, EraseRequestKeeps,
       ResendKeeps, GetSendBufferKeeps, SendCopyKeeps, CompleteKeeps
  <1>6. CASE UNCHANGED vars
    BY <1>6, StutterKeeps
  <1> QED
    BY <1>1, <1>2, <1>3, <1>4, <1>5, <1>6 DEF Next

\* What message m holds, by its hands.
LEMMA HeldIs ==
    ASSUME Inv, NEW m \in Messages
    PROVE  /\ \A y \in Held(m) : y # Null => y = Hands[m]
           /\ Hands[m] # Null => Hands[m] \in Held(m)
  <1>1. /\ Holds(store, m, stage[m], length[m], pack[m], body[m], out[m], sending, Kept(m, emptied))
        /\ Hands[m] = MineOf(m, stage[m], body[m], out[m])
    BY OfMessage, Zenon
  <1>2. body[m] = Null \/ out[m] = Null
    BY <1>1, Zenon DEF Holds, Busy
  <1> QED
    BY <1>1, <1>2, Zenon DEF Held, MineOf

\* The invariant gives OneOwner.
LEMMA InvOneOwner ==
    ASSUME Inv
    PROVE  OneOwner
  <1>1. Owners(Loose(store), Cleared, sending, Hands) /\ StoreOK(store)
    BY Zenon DEF Inv
  <1>2. Free \subseteq Loose(store)
    BY DEF Free, Loose, FreeOf
  <1>3. /\ \A y : y \in Range(Cleared) <=> \E i \in DOMAIN Cleared : y = Cleared[i]
        /\ DOMAIN Cleared = DOMAIN queue /\ \A i \in DOMAIN queue : Cleared[i] = queue[i].buffer
    BY Zenon DEF Range, Cleared
  <1>4. \A i, j \in DOMAIN queue : queue[i].buffer = queue[j].buffer => i = j
    <2>1. \A i, j \in DOMAIN Cleared : Cleared[i] = Cleared[j] => i = j
      BY <1>1, Zenon DEF Owners
    <2> QED
      BY <1>3, <2>1, Zenon
  <1>5. Free \cap ({sending} \cup Range(Cleared)) = {} /\ sending \notin Range(Cleared)
    <2>1. /\ \A i \in DOMAIN Cleared : Cleared[i] \notin Loose(store) /\ Cleared[i] # sending
          /\ sending \notin Loose(store)
      BY <1>1, Zenon DEF Owners
    <2>2. sending \notin Range(Cleared)
      BY <1>3, <2>1, Zenon
    <2>3. ASSUME NEW y \in Free
          PROVE  y # sending /\ y \notin Range(Cleared)
      <3>1. y \in Loose(store)
        BY <1>2, Zenon
      <3>2. y # sending
        BY <2>1, <3>1, Zenon
      <3>3. ASSUME y \in Range(Cleared)
            PROVE  FALSE
        <4>1. PICK i \in DOMAIN Cleared : y = Cleared[i]
          BY <1>3, <3>3, Zenon
        <4> QED
          BY <2>1, <3>1, <4>1, Zenon
      <3> QED
        BY <3>2, <3>3, Zenon
    <2> QED
      BY <2>2, <2>3, Zenon
  <1>6. ASSUME NEW m \in Messages
        PROVE  Held(m) \cap (Free \cup Range(Cleared) \cup {sending}) \subseteq {Null}
    <2>1. \A y \in Held(m) : y # Null => y = Hands[m]
      BY HeldIs
    <2>2. Hands[m] # Null => Hands[m] \notin Free \cup Range(Cleared) \cup {sending}
      BY <1>1, <1>2, <1>3, ZenonT(30) DEF Owners
    <2> QED
      BY <2>1, <2>2
  <1>7. ASSUME NEW m \in Messages, NEW n \in Messages, m # n
        PROVE  Held(m) \cap Held(n) \subseteq {Null}
    <2>1. /\ \A y \in Held(m) : y # Null => y = Hands[m]
          /\ \A y \in Held(n) : y # Null => y = Hands[n]
      BY HeldIs, Zenon
    <2>2. Hands[m] = Hands[n] => Hands[m] = Null
      BY <1>1, <1>7, Zenon DEF Owners
    <2> QED
      BY <2>1, <2>2
  <1> QED
    BY <1>1, <1>4, <1>5, <1>6, <1>7, ZenonT(30) DEF OneOwner, StoreOK

\* The invariant gives NoLeak.
LEMMA InvNoLeak ==
    ASSUME Inv
    PROVE  NoLeak
  <1> DEFINE held == UNION {Held(m) : m \in Messages}
             all == Free \cup Range(Cleared) \cup {sending} \cup held
  <1>1. Owners(Loose(store), Cleared, sending, Hands) /\ StoreOK(store)
    BY DEF Inv
  <1>2. Loose(store) = Free \cup Unallocated(store) /\ Loose(store) \subseteq Buffers
    BY <1>1, LooseBuffers, ZenonT(30) DEF Free, Loose, FreeOf
  <1>3. \A y : y \in Range(Cleared) <=> \E i \in DOMAIN Cleared : y = Cleared[i]
    BY DEF Range
  <1>4. \A y : y \in held <=> \E m \in Messages : y \in Held(m)
    BY Zenon
  <1> HIDE DEF held
  <1>5. ASSUME NEW b \in Buffers \ Unallocated(store)
        PROVE  b \in all \ {Null}
    <2>1. b # Null
      BY BuffersNotNull, ZenonT(30)
    <2>2. b \in Loose(store) \/ b = sending \/ (\E i \in DOMAIN Cleared : b = Cleared[i]) \/ \E m \in Messages : b = Hands[m]
      BY <1>1 DEF Owners
    <2>3. (\E m \in Messages : b = Hands[m]) => b \in held
      BY <1>4, <2>1, HeldIs
    <2> QED
      BY <1>2, <1>3, <2>1, <2>2, <2>3
  <1>6. ASSUME NEW b \in all, b # Null
        PROVE  b \in Buffers \ Unallocated(store)
    <2>1. CASE b \in Free
      <3>1. b \in Buffers
        BY <1>2, <2>1
      <3>2. PICK c \in Capacities : \E i \in DOMAIN store.free[c] : b = store.free[c][i]
        BY <2>1 DEF Free, Range
      <3>3. store.buffer[b].capacity = c /\ c # 0
        <4>1. \A d \in Capacities : \A i \in DOMAIN store.free[d] :
                 store.buffer[store.free[d][i]].capacity = d
          BY <1>1, Zenon DEF StoreOK
        <4> QED
          BY <3>2, <4>1, SomeLength, Zenon
      <3> QED
        BY <3>1, <3>3 DEF Unallocated
    <2>2. CASE b \in Range(Cleared)
      <3>1. /\ \A i \in DOMAIN Cleared : Cleared[i] \notin Loose(store)
            /\ Cleared \in Seq(Buffers)
        BY <1>1, Zenon DEF Owners
      <3>2. \A i \in DOMAIN Cleared : Cleared[i] \in Buffers
        BY <3>1, Elements, Zenon
      <3>3. PICK i \in DOMAIN Cleared : b = Cleared[i]
        BY <1>3, <2>2, Zenon
      <3>4. b \in Buffers /\ b \notin Loose(store)
        BY <3>1, <3>2, <3>3, Zenon
      <3> QED
        BY <1>2, <3>4, Zenon
    <2>3. CASE b = sending
      BY <1>1, <1>2, <1>6, <2>3, ZenonT(30) DEF Owners
    <2>4. CASE b \in held
      <3>1. PICK m \in Messages : b = Hands[m]
        BY <1>4, <1>6, <2>4, HeldIs
      <3> QED
        BY <1>1, <1>2, <1>6, <3>1 DEF Owners
    <2> QED
      BY <1>6, <2>1, <2>2, <2>3, <2>4
  <1>7. Buffers \ Unallocated(store) = all \ {Null}
    <2> HIDE DEF all
    <2> QED
      BY <1>5, <1>6, Zenon
  <1> QED
    BY <1>7, Zenon DEF NoLeak, held

\* The invariant gives RoomAsked.
LEMMA InvRoomAsked ==
    ASSUME Inv
    PROVE  RoomAsked
  <1> SUFFICES ASSUME NEW m \in Messages
               PROVE  /\ body[m] # Null => store.buffer[body[m]].limit = length[m]
                      /\ Held(m) \ {body[m], Null} # {}
                         => store.buffer[out[m]].limit = PackLength(length[m])
    BY Zenon DEF RoomAsked
  <1>1. Holds(store, m, stage[m], length[m], pack[m], body[m], out[m], sending, Kept(m, emptied))
    BY OfMessage, Zenon
  <1>2. Held(m) \ {body[m], Null} # {} => out[m] # Null /\ (m \in Acked \/ stage[m] = "serialized")
    BY Zenon DEF Held
  <1> QED
    BY <1>1, <1>2, Zenon DEF Holds

\* The invariant gives AckedIsIntact.
LEMMA InvAckedIsIntact ==
    ASSUME Inv
    PROVE  AckedIsIntact
  <1> SUFFICES ASSUME NEW i \in DOMAIN appended, appended[i][1] \in Acked,
                      HeadLength + length[appended[i][1]] < Limit
               PROVE  appended[i] = <<appended[i][1], Kept(appended[i][1], emptied),
                                      HeadLength + length[appended[i][1]]>>
    BY Zenon DEF AckedIsIntact, Kept
  <1> DEFINE a == appended[i]
             m == a[1]
  <1>1. a \in Appends /\ m \in Messages /\ length[m] \in Nat
    BY OfAppended, Zenon DEF Inv, Types
  <1>2. a[3] = PackLength(length[m]) /\ a[2] = Kept(m, emptied)
    BY OfAppended, ZenonT(30) DEF Recorded
  <1>3. PackLength(length[m]) = HeadLength + length[m]
    BY <1>1, PackLengthIs
  <1>4. a = <<a[1], a[2], a[3]>>
    <2> HIDE DEF a
    <2> QED
      BY <1>1 DEF Appends
  <1> QED
    BY <1>2, <1>3, <1>4, ZenonT(30)

\* The invariant gives OverlongStaysInStep.
LEMMA InvOverlongStaysInStep ==
    ASSUME Inv
    PROVE  OverlongStaysInStep
  BY Zenon DEF Inv, Queuing, Recorded, OverlongStaysInStep

\* The invariant gives StreamIsKept.
LEMMA InvStreamIsKept ==
    ASSUME Inv
    PROVE  StreamIsKept
  <1>1. wire \o Joined(Pieces(store, queue)) = Joined(Chunks(appended))
    BY Zenon DEF Inv, Stream
  <1>2. Queued = Joined(Pieces(store, queue))
    BY Zenon DEF Queued, Remaining, Pieces, Piece
  <1>3. Chunks(appended) = [i \in DOMAIN appended |->
                               [k \in 1 .. appended[i][3] |-> <<appended[i][2], k>>]]
    BY DEF Chunks, Chunk
  <1> QED
    BY <1>1, <1>2, <1>3, Zenon DEF StreamIsKept

-----------------------------------------------------------------------------
(* Induction, from the library *)

\* Cardinality, written out: FiniteSetTheorems speaks of an instance of its own.
Size(S) == LET size[T \in SUBSET S] == IF T = {} THEN 0 ELSE 1 + size[T \ {CHOOSE x : x \in T}]
           IN  size[S]

\* Cardinality as SendPath has it.
LEMMA SizeIs ==
    ASSUME NEW S
    PROVE  Cardinality(S) = Size(S)
  BY Zenon DEF Cardinality, Size

LOCAL INSTANCE InductionLemmas
LOCAL INSTANCE FiniteSetTheorems

\* What the lemmas assume.
LEMMA InductionHolds == Induction
  <1>1. HasLeast
    BY LeastNat, ZenonT(30) DEF HasLeast
  <1>2. Inducts
    BY Induct DEF Inducts
  <1>3. HasRecursive
    <2>1. \A g, n, first, step : Recursive(g, n, first, step) <=> Recurs(g, n, first, step)
      BY Zenon DEF Recursive, Recurs
    <2> QED
      BY <2>1, Recursion, ZenonT(30) DEF HasRecursive
  <1>4. Counts
    <2>1. ASSUME NEW n \in Nat
          PROVE  Size(1 .. n) = n
      <3>1. 1 \in Int /\ n \in Int
        OBVIOUS
      <3>2. Cardinality(1 .. n) = IF 1 > n THEN 0 ELSE n - 1 + 1
        BY <3>1, FS_Interval
      <3>3. Cardinality(1 .. n) = Size(1 .. n)
        BY DEF Cardinality, Size
      <3> QED
        BY <3>2, <3>3
    <2> QED
      BY <2>1, SizeIs, ZenonT(30) DEF Counts
  <1> QED
    BY <1>1, <1>2, <1>3, <1>4 DEF Induction

-----------------------------------------------------------------------------
(* The theorems *)

\* The inductive invariant: each buffer has one place, each message the buffers its
\* stage says, with the lengths and contents it needs, and the stream is whole.
THEOREM SendSafety == Spec => []Inv
  <1>1. Init => Inv
    BY InitInv, InductionHolds
  <1>2. Inv /\ [Next]_vars => Inv'
    BY NextInv, InductionHolds
  <1> QED
    BY <1>1, <1>2, PTL DEF Spec

\* BufferStorage, the stream, sendBuffer and the messages never share a buffer,
\* whichever thread takes and gives back in between.
THEOREM OneOwnerHolds == Spec => []OneOwner
  <1>1. Inv => OneOwner
    BY InvOneOwner
  <1> QED
    BY <1>1, SendSafety, PTL

\* No buffer is lost on any way out: refused, completed, sent, dropped by a closed
\* connection or cleared with the socket.
THEOREM NoLeakHolds == Spec => []NoLeak
  <1>1. Inv => NoLeak
    BY InvNoLeak
  <1> QED
    BY <1>1, SendSafety, PTL

\* A buffer from the free list is never too small for the message that asked for it.
THEOREM RoomAskedHolds == Spec => []RoomAsked
  <1>1. Inv => RoomAsked
    BY InvRoomAsked
  <1> QED
    BY <1>1, SendSafety, PTL

\* What is queued for a request that waits for a reply is its own packet, also when it
\* is sent again, up to the length that packLength holds: without its body only if the
\* copy of an erased request had read that body to its end.
THEOREM AckedIsIntactHolds == Spec => []AckedIsIntact
  <1>1. Inv => AckedIsIntact
    BY InvAckedIsIntact
  <1> QED
    BY <1>1, SendSafety, PTL

\* As many bytes are queued for such a request as its packLength says, however long it
\* is.
THEOREM OverlongStaysInStepHolds == Spec => []OverlongStaysInStep
  <1>1. Inv => OverlongStaysInStep
    BY InvOverlongStaysInStep
  <1> QED
    BY <1>1, SendSafety, PTL

\* What the socket took and what is still queued is what was queued: nothing is lost,
\* repeated, reordered or overwritten, wherever send() cuts the data.
THEOREM StreamIsKeptHolds == Spec => []StreamIsKept
  <1>1. Inv => StreamIsKept
    BY InvStreamIsKept
  <1> QED
    BY <1>1, SendSafety, PTL
===============================================================================
