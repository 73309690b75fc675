------------------------- MODULE RequestQueueProofs --------------------------
(***************************************************************************)
(* Proofs about RequestQueue, for any requests, accounts, calls, retries   *)
(* and bounds.                                                             *)
(***************************************************************************)
EXTENDS RequestQueue, TLAPS

-----------------------------------------------------------------------------
(* Lists *)

\* No element twice.
Distinct(s) == \A i, j \in DOMAIN s : s[i] = s[j] => i = j

\* The empty list.
LEMMA EmptyList ==
    Elements(<<>>) = {} /\ Distinct(<<>>)
  BY DEF Elements, Distinct

\* What is in a list is what it was made of.
LEMMA ListOf ==
    ASSUME NEW S, NEW s \in Seq(S)
    PROVE  Elements(s) \subseteq S
  BY DEF Elements

\* An element more.
LEMMA AppendList ==
    ASSUME NEW S, NEW s \in Seq(S), NEW x \in S
    PROVE  /\ Append(s, x) \in Seq(S) /\ Elements(Append(s, x)) = Elements(s) \cup {x}
           /\ Distinct(s) /\ x \notin Elements(s) => Distinct(Append(s, x))
  <1> DEFINE a == Append(s, x)
  <1>1. a \in Seq(S) /\ Len(a) = Len(s) + 1 /\ Len(s) \in Nat
    OBVIOUS
  <1>2. (\A i \in 1 .. Len(s) : a[i] = s[i]) /\ a[Len(s) + 1] = x
    OBVIOUS
  <1>3. DOMAIN a = 1 .. Len(s) + 1 /\ DOMAIN s = 1 .. Len(s)
    BY <1>1
  <1> HIDE DEF a
  <1>4. Elements(a) = Elements(s) \cup {x}
    BY <1>1, <1>2, <1>3 DEF Elements
  <1>5. Distinct(s) /\ x \notin Elements(s) => Distinct(a)
    BY <1>1, <1>2, <1>3 DEF Elements, Distinct
  <1> QED
    BY <1>1, <1>4, <1>5 DEF a

\* One list after another.
LEMMA ConcatList ==
    ASSUME NEW S, NEW s \in Seq(S), NEW t \in Seq(S)
    PROVE  /\ s \o t \in Seq(S) /\ Elements(s \o t) = Elements(s) \cup Elements(t)
           /\ Distinct(s) /\ Distinct(t) /\ Elements(s) \cap Elements(t) = {}
              => Distinct(s \o t)
           /\ s \o t = <<>> <=> s = <<>> /\ t = <<>>
  <1> DEFINE a == s \o t
  <1>1. a \in Seq(S) /\ Len(a) = Len(s) + Len(t) /\ Len(s) \in Nat /\ Len(t) \in Nat
    OBVIOUS
  <1>2. /\ \A i \in 1 .. Len(s) : a[i] = s[i]
        /\ \A i \in 1 .. Len(t) : a[Len(s) + i] = t[i]
    OBVIOUS
  <1>3. /\ DOMAIN a = 1 .. Len(s) + Len(t)
        /\ DOMAIN s = 1 .. Len(s) /\ DOMAIN t = 1 .. Len(t)
    BY <1>1
  <1>4. a = <<>> <=> s = <<>> /\ t = <<>>
    BY <1>1
  <1> HIDE DEF a
  <1>5. \A i \in DOMAIN a : \/ i \in DOMAIN s /\ a[i] = s[i]
                            \/ i - Len(s) \in DOMAIN t /\ a[i] = t[i - Len(s)]
    BY <1>1, <1>2, <1>3
  <1>6. Elements(a) = Elements(s) \cup Elements(t)
    <2>1. Elements(a) \subseteq Elements(s) \cup Elements(t)
      BY <1>5 DEF Elements
    <2>2. ASSUME NEW i \in DOMAIN s
          PROVE  s[i] \in Elements(a)
      BY <1>1, <1>2, <1>3 DEF Elements
    <2>3. ASSUME NEW i \in DOMAIN t
          PROVE  t[i] \in Elements(a)
      <3>1. Len(s) + i \in DOMAIN a /\ a[Len(s) + i] = t[i]
        BY <1>1, <1>2, <1>3
      <3> QED
        BY <3>1 DEF Elements
    <2> QED
      BY <2>1, <2>2, <2>3 DEF Elements
  <1>7. ASSUME Distinct(s), Distinct(t), Elements(s) \cap Elements(t) = {}
        PROVE  Distinct(a)
    <2> SUFFICES ASSUME NEW i \in DOMAIN a, NEW j \in DOMAIN a, a[i] = a[j]
                 PROVE  i = j
      BY DEF Distinct
    <2>0. ASSUME NEW k \in DOMAIN a
          PROVE  a[k] \in Elements(IF k \in DOMAIN s THEN s ELSE t)
      <3>1. CASE k \in DOMAIN s
        BY <1>2, <1>3, <3>1 DEF Elements
      <3>2. CASE k \notin DOMAIN s
        BY <1>5, <3>2 DEF Elements
      <3> QED
        BY <3>1, <3>2
    <2>1. i \in DOMAIN s <=> j \in DOMAIN s
      BY <1>7, <2>0
    <2> QED
      BY <1>1, <1>3, <1>5, <1>7, <2>1 DEF Distinct
  <1> QED
    BY <1>1, <1>4, <1>6, <1>7 DEF a

-----------------------------------------------------------------------------
(* The inductive invariant *)

Fields == [flag : Flags, seq : Nat, token : Nat, retries : Nat]

\* What Only returns, for every list of requests: it holds by induction on the list
\* (OnlySelects, below). It is a part of Types so that the lemmas about the steps rest
\* on it and not on the induction.
Selects ==
    \A s \in Seq(Requests) : \A T :
        /\ Only(s, T) \in Seq(Requests) /\ Elements(Only(s, T)) = Elements(s) \cap T
        /\ Distinct(s) => Distinct(Only(s, T))

Types ==
    /\ Selects
    /\ tasks \in Seq(Tasks) /\ queue \in Seq(Requests) /\ running \in Seq(Requests)
    /\ req \in [Requests -> Fields] /\ seq \in Nat
    /\ done \in [Requests -> Seq(Codes)] /\ copies \in [Requests -> Nat]
    /\ written \subseteq Requests /\ replied \subseteq Requests

LinkTypes ==
    /\ uin \in Uins \cup {0} /\ token \in Nat /\ next \in Nat
    /\ handshake \in {"Idel", "Ing", "Successed"}

LinkFlags == net \in BOOLEAN /\ open \in BOOLEAN

\* What of the link its steps rely on.
LinkInv ==
    /\ token < next
    /\ handshake # "Idel" => uin # 0
    /\ token # 0 => open /\ uin # 0
    /\ handshake = "Successed" => token # 0

\* A request is in one place, once, and completed at most once.
Placed ==
    /\ \A i, j \in DOMAIN tasks : tasks[i] = tasks[j] /\ tasks[i][1] = "request" => i = j
    /\ Distinct(queue) /\ Distinct(running)
    /\ Elements(queue) \cap Elements(running) = {}
    /\ Scheduled \cap (Elements(queue) \cup Elements(running)) = {}
    /\ \A r \in InFlight : done[r] = <<>>
    /\ \A r \in Requests : Len(done[r]) <= 1

\* The requests that have a number.
Numbered == written \cup Elements(running)

\* The numbers are different, and used up.
Numbers ==
    /\ \A r \in written : r \in Elements(running) \/ done[r] # <<>>
    /\ \A r \in Numbered : req[r].seq < seq
    /\ \A r, q \in Numbered : req[r].seq = req[q].seq => r = q

\* The token of a request is one that a connection had.
Tokens == \A r \in Requests : req[r].token < next

\* When the thread begins a round nothing waits for a connection that is there, and
\* nothing that the session allows to be sent again has not been.
Settled ==
    /\ phase \in {"tasks", "read"} /\ token # 0 => queue = <<>> /\ handshake # "Idel"
    /\ phase \in {"write", "service"} /\ token # 0 /\ queue # <<>> => handshake # "Successed"
    /\ phase = "tasks" => \A r \in Elements(running) : ~MustResend(r, handshake)

Inv ==
    /\ LinkTypes /\ LinkFlags /\ LinkInv
    /\ Types /\ Placed /\ Numbers /\ Tokens /\ Settled
    /\ RunningHasConnection /\ WaitingMeansSent /\ OwnReply

\* The link keeps its part of the invariant.
LEMMA LinkKeeps ==
    ASSUME LinkTypes, LinkFlags, LinkInv, [LinkNext]_linkVars
    PROVE  LinkTypes' /\ LinkFlags' /\ LinkInv'
  <1> USE DEF LinkTypes, LinkFlags, LinkInv
  <1>1. CASE \E u \in Uins : Login(u)
    BY <1>1, UinAssumption DEF Login
  <1>2. CASE \E available \in BOOLEAN : Network(available)
    <2> PICK available \in BOOLEAN : Network(available)
      BY <1>2
    <2>1. LinkFlags' /\ (open => open')
      BY Zenon DEF Network
    <2> QED
      BY <2>1 DEF Network
  <1>3. CASE Logout
    <2>1. LinkFlags'
      BY <1>3, Zenon DEF Logout
    <2> QED
      BY <1>3, <2>1 DEF Logout
  <1>4. CASE Begin
    <2>1. LinkFlags'
      BY <1>4, Zenon DEF Begin
    <2> QED
      BY <1>4, <2>1 DEF Begin
  <1>5. CASE Open
    <2>1. LinkFlags'
      BY <1>5, Zenon DEF Open
    <2> QED
      BY <1>5, <2>1 DEF Open
  <1>6. CASE Announce
    <2>1. LinkFlags'
      BY <1>6, Zenon DEF Announce
    <2>2. CASE token' = next /\ open' = TRUE /\ handshake' = handshake
      BY <1>6, <2>1, <2>2 DEF Announce
    <2>3. CASE token' = 0 /\ open' = FALSE /\ handshake' = Demoted
      BY <1>6, <2>1, <2>3 DEF Announce, Demoted
    <2> QED
      BY <1>6, <2>2, <2>3, Zenon DEF Announce
  <1>7. CASE Accept
    BY <1>7 DEF Accept
  <1>8. CASE Close
    <2>1. LinkFlags'
      BY <1>8, Zenon DEF Close
    <2> QED
      BY <1>8, <2>1 DEF Close, Demoted
  <1>9. CASE Demote
    BY <1>9 DEF Demote
  <1>10. CASE UNCHANGED linkVars
    BY <1>10 DEF linkVars
  <1> QED
    BY <1>1, <1>2, <1>3, <1>4, <1>5, <1>6, <1>7, <1>8, <1>9, <1>10 DEF LinkNext

-----------------------------------------------------------------------------
(* processRequestQueue *)

\* What it finds in requestsQueue: the queue, perhaps with a request more.
Queueable(q) ==
    /\ q \in Seq(Requests) /\ Distinct(q)
    /\ Elements(q) \cap Elements(running) = {}
    /\ \A r \in Elements(q) : done[r] = <<>>

\* The requests of a list that meet one of the fates.
LEMMA MeetingList ==
    ASSUME Types, NEW s \in Seq(Requests), NEW fates, NEW q, NEW expired
    PROVE  /\ Meeting(s, fates, q, expired) \in Seq(Requests)
           /\ Elements(Meeting(s, fates, q, expired)) =
                 {r \in Elements(s) : Fate(r, q, expired) \in fates}
           /\ Distinct(s) => Distinct(Meeting(s, fates, q, expired))
  <1> DEFINE T == {r \in Requests : Fate(r, q, expired) \in fates}
  <1>1. Meeting(s, fates, q, expired) = Only(s, T)
    BY DEF Meeting
  <1>2. Elements(s) \subseteq Requests
    BY DEF Elements
  <1> HIDE DEF T
  <1>3. /\ Only(s, T) \in Seq(Requests) /\ Elements(Only(s, T)) = Elements(s) \cap T
        /\ Distinct(s) => Distinct(Only(s, T))
    BY DEF Types, Selects
  <1>4. Elements(s) \cap T = {r \in Elements(s) : Fate(r, q, expired) \in fates}
    BY <1>2 DEF T
  <1> QED
    BY <1>1, <1>3, <1>4

\* The fates a request can meet, and when.
LEMMA Fates ==
    ASSUME NEW r, NEW q, NEW expired
    PROVE  /\ r \in Elements(running) =>
                 /\ Fate(r, q, expired) \in {"ConnectFail", "resend", "Timeout", "RetryLimit",
                                             "retry", "wait"}
                 /\ Fate(r, q, expired) \in {"retry", "wait"} => ~MustResend(r, Touched(q))
                 /\ Fate(r, q, expired) = "resend" => MustResend(r, Touched(q))
           /\ r \notin Elements(running) /\ r \in Elements(q) =>
                 /\ Fate(r, q, expired) \in {"wait", "send", "WithoutConnectin", "WithoutLogin"}
                 /\ Fate(r, q, expired) = "wait" <=> handshake = "Idel"
                 /\ Fate(r, q, expired) = "send" /\ req[r].flag = "WithoutAck"
                       => token # 0 /\ Touched(q) = "Successed"
           /\ r \notin Elements(running) /\ r \notin Elements(q) => Fate(r, q, expired) = "absent"
  BY DEF Fate, RunningFate, QueueFate, TimeoutFate, ReSends

\* The messages to send.
LEMMA Needed ==
    ASSUME Types, NEW q, Queueable(q), NEW expired,
           Resends(q, expired) \o Sends(q, expired) # <<>>, RunningHasConnection
    PROVE  handshake # "Idel"
  <1>1. q \in Seq(Requests) /\ running \in Seq(Requests)
    BY DEF Types, Queueable
  <1>2. /\ Resends(q, expired) \in Seq(Requests) /\ Sends(q, expired) \in Seq(Requests)
        /\ Elements(Resends(q, expired)) \subseteq Elements(running)
        /\ Elements(Sends(q, expired)) = {r \in Elements(q) : Fate(r, q, expired) = "send"}
    BY <1>1, MeetingList DEF Resends, Sends
  <1>3. CASE Resends(q, expired) # <<>>
    <2>1. Resends(q, expired)[1] \in Elements(Resends(q, expired))
      BY <1>2, <1>3 DEF Elements
    <2>2. running # <<>>
      BY <1>2, <2>1 DEF Elements
    <2> QED
      BY <2>2 DEF RunningHasConnection
  <1>4. CASE Sends(q, expired) # <<>>
    <2>1. Sends(q, expired)[1] \in Elements(Sends(q, expired))
      BY <1>2, <1>4 DEF Elements
    <2> DEFINE r == Sends(q, expired)[1]
    <2>2. r \in Elements(q) /\ Fate(r, q, expired) = "send"
      BY <1>2, <2>1
    <2>3. r \notin Elements(running)
      BY <2>2 DEF Queueable
    <2> QED
      BY <2>2, <2>3, Fates
  <1> QED
    BY <1>2, <1>3, <1>4, ConcatList

\* It opens the connection, loses it, demotes the session or leaves it alone, as the
\* link may do by itself.
LEMMA ProcessLink ==
    ASSUME LinkTypes, LinkFlags, LinkInv, Types, RunningHasConnection,
           NEW q, Queueable(q), NEW expired, Process(q, expired)
    PROVE  [LinkNext]_linkVars
  <1> DEFINE needed == Resends(q, expired) \o Sends(q, expired)
             h == Touched(q)
             touched == q \o running # <<>>
  <1>1. Transmit(h, touched, needed)
    BY DEF Process
  <1>2. needed # <<>> => handshake # "Idel"
    BY Needed
  <1>3. /\ h # handshake => ~net /\ handshake = "Successed" /\ h = "Ing"
        /\ h # "Idel" => handshake # "Idel"
    BY DEF Touched, Demoted, LinkTypes
  <1> HIDE DEF needed, h, touched
  <1>4. UNCHANGED <<uin, net, next>>
    BY <1>1 DEF Transmit
  <1>5. ASSUME open' = open, handshake' = h, token' = token
        PROVE  [LinkNext]_linkVars
    <2>1. CASE h = handshake
      BY <1>4, <1>5, <2>1 DEF linkVars
    <2>2. CASE h # handshake
      <3>1. Demote
        BY <1>3, <1>4, <1>5, <2>2 DEF Demote, LinkInv
      <3> QED
        BY <3>1 DEF LinkNext
    <2> QED
      BY <2>1, <2>2
  <1>6. ASSUME ~open, net, open' = TRUE, handshake' = handshake, token' = token, uin # 0
        PROVE  [LinkNext]_linkVars
    <2>1. Open
      BY <1>4, <1>6 DEF Open
    <2> QED
      BY <2>1 DEF LinkNext
  <1>7. CASE /\ needed = <<>>
             /\ open' \in {open, open \/ (touched /\ h # "Idel" /\ net)}
             /\ handshake' = h /\ UNCHANGED token
    <2>1. CASE open' = open
      BY <1>5, <1>7, <2>1
    <2>2. CASE open' # open
      <3>1. ~open /\ open' = TRUE /\ h # "Idel" /\ net
        BY <1>7, <2>2, Zenon DEF LinkFlags
      <3>2. h = handshake /\ uin # 0
        BY <1>3, <3>1 DEF LinkInv
      <3> QED
        BY <1>6, <1>7, <3>1, <3>2
    <2> QED
      BY <2>1, <2>2
  <1>8. CASE /\ needed # <<>> /\ (open \/ net)
             /\ open' = TRUE /\ handshake' = h /\ UNCHANGED token
    <2>1. CASE open
      <3>1. open' = open
        BY <1>8, <2>1, Zenon DEF LinkFlags
      <3> QED
        BY <1>5, <1>8, <3>1
    <2>2. CASE ~open
      <3>1. net /\ h = handshake /\ uin # 0
        BY <1>2, <1>3, <1>8, <2>2 DEF LinkInv
      <3> QED
        BY <1>6, <1>8, <2>2, <3>1
    <2> QED
      BY <2>1, <2>2
  <1>9. CASE needed # <<>> /\ ConnectionLost /\ (open' = FALSE \/ open' = net \/ (open' = TRUE /\ net))
    <2>1. uin # 0 /\ handshake' = Demoted /\ token' = 0
      BY <1>2, <1>9 DEF ConnectionLost, LinkInv
    <2>2. open' \in {FALSE, net}
      BY <1>9, Zenon DEF LinkFlags
    <2>3. CASE open
      <3>1. Close
        BY <1>4, <2>1, <2>2, <2>3, Zenon DEF Close
      <3> QED
        BY <3>1 DEF LinkNext
    <2>4. CASE ~open
      <3>1. token' = token /\ handshake' = handshake
        BY <2>1, <2>4 DEF LinkInv, LinkTypes, Demoted
      <3>2. CASE open' = FALSE
        <4>1. open' = open
          BY <2>4, <3>2, Zenon DEF LinkFlags
        <4> QED
          BY <1>4, <3>1, <4>1 DEF linkVars
      <3>3. CASE open' # FALSE
        <4>1. open' = TRUE /\ net
          BY <2>2, <3>3, Zenon DEF LinkFlags
        <4> QED
          BY <1>6, <2>1, <2>4, <3>1, <4>1
      <3> QED
        BY <3>2, <3>3, Zenon
    <2> QED
      BY <2>3, <2>4
  <1>10. \/ /\ needed = <<>>
            /\ open' \in {open, open \/ (touched /\ h # "Idel" /\ net)}
            /\ handshake' = h /\ UNCHANGED token
         \/ /\ needed # <<>> /\ (open \/ net)
            /\ open' = TRUE /\ handshake' = h /\ UNCHANGED token
         \/ /\ needed # <<>> /\ ConnectionLost
            /\ open' = FALSE \/ open' = net \/ (open' = TRUE /\ net)
    BY <1>1, Zenon DEF Transmit
  <1> QED
    BY <1>7, <1>8, <1>9, <1>10, Zenon

\* The lists it leaves.
LEMMA ProcessLists ==
    ASSUME Types, Distinct(running), NEW q, Queueable(q), NEW expired, Process(q, expired)
    PROVE  /\ running' \in Seq(Requests) /\ Distinct(running')
           /\ Elements(running') =
                 {r \in Elements(running) : Fate(r, q, expired) \in {"resend", "retry", "wait"}}
                 \cup {r \in Elements(q) : Fate(r, q, expired) = "send" /\ r \in Acked}
           /\ queue' \in Seq(Requests) /\ Distinct(queue')
           /\ Elements(queue') = {r \in Elements(q) : Fate(r, q, expired) = "wait"}
  <1> DEFINE kept == Meeting(running, {"resend", "retry", "wait"}, q, expired)
             sends == Sends(q, expired)
             added == Only(sends, Acked)
  <1>1. q \in Seq(Requests) /\ Distinct(q) /\ Elements(q) \cap Elements(running) = {}
        /\ running \in Seq(Requests)
    BY DEF Types, Queueable
  <1>2. /\ kept \in Seq(Requests) /\ Distinct(kept)
        /\ Elements(kept) =
              {r \in Elements(running) : Fate(r, q, expired) \in {"resend", "retry", "wait"}}
    BY <1>1, MeetingList
  <1>3. /\ sends \in Seq(Requests) /\ Distinct(sends)
        /\ Elements(sends) = {r \in Elements(q) : Fate(r, q, expired) = "send"}
    BY <1>1, MeetingList DEF Sends
  <1> HIDE DEF kept, sends
  <1>4. /\ added \in Seq(Requests) /\ Distinct(added)
        /\ Elements(added) = Elements(sends) \cap Acked
    BY <1>3 DEF Types, Selects
  <1> HIDE DEF added
  <1>5. Elements(kept) \cap Elements(added) = {}
    BY <1>1, <1>2, <1>3, <1>4
  <1>6. /\ kept \o added \in Seq(Requests) /\ Distinct(kept \o added)
        /\ Elements(kept \o added) = Elements(kept) \cup Elements(added)
    BY <1>2, <1>4, <1>5, ConcatList
  <1>7. running' = kept \o added /\ queue' = Meeting(q, {"wait"}, q, expired)
    BY DEF Process, kept, added, sends
  <1>8. /\ queue' \in Seq(Requests) /\ Distinct(queue')
        /\ Elements(queue') = {r \in Elements(q) : Fate(r, q, expired) = "wait"}
    BY <1>1, <1>7, MeetingList
  <1>9. Elements(kept \o added) =
            {r \in Elements(running) : Fate(r, q, expired) \in {"resend", "retry", "wait"}}
            \cup {r \in Elements(q) : Fate(r, q, expired) = "send" /\ r \in Acked}
    BY <1>2, <1>3, <1>4, <1>6
  <1> QED
    BY <1>6, <1>7, <1>8, <1>9

\* The fields of the requests: what is sent gets the token of the connection, and
\* what is sent for the first time a number of its own.
LEMMA ProcessFields ==
    ASSUME LinkTypes, Types, NEW q, Queueable(q), NEW expired, Process(q, expired)
    PROVE  /\ req' \in [Requests -> Fields] /\ seq' \in Nat /\ seq <= seq'
           /\ \A r \in Requests :
                 /\ req'[r].flag = req[r].flag
                 /\ req'[r].token = IF Fate(r, q, expired) \in {"resend", "send"}
                                    THEN token ELSE req[r].token
                 /\ Fate(r, q, expired) # "send" => req'[r].seq = req[r].seq
                 /\ Fate(r, q, expired) = "send"
                       => seq <= req'[r].seq /\ req'[r].seq < seq'
           /\ \A r, p \in Requests :
                 Fate(r, q, expired) = "send" /\ Fate(p, q, expired) = "send"
                 /\ req'[r].seq = req'[p].seq => r = p
  <1> DEFINE sends == Sends(q, expired)
             Place(r) == CHOOSE i \in DOMAIN sends : sends[i] = r
             fate(r) == Fate(r, q, expired)
  <1>1. /\ sends \in Seq(Requests)
        /\ Elements(sends) = {r \in Elements(q) : fate(r) = "send"}
    BY MeetingList DEF Queueable, Sends
  <1>2. /\ seq' = seq + Len(sends) /\ seq \in Nat /\ Len(sends) \in Nat
        /\ token \in Nat
    BY <1>1 DEF Process, GenerateMessageSeq, Types, LinkTypes
  <1>3. ASSUME NEW r \in Requests
        PROVE  req'[r] = CASE fate(r) = "resend" -> [req[r] EXCEPT !.token = token]
                           [] fate(r) = "retry"  -> [req[r] EXCEPT !.retries = @ + 1]
                           [] fate(r) = "send"   -> [req[r] EXCEPT !.token = token,
                                                        !.seq = seq + (Place(r) - 1)]
                           [] OTHER -> req[r]
    BY Zenon DEF Process, Processed, GenerateMessageSeq
  <1>4. ASSUME NEW r \in Elements(q), fate(r) = "send"
        PROVE  Place(r) \in 1 .. Len(sends) /\ sends[Place(r)] = r
    <2>1. \E i \in DOMAIN sends : sends[i] = r
      BY <1>1, <1>4 DEF Elements
    <2>2. Place(r) \in DOMAIN sends /\ sends[Place(r)] = r
      BY <2>1
    <2> QED
      BY <1>1, <2>2
  <1>5. ASSUME NEW r \in Requests
        PROVE  fate(r) = "send" => r \in Elements(q)
    BY Fates
  <1>6. req' = [r \in Requests |-> req'[r]]
    BY DEF Process
  <1> HIDE DEF sends, fate, Place
  <1>7. ASSUME NEW r \in Requests
        PROVE  /\ req'[r] \in Fields
               /\ req'[r].flag = req[r].flag
               /\ req'[r].token = IF fate(r) \in {"resend", "send"} THEN token ELSE req[r].token
               /\ fate(r) # "send" => req'[r].seq = req[r].seq
               /\ fate(r) = "send" => req'[r].seq = seq + (Place(r) - 1)
    <2>1. req[r] \in Fields
      BY DEF Types
    <2>2. CASE fate(r) = "send"
      <3>1. seq + (Place(r) - 1) \in Nat
        BY <1>2, <1>4, <1>5, <2>2
      <3>2. req'[r] = [req[r] EXCEPT !.token = token, !.seq = seq + (Place(r) - 1)]
        BY <1>3, <2>2, Zenon
      <3> QED
        BY <1>2, <2>1, <2>2, <3>1, <3>2, Zenon DEF Fields
    <2>3. CASE fate(r) = "resend"
      <3>1. req'[r] = [req[r] EXCEPT !.token = token]
        BY <1>3, <2>3, Zenon
      <3> QED
        BY <1>2, <2>1, <2>3, <3>1 DEF Fields
    <2>4. CASE fate(r) = "retry"
      <3>1. req'[r] = [req[r] EXCEPT !.retries = @ + 1]
        BY <1>3, <2>4, Zenon
      <3> QED
        BY <2>1, <2>4, <3>1 DEF Fields
    <2>5. CASE fate(r) \notin {"send", "resend", "retry"}
      <3>1. req'[r] = req[r]
        BY <1>3, <2>5, Zenon
      <3> QED
        BY <2>1, <2>5, <3>1
    <2> QED
      BY <2>2, <2>3, <2>4, <2>5
  <1>8. req' \in [Requests -> Fields]
    BY <1>6, <1>7
  <1>9. ASSUME NEW r \in Requests, fate(r) = "send"
        PROVE  seq <= req'[r].seq /\ req'[r].seq < seq'
    BY <1>2, <1>4, <1>5, <1>7, <1>9
  <1>10. ASSUME NEW r \in Requests, NEW p \in Requests, fate(r) = "send", fate(p) = "send",
                req'[r].seq = req'[p].seq
         PROVE  r = p
    BY <1>2, <1>4, <1>5, <1>7, <1>10
  <1>11. \A r \in Requests :
             /\ req'[r].flag = req[r].flag
             /\ req'[r].token = IF fate(r) \in {"resend", "send"} THEN token ELSE req[r].token
             /\ fate(r) # "send" => req'[r].seq = req[r].seq
             /\ fate(r) = "send" => seq <= req'[r].seq /\ req'[r].seq < seq'
    BY <1>7, <1>9
  <1>12. \A r, p \in Requests :
             fate(r) = "send" /\ fate(p) = "send" /\ req'[r].seq = req'[p].seq => r = p
    BY <1>10
  <1>13. seq' \in Nat /\ seq <= seq'
    BY <1>2
  <1> QED
    BY <1>8, <1>11, <1>12, <1>13, Zenon DEF fate

\* It completes or keeps every request, and none that is elsewhere.
LEMMA ProcessPlaces ==
    ASSUME Types, Placed, NEW q, Queueable(q), NEW expired, Process(q, expired),
           tasks' \in Seq(Tasks),
           Scheduled' \cap (Elements(q) \cup Elements(running)) = {},
           \A r \in Scheduled' : done[r] = <<>>,
           \A i, j \in DOMAIN tasks' : tasks'[i] = tasks'[j] /\ tasks'[i][1] = "request" => i = j
    PROVE  /\ Placed' /\ done' \in [Requests -> Seq(Codes)]
           /\ \A r \in Requests :
                 /\ r \in Elements(q) \cup Elements(running)
                       => \/ r \in Elements(queue') \cup Elements(running')
                          \/ done'[r] # <<>>
                 /\ r \in Elements(q) \cup Elements(running) /\ done'[r] = <<"OK">>
                       => Fate(r, q, expired) = "send" /\ r \notin Acked
                 /\ r \notin Elements(q) \cup Elements(running) => done'[r] = done[r]
                 /\ done[r] # <<>> => done'[r] # <<>>
  <1> DEFINE fate(r) == Fate(r, q, expired)
  <1>1. /\ running' \in Seq(Requests) /\ Distinct(running')
        /\ Elements(running') =
                 {r \in Elements(running) : fate(r) \in {"resend", "retry", "wait"}}
                 \cup {r \in Elements(q) : fate(r) = "send" /\ r \in Acked}
        /\ queue' \in Seq(Requests) /\ Distinct(queue')
        /\ Elements(queue') = {r \in Elements(q) : fate(r) = "wait"}
    BY ProcessLists DEF Placed
  <1>2. /\ Elements(q) \subseteq Requests /\ Elements(running) \subseteq Requests
        /\ Elements(q) \cap Elements(running) = {}
        /\ \A r \in Elements(q) \cup Elements(running) : done[r] = <<>>
    <2>1. q \in Seq(Requests) /\ running \in Seq(Requests)
      BY DEF Queueable, Types
    <2>2. Elements(q) \subseteq Requests /\ Elements(running) \subseteq Requests
      BY <2>1 DEF Elements
    <2> QED
      BY <2>2 DEF Queueable, Placed, InFlight
  <1>3. /\ done' = [r \in Requests |-> done'[r]]
        /\ \A r \in Requests :
              done'[r] = IF fate(r) \in Codes THEN Append(done[r], fate(r))
                         ELSE IF fate(r) = "send" /\ r \notin Acked THEN Append(done[r], "OK")
                         ELSE done[r]
    BY DEF Process, Completed
  <1>4. /\ \A r \in Elements(running) :
              fate(r) \in {"ConnectFail", "resend", "Timeout", "RetryLimit", "retry", "wait"}
        /\ \A r \in Elements(q) :
              fate(r) \in {"wait", "send", "WithoutConnectin", "WithoutLogin"}
        /\ \A r \in Requests :
              r \notin Elements(running) /\ r \notin Elements(q) => fate(r) = "absent"
    BY <1>2, Fates
  <1> HIDE DEF fate
  <1>5. InFlight' = Scheduled' \cup Elements(queue') \cup Elements(running')
    BY DEF InFlight, Elements, Scheduled
  <1>6. ASSUME NEW r \in Requests
        PROVE  done[r] \in Seq(Codes) /\ Len(done[r]) <= 1
    BY DEF Types, Placed
  <1>7. ASSUME NEW r \in Requests, r \notin Elements(q) \cup Elements(running)
        PROVE  done'[r] = done[r]
    BY <1>3, <1>4, <1>7 DEF Codes
  <1>8. ASSUME NEW r \in Elements(q) \cup Elements(running)
        PROVE  /\ done'[r] \in Seq(Codes) /\ Len(done'[r]) <= 1
               /\ r \in Elements(queue') \cup Elements(running') <=> done'[r] = <<>>
               /\ done'[r] = <<"OK">> => fate(r) = "send" /\ r \notin Acked
    <2>1. r \in Requests /\ done[r] = <<>>
      BY <1>2
    <2>2. CASE fate(r) \in Codes
      <3>1. done'[r] = <<fate(r)>>
        BY <1>3, <2>1, <2>2
      <3>2. r \notin Elements(queue') \cup Elements(running')
        BY <1>1, <2>2 DEF Codes
      <3>3. fate(r) # "OK"
        BY <1>4
      <3> QED
        BY <2>2, <3>1, <3>2, <3>3
    <2>3. CASE fate(r) = "send" /\ r \notin Acked
      <3>1. done'[r] = <<"OK">>
        BY <1>3, <2>1, <2>3 DEF Codes
      <3>2. r \notin Elements(queue') \cup Elements(running')
        BY <1>1, <2>3
      <3> QED
        BY <2>3, <3>1, <3>2 DEF Codes
    <2>4. CASE fate(r) \notin Codes /\ ~(fate(r) = "send" /\ r \notin Acked)
      <3>1. done'[r] = <<>>
        BY <1>3, <2>1, <2>4
      <3>2. r \in Elements(queue') \cup Elements(running')
        BY <1>1, <1>4, <2>4 DEF Codes
      <3> QED
        BY <3>1, <3>2
    <2> QED
      BY <2>2, <2>3, <2>4
  <1>9. /\ Elements(queue') \cup Elements(running') \subseteq Elements(q) \cup Elements(running)
        /\ Elements(queue') \cap Elements(running') = {}
    BY <1>1, <1>2
  <1>10. done' \in [Requests -> Seq(Codes)] /\ \A r \in Requests : Len(done'[r]) <= 1
    BY <1>2, <1>3, <1>6, <1>7, <1>8
  <1>11. \A r \in InFlight' : done'[r] = <<>>
    <2>1. ASSUME NEW r \in Scheduled'
          PROVE  done'[r] = <<>>
      <3>1. r \in Requests
        BY DEF Scheduled, Tasks
      <3> QED
        BY <1>7, <3>1
    <2> QED
      BY <1>5, <1>8, <1>9, <2>1
  <1>12. Placed'
    <2>1. Scheduled' \cap (Elements(queue') \cup Elements(running')) = {}
      BY <1>9
    <2> QED
      BY <1>1, <1>9, <1>10, <1>11, <2>1, Zenon DEF Placed, Distinct, Elements
  <1>13. ASSUME NEW r \in Requests, done[r] # <<>>
         PROVE  done'[r] # <<>>
    BY <1>2, <1>7, <1>13
  <1> QED
    BY <1>7, <1>8, <1>10, <1>12, <1>13 DEF fate

\* A list of at most one element has one exactly when it is not empty.
LEMMA ShortList ==
    ASSUME NEW S, NEW d \in Seq(S), Len(d) <= 1
    PROVE  Len(d) = IF d # <<>> THEN 1 ELSE 0
  <1>1. Len(d) \in Nat /\ (d = <<>> <=> Len(d) = 0)
    OBVIOUS
  <1>2. \A l \in Nat : l <= 1 => l = 0 \/ l = 1
    OBVIOUS
  <1> QED
    BY <1>1, <1>2, Zenon

\* The cardinality of a set with at most one element.
LEMMA SmallSets ==
    Cardinality({}) = 0 /\ \A x : Cardinality({x}) = 1
  <1> DEFINE Def(S, g) == [T \in SUBSET S |-> IF T = {} THEN 0
                                              ELSE 1 + g[T \ {CHOOSE y : y \in T}]]
             size(S) == CHOOSE g : g = Def(S, g)
  <1>1. ASSUME NEW S
        PROVE  Cardinality(S) = size(S)[S]
    BY DEF Cardinality
  <1>2. ASSUME NEW S, \E x : S \subseteq {x}
        PROVE  size(S) = Def(S, size(S))
    <2> DEFINE g == [T \in SUBSET S |-> IF T = {} THEN 0 ELSE 1]
    <2>1. ASSUME NEW T \in SUBSET S, T # {}
          PROVE  T \ {CHOOSE y : y \in T} = {}
      BY <1>2, <2>1
    <2>2. g = Def(S, g)
      BY <2>1
    <2> QED
      BY <2>2, Zenon
  <1>3. size({})[{}] = 0
    <2> DEFINE f == size({})
    <2>1. f = Def({}, f)
      BY <1>2
    <2> HIDE DEF f
    <2>2. f[{}] = 0
      BY <2>1
    <2> QED
      BY <2>2, Zenon DEF f
  <1>4. ASSUME NEW x
        PROVE  size({x})[{x}] = 1
    <2> DEFINE f == size({x})
    <2>1. f = Def({x}, f)
      BY <1>2, Zenon
    <2> HIDE DEF f
    <2>2. f[{}] = 0 /\ f[{x}] = 1 + f[{x} \ {CHOOSE y : y \in {x}}]
      BY <2>1
    <2>3. {x} \ {CHOOSE y : y \in {x}} = {}
      OBVIOUS
    <2>4. f[{x}] = 1
      BY <2>2, <2>3
    <2> QED
      BY <2>4 DEF f
  <1> HIDE DEF size
  <1> QED
    BY <1>1, <1>3, <1>4, Zenon

\* How often a request is in a list without repetitions.
LEMMA CountOf ==
    ASSUME NEW s \in Seq(Requests), NEW r \in Requests, Distinct(s)
    PROVE  Count(s)[r] = IF r \in Elements(s) THEN 1 ELSE 0
  <1> DEFINE I == {i \in DOMAIN s : s[i] = r}
  <1>1. Count(s)[r] = Cardinality(I)
    BY DEF Count
  <1>2. CASE r \notin Elements(s)
    <2>1. I = {}
      BY <1>2 DEF Elements
    <2> QED
      BY <1>1, <1>2, <2>1, SmallSets, Zenon
  <1>3. CASE r \in Elements(s)
    <2>1. PICK i \in DOMAIN s : s[i] = r
      BY <1>3 DEF Elements
    <2>2. I = {i}
      BY <2>1 DEF Distinct
    <2> QED
      BY <1>1, <1>3, <2>2, SmallSets, Zenon
  <1> QED
    BY <1>2, <1>3

\* What the streams hold afterwards: nothing that was not sent, and, as long as the
\* connection lasts, everything that was.
LEMMA ProcessStream ==
    ASSUME LinkTypes, Types, Distinct(running), NEW q, Queueable(q), NEW expired, Process(q, expired)
    PROVE  /\ written' \subseteq written \cup {r \in Elements(q) \cup Elements(running) :
                                                 Fate(r, q, expired) \in {"resend", "send"}}
           /\ written' \subseteq Requests /\ copies' \in [Requests -> Nat] /\ replied' = replied
           /\ token' \in {token, 0} /\ next' = next /\ handshake' \in {Touched(q), Demoted}
           /\ token' # 0 => /\ handshake' = Touched(q)
                            /\ \A r \in Requests : copies[r] <= copies'[r]
                            /\ \A r \in Elements(q) \cup Elements(running) :
                                  Fate(r, q, expired) \in {"resend", "send"} => copies'[r] > 0
  <1> DEFINE needed == Resends(q, expired) \o Sends(q, expired)
             h == Touched(q)
             touched == q \o running # <<>>
             N == {r \in Elements(q) \cup Elements(running) :
                      Fate(r, q, expired) \in {"resend", "send"}}
  <1>1. Transmit(h, touched, needed) /\ UNCHANGED replied
    BY DEF Process
  <1>2. q \in Seq(Requests) /\ running \in Seq(Requests)
    BY DEF Queueable, Types
  <1>3. /\ needed \in Seq(Requests) /\ Elements(needed) = N /\ N \subseteq Requests
        /\ Distinct(needed)
    <2>0. Distinct(Resends(q, expired)) /\ Distinct(Sends(q, expired))
      BY <1>2, MeetingList DEF Resends, Sends, Queueable
    <2>1. /\ Resends(q, expired) \in Seq(Requests) /\ Sends(q, expired) \in Seq(Requests)
          /\ Elements(Resends(q, expired)) =
                {r \in Elements(running) : Fate(r, q, expired) = "resend"}
          /\ Elements(Sends(q, expired)) = {r \in Elements(q) : Fate(r, q, expired) = "send"}
      BY <1>2, MeetingList DEF Resends, Sends
    <2>2. /\ needed \in Seq(Requests)
          /\ Elements(needed) = Elements(Resends(q, expired)) \cup Elements(Sends(q, expired))
      BY <2>1, ConcatList
    <2>3. \A r \in Elements(running) : Fate(r, q, expired) # "send"
      BY Fates
    <2>4. \A r \in Elements(q) : r \notin Elements(running) => Fate(r, q, expired) # "resend"
      BY Fates
    <2>5. Elements(q) \subseteq Requests /\ Elements(running) \subseteq Requests
      BY <1>2 DEF Elements
    <2>6. Elements(Resends(q, expired)) \cap Elements(Sends(q, expired)) = {}
      BY <2>1 DEF Queueable
    <2>7. Distinct(needed)
      BY <2>0, <2>1, <2>6, ConcatList
    <2> QED
      BY <2>1, <2>2, <2>3, <2>4, <2>5, <2>7
  <1> HIDE DEF needed, h, touched, N
  <1>4. written \subseteq Requests /\ copies \in [Requests -> Nat] /\ token \in Nat
    BY DEF Types, LinkTypes
  <1>5. CASE needed = <<>> /\ handshake' = h /\ UNCHANGED <<token, copies, written, next>>
    <2>1. N = {}
      BY <1>3, <1>5 DEF Elements
    <2> QED
      BY <1>1, <1>4, <1>5, <2>1 DEF N, h
  <1>6. CASE /\ handshake' = h /\ UNCHANGED <<token, next>>
             /\ copies' = [r \in Requests |-> copies[r] + Count(needed)[r]]
             /\ written' = written \cup Elements(needed)
    <2>1. ASSUME NEW r \in Requests
          PROVE  copies'[r] \in Nat /\ copies[r] <= copies'[r] /\ (r \in N => copies'[r] > 0)
      <3>1. Count(needed)[r] \in Nat /\ (r \in N => Count(needed)[r] > 0)
        BY <1>3, CountOf
      <3> QED
        BY <1>4, <1>6, <3>1
    <2>2. copies' \in [Requests -> Nat]
      BY <1>6, <2>1
    <2>3. \A r \in N : copies'[r] > 0
      BY <1>3, <2>1
    <2> QED
      BY <1>1, <1>3, <1>4, <1>6, <2>1, <2>2, <2>3 DEF N, h
  <1>7. ASSUME NEW k \in 2 .. Len(needed) + 1, ConnectionLost, next' = next,
               copies' = Count(SubSeq(needed, k, Len(needed))),
               written' = written \cup Elements(SubSeq(needed, k, Len(needed)))
        PROVE  /\ written' \subseteq written \cup N /\ copies' \in [Requests -> Nat]
               /\ token' = 0 /\ handshake' = Demoted
    <2> DEFINE kept == SubSeq(needed, k, Len(needed))
    <2>1. kept \in Seq(Requests) /\ Elements(kept) \subseteq Elements(needed) /\ Distinct(kept)
      <3>1. kept \in Seq(Requests) /\ Len(kept) = Len(needed) + 1 - k /\ Len(needed) \in Nat
        BY <1>3
      <3>2. \A i \in 1 .. Len(kept) : kept[i] = needed[i + k - 1] /\ i + k - 1 \in 1 .. Len(needed)
        BY <1>3, <3>1
      <3> HIDE DEF kept
      <3>3. DOMAIN kept = 1 .. Len(kept) /\ DOMAIN needed = 1 .. Len(needed)
        BY <1>3, <3>1
      <3>4. ASSUME NEW r \in Elements(kept)
            PROVE  r \in Elements(needed)
        <4>1. PICK i \in DOMAIN kept : r = kept[i]
          BY <3>4, Zenon DEF Elements
        <4>2. r = needed[i + k - 1] /\ i + k - 1 \in DOMAIN needed
          BY <3>2, <3>3, <4>1
        <4> QED
          BY <4>2, Zenon DEF Elements
      <3>5. Distinct(kept)
        <4> SUFFICES ASSUME NEW i \in DOMAIN kept, NEW j \in DOMAIN kept, kept[i] = kept[j]
                     PROVE  i = j
          BY DEF Distinct
        <4>1. /\ needed[i + k - 1] = needed[j + k - 1]
              /\ i + k - 1 \in DOMAIN needed /\ j + k - 1 \in DOMAIN needed
          BY <3>2, <3>3, Zenon
        <4>2. i + k - 1 = j + k - 1
          BY <1>3, <4>1 DEF Distinct
        <4> QED
          BY <3>1, <3>3, <4>2
      <3> QED
        BY <3>1, <3>4, <3>5
    <2> HIDE DEF kept
    <2>2. \A r \in Requests : Count(kept)[r] \in Nat
      BY <2>1, CountOf
    <2>3. copies' = [r \in Requests |-> Count(kept)[r]]
      BY <1>7 DEF kept, Count
    <2> QED
      BY <1>3, <1>7, <2>1, <2>2, <2>3 DEF ConnectionLost, kept
  <1>8. CASE \E k \in 2 .. Len(needed) + 1 :
                /\ ConnectionLost /\ next' = next
                /\ copies' = Count(SubSeq(needed, k, Len(needed)))
                /\ written' = written \cup Elements(SubSeq(needed, k, Len(needed)))
    BY <1>1, <1>3, <1>4, <1>7, <1>8, Zenon DEF N
  <1> QED
    BY <1>1, <1>5, <1>6, <1>8, Zenon DEF Transmit

-----------------------------------------------------------------------------
(* processRequestQueue keeps the invariant *)

\* The numbers given to the messages sent are new, and a request completes with success
\* here only if it expects no reply.
LEMMA ProcessNumbers ==
    ASSUME Inv, NEW q, Queueable(q), NEW expired, Process(q, expired),
           tasks' \in Seq(Tasks),
           Scheduled' \cap (Elements(q) \cup Elements(running)) = {},
           \A r \in Scheduled' : done[r] = <<>>,
           \A i, j \in DOMAIN tasks' : tasks'[i] = tasks'[j] /\ tasks'[i][1] = "request" => i = j
    PROVE  Numbers' /\ OwnReply'
  <1> DEFINE fate(r) == Fate(r, q, expired)
             Sent == {r \in Elements(q) : fate(r) = "send"}
  <1>1. LinkTypes /\ Types /\ Placed /\ Numbers /\ OwnReply /\ Distinct(running)
    BY DEF Inv, Placed
  <1>2. Elements(q) \subseteq Requests /\ Elements(running) \subseteq Requests
        /\ written \subseteq Requests /\ seq \in Nat /\ req \in [Requests -> Fields]
    BY <1>1, SMTT(30) DEF Types, Queueable, Elements
  <1>3. /\ Elements(running') =
              {r \in Elements(running) : fate(r) \in {"resend", "retry", "wait"}}
              \cup {r \in Elements(q) : fate(r) = "send" /\ r \in Acked}
        /\ Elements(queue') = {r \in Elements(q) : fate(r) = "wait"}
    BY <1>1, ProcessLists, Zenon
  <1>4. /\ req' \in [Requests -> Fields] /\ seq' \in Nat /\ seq <= seq'
        /\ \A r \in Requests :
              /\ req'[r].flag = req[r].flag
              /\ fate(r) # "send" => req'[r].seq = req[r].seq
              /\ fate(r) = "send" => seq <= req'[r].seq /\ req'[r].seq < seq'
        /\ \A r, p \in Requests :
              fate(r) = "send" /\ fate(p) = "send" /\ req'[r].seq = req'[p].seq => r = p
    BY <1>1, ProcessFields, SMTT(30)
  <1>5. \A r \in Requests :
           /\ r \in Elements(q) \cup Elements(running)
                 => r \in Elements(queue') \cup Elements(running') \/ done'[r] # <<>>
           /\ r \in Elements(q) \cup Elements(running) /\ done'[r] = <<"OK">>
                 => fate(r) = "send" /\ r \notin Acked
           /\ r \notin Elements(q) \cup Elements(running) => done'[r] = done[r]
           /\ done[r] # <<>> => done'[r] # <<>>
    BY <1>1, ProcessPlaces, Zenon
  <1>6. /\ written' \subseteq written \cup {r \in Elements(q) \cup Elements(running) :
                                               fate(r) \in {"resend", "send"}}
        /\ replied' = replied
    BY <1>1, ProcessStream, Zenon
  <1>7. \A r \in Elements(running) : fate(r) # "send" /\ r \notin Elements(q)
    BY Fates, Zenon DEF Queueable
  <1>8. \A r \in Elements(q) : fate(r) # "resend" /\ r \notin Elements(running)
    BY Fates, Zenon DEF Queueable
  <1>9. \A r : r \notin Elements(q) => fate(r) # "send"
    BY <1>7, Fates, Zenon
  <1>10. \A r \in Numbered : r \notin Elements(q)
    <2>1. \A r \in written : r \in Elements(running) \/ done[r] # <<>>
      BY <1>1, Zenon DEF Numbers
    <2> QED
      BY <1>7, <2>1, Zenon DEF Numbered, Queueable
  <1> HIDE DEF fate
  <1>11. Numbered' \subseteq Numbered \cup Sent
    BY <1>3, <1>6, <1>7, <1>8, Zenon DEF Numbered
  <1>12. Numbered \cup Sent \subseteq Requests
    BY <1>2, Zenon DEF Numbered
  <1>13. ASSUME NEW r \in written'
         PROVE  r \in Elements(running') \/ done'[r] # <<>>
    <2>1. CASE r \in Elements(q) /\ fate(r) = "send"
      BY <1>2, <1>3, <1>5, <2>1, Zenon
    <2>2. CASE r \in Elements(running)
      BY <1>2, <1>3, <1>5, <1>7, <2>2, Zenon
    <2>3. CASE r \in written
      <3>1. CASE done[r] # <<>>
        BY <1>2, <1>5, <2>3, <3>1, Zenon
      <3> QED
        BY <1>1, <2>2, <2>3, <3>1, Zenon DEF Numbers
    <2> QED
      BY <1>6, <1>8, <1>13, <2>1, <2>2, <2>3, Zenon
  <1>14. ASSUME NEW r \in Numbered'
         PROVE  /\ req'[r].seq \in Nat /\ req'[r].seq < seq'
                /\ r \in Numbered => req'[r].seq = req[r].seq /\ req'[r].seq < seq
                /\ r \in Sent => seq <= req'[r].seq /\ fate(r) = "send"
    <2>1. r \in Requests /\ req'[r] \in Fields /\ req[r] \in Fields
      BY <1>2, <1>4, <1>11, <1>12, Zenon
    <2>2. req'[r].seq \in Nat /\ req[r].seq \in Nat
      BY <2>1, Zenon DEF Fields
    <2>3. CASE r \in Numbered
      <3>1. req[r].seq < seq /\ r \notin Elements(q)
        BY <1>1, <1>10, <2>3, Zenon DEF Numbers
      <3> QED
        BY <1>2, <1>4, <1>9, <2>1, <2>2, <3>1, SMTT(30)
    <2>4. CASE r \in Sent /\ r \notin Numbered
      BY <1>4, <2>1, <2>2, <2>4
    <2> QED
      BY <1>11, <2>3, <2>4, Zenon
  <1>15. ASSUME NEW r \in Numbered', NEW p \in Numbered', req'[r].seq = req'[p].seq
         PROVE  r = p
    <2>1. r \in Requests /\ p \in Requests
      BY <1>11, <1>12, Zenon
    <2>2. CASE r \in Numbered /\ p \in Numbered
      BY <1>1, <1>14, <1>15, <2>2, Zenon DEF Numbers
    <2>3. CASE r \in Sent /\ p \in Sent
      BY <1>4, <1>15, <2>1, <2>3, ZenonT(30)
    <2>4. CASE r \in Numbered /\ p \in Sent
      BY <1>2, <1>14, <1>15, <2>4, SMTT(30)
    <2>5. CASE r \in Sent /\ p \in Numbered
      BY <1>2, <1>14, <1>15, <2>5
    <2> QED
      BY <1>11, <2>2, <2>3, <2>4, <2>5, Zenon
  <1>16. Numbers'
    BY <1>13, <1>14, <1>15, Zenon DEF Numbers
  <1>17. ASSUME NEW r \in Requests, done'[r] = <<"OK">>
         PROVE  r \in replied' \/ req'[r].flag = "WithoutAck"
    <2>1. CASE r \in Elements(q) \cup Elements(running)
      BY <1>4, <1>5, <1>17, <2>1, ZenonT(30) DEF Acked
    <2>2. CASE r \notin Elements(q) \cup Elements(running)
      BY <1>1, <1>4, <1>5, <1>6, <1>17, <2>2 DEF OwnReply
    <2> QED
      BY <2>1, <2>2, Zenon
  <1> QED
    BY <1>16, <1>17 DEF OwnReply

\* What waits afterwards is in the stream, and nothing is left for the connection there is.
LEMMA ProcessWaiting ==
    ASSUME Inv, NEW q, Queueable(q), NEW expired, Process(q, expired),
           token # 0 => handshake # "Idel", phase' = "tasks"
    PROVE  Tokens' /\ WaitingMeansSent' /\ RunningHasConnection' /\ Settled'
  <1> DEFINE fate(r) == Fate(r, q, expired)
  <1>1. /\ LinkTypes /\ LinkInv /\ Types /\ Distinct(running) /\ Tokens
        /\ RunningHasConnection /\ WaitingMeansSent
    BY DEF Inv, Placed
  <1>2. Elements(q) \subseteq Requests /\ Elements(running) \subseteq Requests
        /\ token \in Nat /\ next \in Nat /\ token < next
    BY <1>1 DEF Types, LinkTypes, LinkInv, Queueable, Elements
  <1>3. /\ Elements(running') =
              {r \in Elements(running) : fate(r) \in {"resend", "retry", "wait"}}
              \cup {r \in Elements(q) : fate(r) = "send" /\ r \in Acked}
        /\ Elements(queue') = {r \in Elements(q) : fate(r) = "wait"}
        /\ running' \in Seq(Requests) /\ queue' \in Seq(Requests)
    BY <1>1, ProcessLists, ZenonT(30)
  <1>4. \A r \in Requests :
           /\ req'[r].flag = req[r].flag
           /\ req'[r].token = IF fate(r) \in {"resend", "send"} THEN token ELSE req[r].token
    BY <1>1, ProcessFields
  <1>5. /\ copies' \in [Requests -> Nat] /\ copies \in [Requests -> Nat]
        /\ token' \in {token, 0} /\ next' = next /\ handshake' \in {Touched(q), Demoted}
        /\ token' # 0 => /\ handshake' = Touched(q)
                         /\ \A r \in Requests : copies[r] <= copies'[r]
                         /\ \A r \in Elements(q) \cup Elements(running) :
                               fate(r) \in {"resend", "send"} => copies'[r] > 0
    BY <1>1, ProcessStream, Zenon DEF Types
  <1>6. \A r \in Elements(running) : /\ r \notin Elements(q)
                                     /\ fate(r) \in {"retry", "wait"} => ~MustResend(r, Touched(q))
    BY Fates DEF Queueable
  <1>7. \A r \in Elements(q) : /\ r \notin Elements(running)
                               /\ fate(r) = "wait" <=> handshake = "Idel"
    BY Fates, Zenon DEF Queueable
  <1>8. handshake # "Idel" => Touched(q) # "Idel" /\ Demoted # "Idel"
    BY DEF Touched, Demoted
  <1> HIDE DEF fate
  <1>9. Tokens'
    BY <1>1, <1>2, <1>4, <1>5, Zenon DEF Tokens
  <1>10. WaitingMeansSent'
    <2> SUFFICES ASSUME NEW r \in Elements(running'), token' # 0, req'[r].token = token'
                 PROVE  copies'[r] > 0
      BY Zenon DEF WaitingMeansSent
    <2>1. r \in Requests /\ token' = token
      BY <1>2, <1>3, <1>5, Zenon
    <2>2. CASE fate(r) \in {"resend", "send"}
      BY <1>3, <1>5, <2>2, Zenon
    <2>3. CASE fate(r) \notin {"resend", "send"}
      <3>1. r \in Elements(running) /\ req[r].token = token
        BY <1>3, <1>4, <2>1, <2>3, Zenon
      <3>2. copies[r] > 0
        BY <1>1, <2>1, <3>1, Zenon DEF WaitingMeansSent
      <3>3. copies[r] <= copies'[r] /\ copies[r] \in Nat /\ copies'[r] \in Nat
        BY <1>5, <2>1
      <3> QED
        BY <3>2, <3>3
    <2> QED
      BY <2>2, <2>3, Zenon
  <1>11. RunningHasConnection'
    <2> SUFFICES ASSUME running' # <<>>
                 PROVE  handshake' # "Idel"
      BY DEF RunningHasConnection
    <2>1. PICK r : r \in Elements(running')
      BY <1>3 DEF Elements
    <2>2. CASE r \in Elements(running)
      <3>1. running # <<>>
        BY <2>2 DEF Elements
      <3> QED
        BY <1>1, <1>5, <1>8, <3>1 DEF RunningHasConnection
    <2>3. CASE r \in Elements(q) /\ fate(r) = "send"
      BY <1>5, <1>7, <1>8, <2>3
    <2> QED
      BY <1>3, <2>1, <2>2, <2>3
  <1>12. Settled'
    <2>1. token' # 0 => queue' = <<>> /\ handshake' # "Idel"
      <3> SUFFICES ASSUME token' # 0
                   PROVE  queue' = <<>> /\ handshake' # "Idel"
        OBVIOUS
      <3>1. handshake # "Idel"
        BY <1>5
      <3>2. Elements(queue') = {}
        BY <1>3, <1>7, <3>1
      <3>3. queue' = <<>>
        BY <1>3, <3>2 DEF Elements
      <3> QED
        BY <1>5, <1>8, <3>1, <3>3
    <2>2. ASSUME NEW r \in Elements(running'), MustResend(r, handshake)'
          PROVE  FALSE
      <3>1. /\ token' > 0 /\ token' # req'[r].token
            /\ handshake' = "Successed" \/ req'[r].flag = "WithoutLogin"
        BY <2>2, Zenon DEF MustResend
      <3>2. token' = token /\ handshake' = Touched(q) /\ r \in Requests
        BY <1>2, <1>3, <1>5, <3>1, SMTT(30)
      <3>3. fate(r) \notin {"resend", "send"} /\ req[r].token = req'[r].token
        BY <1>4, <3>1, <3>2
      <3>4. r \in Elements(running) /\ fate(r) \in {"retry", "wait"}
        BY <1>3, <3>3
      <3>5. MustResend(r, Touched(q))
        BY <1>4, <3>1, <3>2, <3>3 DEF MustResend
      <3> QED
        BY <1>6, <3>4, <3>5
    <2> QED
      BY <2>1, <2>2 DEF Settled
  <1> QED
    BY <1>9, <1>10, <1>11, <1>12, ZenonT(30)

\* The whole invariant, with what is in the task list afterwards.
LEMMA ProcessInv ==
    ASSUME Inv, NEW q, Queueable(q), NEW expired, Process(q, expired),
           token # 0 => handshake # "Idel", phase' = "tasks",
           tasks' \in Seq(Tasks),
           Scheduled' \cap (Elements(q) \cup Elements(running)) = {},
           \A r \in Scheduled' : done[r] = <<>>,
           \A i, j \in DOMAIN tasks' : tasks'[i] = tasks'[j] /\ tasks'[i][1] = "request" => i = j
    PROVE  Inv' /\ [LinkNext]_linkVars
  <1>1. /\ LinkTypes /\ LinkFlags /\ LinkInv /\ Types /\ Placed /\ Distinct(running)
        /\ RunningHasConnection
    BY DEF Inv, Placed
  <1>2. [LinkNext]_linkVars
    BY <1>1, ProcessLink, Zenon
  <1>3. LinkTypes' /\ LinkFlags' /\ LinkInv'
    BY <1>1, <1>2, LinkKeeps, Zenon
  <1>4. Placed' /\ done' \in [Requests -> Seq(Codes)]
    BY <1>1, ProcessPlaces, Zenon
  <1>5. Types'
    <2>1. running' \in Seq(Requests) /\ queue' \in Seq(Requests)
      BY <1>1, ProcessLists
    <2>2. req' \in [Requests -> Fields] /\ seq' \in Nat
      BY <1>1, ProcessFields, Zenon
    <2>3. written' \subseteq Requests /\ copies' \in [Requests -> Nat] /\ replied' = replied
      BY <1>1, ProcessStream, ZenonT(30)
    <2> QED
      BY <1>1, <1>4, <2>1, <2>2, <2>3, Zenon DEF Types
  <1>6. Numbers' /\ OwnReply'
    BY ProcessNumbers
  <1>7. Tokens' /\ WaitingMeansSent' /\ RunningHasConnection' /\ Settled'
    BY ProcessWaiting, Zenon
  <1> QED
    BY <1>2, <1>3, <1>4, <1>5, <1>6, <1>7, ZenonT(30) DEF Inv

\* The requests that processRequestQueue starts with: q in requestsQueue, and the tasks
\* that are left.
Ready(q) ==
    /\ Queueable(q) /\ phase' = "tasks"
    /\ token # 0 => handshake # "Idel"
    /\ Elements(queue) \subseteq Elements(q) /\ Scheduled \subseteq Scheduled' \cup Elements(q)
    /\ tasks' \in Seq(Tasks)
    /\ Scheduled' \cap (Elements(q) \cup Elements(running)) = {}
    /\ \A r \in Scheduled' : done[r] = <<>>
    /\ \A i, j \in DOMAIN tasks' : tasks'[i] = tasks'[j] /\ tasks'[i][1] = "request" => i = j

\* The service of the end of a round.
LEMMA ServiceReady ==
    ASSUME Inv, NEW expired, Service(expired)
    PROVE  Process(queue, expired) /\ Ready(queue)
  <1>1. Types /\ Placed /\ LinkInv
    BY DEF Inv
  <1>2. /\ phase' = "tasks" /\ tasks' = tasks /\ Process(queue, expired)
        /\ ~(uin # 0 /\ handshake = "Idel")
    BY DEF Service
  <1>3. Queueable(queue)
    BY <1>1, Zenon DEF Queueable, Types, Placed, InFlight
  <1>4. token # 0 => handshake # "Idel"
    BY <1>1, <1>2 DEF LinkInv
  <1>5. Scheduled' = Scheduled
    BY <1>2 DEF Scheduled
  <1>6. /\ tasks' \in Seq(Tasks)
        /\ Scheduled' \cap (Elements(queue) \cup Elements(running)) = {}
        /\ \A r \in Scheduled' : done[r] = <<>>
        /\ \A i, j \in DOMAIN tasks' : tasks'[i] = tasks'[j] /\ tasks'[i][1] = "request" => i = j
    BY <1>1, <1>2, <1>5, Zenon DEF Types, Placed, InFlight
  <1> QED
    BY <1>2, <1>3, <1>4, <1>5, <1>6 DEF Ready

\* The task list without its first task.
LEMMA TaskTaken ==
    ASSUME Types, Placed, tasks # <<>>, tasks' = Tail(tasks)
    PROVE  /\ tasks' \in Seq(Tasks) /\ Head(tasks) \in Tasks
           /\ Len(tasks') = Len(tasks) - 1 /\ Len(tasks) \in Nat
           /\ \A i \in 1 .. Len(tasks') : tasks'[i] = tasks[i + 1] /\ i + 1 \in 1 .. Len(tasks)
           /\ \A i, j \in DOMAIN tasks' : tasks'[i] = tasks'[j] /\ tasks'[i][1] = "request" => i = j
           /\ Scheduled' \subseteq Scheduled
           /\ Head(tasks)[1] = "request" => /\ Head(tasks)[2] \in Scheduled \cap Requests
                                            /\ Head(tasks)[2] \notin Scheduled'
           /\ Scheduled \subseteq Scheduled' \cup {Head(tasks)[2]}
           /\ Head(tasks)[1] # "request" => Scheduled' = Scheduled
  <1>1. tasks \in Seq(Tasks) /\ Len(tasks) \in Nat /\ Len(tasks) > 0
    BY DEF Types
  <1>2. /\ tasks' \in Seq(Tasks) /\ Head(tasks) \in Tasks /\ Head(tasks) = tasks[1]
        /\ Len(tasks') = Len(tasks) - 1
        /\ DOMAIN tasks' = 1 .. Len(tasks') /\ DOMAIN tasks = 1 .. Len(tasks)
    BY <1>1
  <1>3. \A i \in 1 .. Len(tasks') : tasks'[i] = tasks[i + 1] /\ i + 1 \in 1 .. Len(tasks)
    BY <1>1, <1>2
  <1>4. \A i, j \in DOMAIN tasks : tasks[i] = tasks[j] /\ tasks[i][1] = "request" => i = j
    BY DEF Placed
  <1>5. \A i, j \in DOMAIN tasks' : tasks'[i] = tasks'[j] /\ tasks'[i][1] = "request" => i = j
    <2> TAKE i, j \in DOMAIN tasks'
    <2>1. tasks'[i] = tasks[i + 1] /\ tasks'[j] = tasks[j + 1]
          /\ i + 1 \in DOMAIN tasks /\ j + 1 \in DOMAIN tasks /\ i \in Nat /\ j \in Nat
      BY <1>1, <1>2, <1>3
    <2> QED
      BY <1>4, <2>1
  <1>6. \A t \in Tasks : t[1] = "request" => t = <<"request", t[2]>> /\ t[2] \in Requests
    BY DEF Tasks
  <1>7. ASSUME NEW r \in Scheduled'
        PROVE  \E i \in 2 .. Len(tasks) : tasks[i][1] = "request" /\ tasks[i][2] = r
    <2>1. PICK i \in DOMAIN tasks' : tasks'[i][1] = "request" /\ tasks'[i][2] = r
      BY <1>7 DEF Scheduled
    <2>2. i + 1 \in 2 .. Len(tasks) /\ tasks'[i] = tasks[i + 1]
      BY <1>1, <1>2, <1>3, <2>1
    <2> QED
      BY <2>1, <2>2
  <1>8. Scheduled' \subseteq Scheduled
    <2>1. 2 .. Len(tasks) \subseteq DOMAIN tasks
      BY <1>1, <1>2
    <2> QED
      BY <1>7, <2>1 DEF Scheduled
  <1>9. ASSUME Head(tasks)[1] = "request"
        PROVE  Head(tasks)[2] \in Scheduled \cap Requests /\ Head(tasks)[2] \notin Scheduled'
    <2>1. 1 \in DOMAIN tasks
      BY <1>1, <1>2
    <2>2. Head(tasks)[2] \in Scheduled \cap Requests
      BY <1>2, <1>6, <1>9, <2>1 DEF Scheduled
    <2>3. ASSUME Head(tasks)[2] \in Scheduled'
          PROVE  FALSE
      <3>1. PICK i \in 2 .. Len(tasks) : tasks[i][1] = "request" /\ tasks[i][2] = tasks[1][2]
        BY <1>2, <1>7, <2>3
      <3>2. tasks[i] \in Tasks /\ i \in DOMAIN tasks /\ i # 1
        BY <1>1, <1>2, <3>1
      <3>3. tasks[i] = tasks[1]
        BY <1>2, <1>6, <1>9, <3>1, <3>2
      <3> QED
        BY <1>4, <2>1, <3>1, <3>2, <3>3
    <2> QED
      BY <2>2, <2>3
  <1>10. ASSUME NEW r \in Scheduled, Head(tasks)[1] # "request" \/ r # Head(tasks)[2]
         PROVE  r \in Scheduled'
    <2>1. PICK i \in DOMAIN tasks : tasks[i][1] = "request" /\ tasks[i][2] = r
      BY <1>10 DEF Scheduled
    <2>2. i # 1 /\ i \in 1 .. Len(tasks)
      BY <1>2, <1>10, <2>1
    <2>3. i - 1 \in DOMAIN tasks' /\ tasks'[i - 1] = tasks[i]
      BY <1>1, <1>2, <1>3, <2>2
    <2> QED
      BY <2>1, <2>3 DEF Scheduled
  <1> QED
    BY <1>1, <1>2, <1>3, <1>5, <1>8, <1>9, <1>10, Zenon

\* The task that senRequest schedules.
LEMMA RunRequestReady ==
    ASSUME Inv, RunRequest
    PROVE  LET q == Append(queue, Head(tasks)[2])
           IN  /\ \E expired \in Expiries : Process(q, expired)
               /\ Ready(q) /\ Elements(q) = Elements(queue) \cup {Head(tasks)[2]}
  <1> DEFINE r == Head(tasks)[2]
             q == Append(queue, r)
  <1>1. Types /\ Placed /\ Settled
    BY DEF Inv
  <1>2. /\ phase = "tasks" /\ tasks # <<>> /\ Head(tasks)[1] = "request"
        /\ tasks' = Tail(tasks) /\ phase' = "tasks"
    BY DEF RunRequest
  <1>3. \E expired \in Expiries : Process(q, expired)
    BY DEF RunRequest
  <1>4. /\ tasks' \in Seq(Tasks)
        /\ Scheduled' \subseteq Scheduled /\ Scheduled \subseteq Scheduled' \cup {r}
        /\ r \in Scheduled \cap Requests /\ r \notin Scheduled'
        /\ \A i, j \in DOMAIN tasks' : tasks'[i] = tasks'[j] /\ tasks'[i][1] = "request" => i = j
    BY <1>1, <1>2, TaskTaken, Zenon
  <1> HIDE DEF r
  <1>5. /\ queue \in Seq(Requests) /\ Distinct(queue)
        /\ Elements(queue) \cap Elements(running) = {}
        /\ Scheduled \cap (Elements(queue) \cup Elements(running)) = {}
        /\ \A p \in Scheduled \cup Elements(queue) : done[p] = <<>>
    BY <1>1, Zenon DEF Types, Placed, InFlight
  <1>6. q \in Seq(Requests) /\ Elements(q) = Elements(queue) \cup {r} /\ Distinct(q)
    BY <1>4, <1>5, AppendList, SMTT(30)
  <1> HIDE DEF q
  <1>7. Queueable(q)
    BY <1>4, <1>5, <1>6 DEF Queueable
  <1>8. token # 0 => handshake # "Idel"
    BY <1>1, <1>2, Zenon DEF Settled
  <1>9. /\ Scheduled' \cap (Elements(q) \cup Elements(running)) = {}
        /\ \A p \in Scheduled' : done[p] = <<>>
    BY <1>4, <1>5, <1>6, Zenon
  <1> QED
    BY <1>2, <1>3, <1>4, <1>6, <1>7, <1>8, <1>9 DEF Ready, q, r

\* Both calls of processRequestQueue keep the invariant.
LEMMA ProcessKeeps ==
    ASSUME Inv, RunRequest \/ \E expired \in Expiries : Service(expired)
    PROVE  Inv' /\ [LinkNext]_linkVars
  <1>1. PICK q, expired : Process(q, expired) /\ Ready(q)
    BY RunRequestReady, ServiceReady
  <1> QED
    BY <1>1, ProcessInv DEF Ready

-----------------------------------------------------------------------------
(* The other steps keep the invariant *)

\* A step that leaves the requests alone has only the connection to answer for.
LEMMA RequestsAlone ==
    ASSUME Inv, UNCHANGED <<queue, running, req, seq, done, written, replied>>,
           [LinkNext]_linkVars, next <= next',
           tasks' \in Seq(Tasks), Scheduled' = Scheduled,
           \A i, j \in DOMAIN tasks' : tasks'[i] = tasks'[j] /\ tasks'[i][1] = "request" => i = j,
           copies' \in [Requests -> Nat],
           WaitingMeansSent', RunningHasConnection', Settled'
    PROVE  Inv'
  <1>1. LinkTypes' /\ LinkFlags' /\ LinkInv'
    BY LinkKeeps DEF Inv
  <1>2. Types'
    BY Zenon DEF Inv, Types
  <1>3. Placed'
    BY Zenon DEF Inv, Placed, InFlight
  <1>4. Numbers' /\ OwnReply'
    BY Zenon DEF Inv, Numbers, Numbered, OwnReply
  <1>5. Tokens'
    <2>1. \A r \in Requests : req[r].token \in Nat /\ req[r].token < next
      BY DEF Inv, Types, Fields, Tokens
    <2>2. next \in Nat /\ next' \in Nat
      BY <1>1 DEF Inv, LinkTypes
    <2> QED
      BY <2>1, <2>2, SMTT(30) DEF Tokens
  <1> QED
    BY <1>1, <1>2, <1>3, <1>4, <1>5 DEF Inv

\* What a task that is not a request does to the task list when it is added.
LEMMA TaskAdded ==
    ASSUME Types, Placed, NEW t \in Tasks, tasks' = Append(tasks, t)
    PROVE  /\ tasks' \in Seq(Tasks)
           /\ t[1] # "request" => Scheduled' = Scheduled
           /\ t[1] = "request" => Scheduled' = Scheduled \cup {t[2]}
           /\ \/ t[1] = "request" /\ t[2] \in Scheduled
              \/ \A i, j \in DOMAIN tasks' :
                    tasks'[i] = tasks'[j] /\ tasks'[i][1] = "request" => i = j
  <1> DEFINE n == Len(tasks)
  <1>1. tasks \in Seq(Tasks) /\ n \in Nat /\ DOMAIN tasks = 1 .. n
    BY DEF Types
  <1>2. /\ tasks' \in Seq(Tasks) /\ DOMAIN tasks' = 1 .. n + 1 /\ tasks'[n + 1] = t
        /\ \A i \in 1 .. n : tasks'[i] = tasks[i]
    BY <1>1
  <1>3. 1 .. n + 1 = (1 .. n) \cup {n + 1} /\ n + 1 \notin 1 .. n
    BY <1>1
  <1> HIDE DEF n
  <1>4. /\ t[1] # "request" => Scheduled' = Scheduled
        /\ t[1] = "request" => Scheduled' = Scheduled \cup {t[2]}
    BY <1>1, <1>2, <1>3, SMTT(30) DEF Scheduled
  <1>5. ASSUME ~(t[1] = "request" /\ t[2] \in Scheduled),
               NEW i \in DOMAIN tasks', NEW j \in DOMAIN tasks',
               tasks'[i] = tasks'[j], tasks'[i][1] = "request"
        PROVE  i = j
    <2>1. CASE i \in 1 .. n /\ j \in 1 .. n
      BY <1>1, <1>2, <1>5, <2>1, SMTT(30) DEF Placed
    <2>2. \A k \in 1 .. n : tasks[k][1] = "request" => tasks[k][2] \in Scheduled
      BY <1>1 DEF Scheduled
    <2>3. CASE i = n + 1 /\ j = n + 1
      BY <2>3
    <2>4. CASE i = n + 1 /\ j \in 1 .. n
      BY <1>2, <1>5, <2>2, <2>4
    <2>5. CASE j = n + 1 /\ i \in 1 .. n
      BY <1>2, <1>5, <2>2, <2>5
    <2> QED
      BY <1>2, <1>3, <2>1, <2>3, <2>4, <2>5, Zenon
  <1>6. \/ t[1] = "request" /\ t[2] \in Scheduled
        \/ \A i, j \in DOMAIN tasks' :
              tasks'[i] = tasks'[j] /\ tasks'[i][1] = "request" => i = j
    BY <1>5, Zenon
  <1> QED
    BY <1>2, <1>4, <1>6, Zenon

\* setUin, clearUp and setNetworkAvailable only schedule.
LEMMA ScheduleTaskKeeps ==
    ASSUME Inv, NEW t \in Tasks, t[1] # "request", ScheduleTask(t)
    PROVE  Inv' /\ [LinkNext]_linkVars
  <1>1. Types /\ Placed /\ WaitingMeansSent /\ RunningHasConnection /\ Settled
    BY DEF Inv
  <1>2. /\ tasks' = Append(tasks, t) /\ UNCHANGED <<linkVars, phase, copies>>
        /\ UNCHANGED <<queue, running, req, seq, done, written, replied>>
    BY DEF ScheduleTask
  <1>3. /\ tasks' \in Seq(Tasks) /\ Scheduled' = Scheduled
        /\ \A i, j \in DOMAIN tasks' : tasks'[i] = tasks'[j] /\ tasks'[i][1] = "request" => i = j
    BY <1>1, <1>2, TaskAdded
  <1>4. WaitingMeansSent' /\ RunningHasConnection' /\ Settled'
    BY <1>1, <1>2 DEF linkVars, WaitingMeansSent, RunningHasConnection, Settled, MustResend
  <1>5. next' = next /\ next \in Nat /\ copies' \in [Requests -> Nat]
    BY <1>2 DEF linkVars, Inv, LinkTypes, Types
  <1> QED
    BY <1>2, <1>3, <1>4, <1>5, RequestsAlone, SMTT(30)

\* The steps of the network thread that only move the thread or the connection.
LEMMA MovesKeep ==
    ASSUME Inv, EndTasks \/ EndEvents \/ HandshakeAccepted \/ Announced \/ ConnectionMoves
                \/ BeginHandshake
    PROVE  Inv' /\ [LinkNext]_linkVars
  <1>1. /\ LinkTypes /\ LinkInv /\ Types /\ Placed /\ Tokens
        /\ WaitingMeansSent /\ RunningHasConnection /\ Settled
    BY DEF Inv
  <1>2. /\ UNCHANGED <<queue, running, req, seq, done, written, replied>> /\ tasks' = tasks
        /\ copies' \in {copies, NoCopies}
    BY Zenon DEF EndTasks, EndEvents, HandshakeAccepted, Announced, ConnectionMoves, BeginHandshake,
           queueVars
  <1>3. Scheduled' = Scheduled /\ tasks' \in Seq(Tasks)
        /\ \A i, j \in DOMAIN tasks' : tasks'[i] = tasks'[j] /\ tasks'[i][1] = "request" => i = j
    BY <1>1, <1>2 DEF Scheduled, Types, Placed
  <1>4. copies' \in [Requests -> Nat]
    BY <1>1, <1>2 DEF Types, NoCopies
  <1>5. ASSUME token' = 0, handshake # "Idel" => handshake' # "Idel"
        PROVE  WaitingMeansSent' /\ RunningHasConnection' /\ Settled'
    BY <1>1, <1>2, <1>5, SMTT(30) DEF WaitingMeansSent, RunningHasConnection, Settled, MustResend
  <1>6. ASSUME token' = token, copies' = copies, handshake # "Idel" => handshake' # "Idel"
        PROVE  WaitingMeansSent' /\ RunningHasConnection'
    BY <1>1, <1>2, <1>6, Zenon DEF WaitingMeansSent, RunningHasConnection
  <1>7. ASSUME [LinkNext]_linkVars, next <= next',
               WaitingMeansSent', RunningHasConnection', Settled'
        PROVE  Inv' /\ [LinkNext]_linkVars
    BY <1>2, <1>3, <1>4, <1>7, RequestsAlone
  <1>8. next \in Nat
    BY <1>1 DEF LinkTypes
  <1>9. CASE EndTasks
    <2>1. UNCHANGED linkVars /\ phase = "tasks" /\ phase' = "read" /\ copies' = copies
      BY <1>9 DEF EndTasks, queueVars
    <2>2. next' = next /\ token' = token /\ handshake' = handshake
      BY <2>1 DEF linkVars
    <2>3. Settled'
      BY <1>1, <1>2, <2>1, <2>2 DEF Settled
    <2> QED
      BY <1>6, <1>7, <1>8, <2>1, <2>2, <2>3
  <1>10. CASE EndEvents
    <2>1. UNCHANGED linkVars /\ phase \in {"read", "write"} /\ phase' = "service" /\ copies' = copies
      BY <1>10 DEF EndEvents, queueVars
    <2>2. next' = next /\ token' = token /\ handshake' = handshake
      BY <2>1 DEF linkVars
    <2>3. Settled'
      BY <1>1, <1>2, <2>1, <2>2 DEF Settled
    <2> QED
      BY <1>6, <1>7, <1>8, <2>1, <2>2, <2>3
  <1>11. CASE HandshakeAccepted
    <2>1. Accept /\ phase = "read" /\ phase' = "read" /\ copies' = copies
      BY <1>11 DEF HandshakeAccepted, queueVars
    <2>2. next' = next /\ token' = token /\ handshake' = "Successed"
      BY <2>1 DEF Accept
    <2>3. Settled'
      BY <1>1, <1>2, <2>1, <2>2 DEF Settled
    <2> QED
      BY <1>6, <1>7, <1>8, <2>1, <2>2, <2>3 DEF LinkNext
  <1>12. CASE Announced
    <2>1. Announce /\ phase' = "write" /\ copies' = IF open' THEN copies ELSE NoCopies
      BY <1>12 DEF Announced
    <2>2. next' = next + 1 /\ token = 0 /\ handshake # "Successed"
      BY <1>1, <2>1 DEF Announce, LinkInv
    <2>3. CASE token' = next /\ handshake' = handshake
      <3>1. WaitingMeansSent'
        <4>1. \A r \in Elements(running) : r \in Requests
          BY <1>1, SMTT(30) DEF Types, Elements
        <4>2. \A r \in Requests : req[r].token # next
          BY <1>1, <1>8 DEF Tokens, Types, Fields
        <4> QED
          BY <1>2, <2>3, <4>1, <4>2, Zenon DEF WaitingMeansSent
      <3>2. RunningHasConnection' /\ Settled'
        BY <1>1, <1>2, <2>1, <2>2, <2>3 DEF RunningHasConnection, Settled
      <3> QED
        BY <1>7, <1>8, <2>1, <2>2, <3>1, <3>2 DEF LinkNext
    <2>4. CASE token' = 0 /\ handshake' = Demoted
      BY <1>5, <1>7, <1>8, <2>1, <2>2, <2>4 DEF LinkNext, Demoted
    <2> QED
      BY <2>1, <2>3, <2>4 DEF Announce
  <1>13. CASE ConnectionMoves
    <2>1. phase' = phase
      BY <1>13 DEF ConnectionMoves
    <2>2. CASE Open /\ copies' = copies
      <3>1. next' = next /\ token' = token /\ handshake' = handshake
        BY <2>2, Zenon DEF Open
      <3>2. Settled'
        BY <1>1, <1>2, <2>1, <3>1 DEF Settled, MustResend
      <3> QED
        BY <1>6, <1>7, <1>8, <2>2, <3>1, <3>2 DEF LinkNext
    <2>3. CASE Demote /\ copies' = copies
      <3>1. next' = next /\ token' = token /\ handshake' = "Ing" /\ handshake = "Successed"
        BY <2>3, Zenon DEF Demote
      <3>2. Settled'
        BY <1>1, <1>2, <2>1, <3>1 DEF Settled, MustResend
      <3> QED
        BY <1>6, <1>7, <1>8, <2>3, <3>1, <3>2 DEF LinkNext
    <2>4. CASE Close
      <3>1. next' = next /\ token' = 0 /\ handshake' = Demoted
        BY <2>4 DEF Close
      <3> QED
        BY <1>5, <1>7, <1>8, <2>4, <3>1 DEF LinkNext, Demoted
    <2> QED
      BY <1>13, <2>2, <2>3, <2>4 DEF ConnectionMoves
  <1>14. CASE BeginHandshake
    <2>1. Begin
      BY <1>14 DEF BeginHandshake
    <2>2. next' = next /\ token' = 0 /\ handshake' = "Ing"
      BY <2>1, Zenon DEF Begin
    <2> QED
      BY <1>5, <1>7, <1>8, <2>1, <2>2 DEF LinkNext
  <1> QED
    BY <1>9, <1>10, <1>11, <1>12, <1>13, <1>14

\* The tasks of setUin and setNetworkAvailable.
LEMMA RunOtherKeeps ==
    ASSUME Inv, RunOther
    PROVE  Inv' /\ [LinkNext]_linkVars
  <1>1. Types /\ Placed /\ WaitingMeansSent /\ RunningHasConnection /\ Settled
    BY DEF Inv
  <1>2. /\ tasks # <<>> /\ tasks' = Tail(tasks) /\ UNCHANGED <<phase, copies>>
        /\ UNCHANGED <<queue, running, req, seq, done, written, replied>>
    BY Zenon DEF RunOther
  <1>3. Head(tasks) \in Tasks
    BY <1>1, <1>2, TaskTaken
  <1>4. LinkNext /\ Head(tasks)[1] # "request" /\ UNCHANGED <<handshake, token, next>>
    <2>1. CASE Head(tasks)[1] = "login" /\ Login(Head(tasks)[2])
      <3>1. Head(tasks)[2] \in Uins
        BY <1>3, <2>1 DEF Tasks
      <3> QED
        BY <2>1, <3>1 DEF LinkNext, Login
    <2>2. CASE Head(tasks)[1] = "network" /\ Network(Head(tasks)[2])
      <3>1. Head(tasks)[2] \in BOOLEAN
        BY <1>3, <2>2 DEF Tasks
      <3> HIDE DEF Network
      <3>2. LinkNext
        BY <2>2, <3>1, Zenon DEF LinkNext
      <3> QED
        BY <2>2, <3>2 DEF Network
    <2> QED
      BY <2>1, <2>2 DEF RunOther
  <1>5. /\ tasks' \in Seq(Tasks) /\ Scheduled' = Scheduled
        /\ \A i, j \in DOMAIN tasks' : tasks'[i] = tasks'[j] /\ tasks'[i][1] = "request" => i = j
    BY <1>1, <1>2, <1>4, TaskTaken, ZenonT(30)
  <1>6. WaitingMeansSent' /\ RunningHasConnection' /\ Settled'
    BY <1>1, <1>2, <1>4 DEF WaitingMeansSent, RunningHasConnection, Settled, MustResend
  <1>7. next' = next /\ next \in Nat /\ copies' \in [Requests -> Nat]
    BY <1>2, <1>4 DEF Inv, LinkTypes, Types
  <1> QED
    BY <1>2, <1>4, <1>5, <1>6, <1>7, RequestsAlone

\* The code a request is refused or given up with on logout.
LEMMA Refused ==
    LET s == Append(<<>>, "WithoutLogin")
    IN  s \in Seq(Codes) /\ s # <<>> /\ s # <<"OK">> /\ Len(s) <= 1
  BY DEF Codes

\* senRequest.
LEMMA SenRequestKeeps ==
    ASSUME Inv, NEW r \in Requests, NEW f \in Flags, SenRequest(r, f)
    PROVE  Inv' /\ [LinkNext]_linkVars
  <1>1. /\ LinkTypes /\ LinkFlags /\ LinkInv /\ Types /\ Placed /\ Numbers /\ Tokens /\ Settled
        /\ RunningHasConnection /\ WaitingMeansSent /\ OwnReply
    BY DEF Inv
  <1>2. r \notin InFlight /\ done[r] = <<>>
    BY DEF SenRequest, Fresh
  <1>3. UNCHANGED <<linkVars, phase, queue, running, seq, copies, written, replied>>
    BY DEF SenRequest
  <1>4. /\ req' \in [Requests -> Fields]
        /\ \A p \in Requests : req'[p].token = req[p].token /\ req'[p].seq = req[p].seq
        /\ \A p \in Requests \ {r} : req'[p] = req[p]
    BY <1>1, Zenon DEF SenRequest, Types, Fields
  <1>5. [LinkNext]_linkVars /\ LinkTypes' /\ LinkFlags' /\ LinkInv'
    <2>1. [LinkNext]_linkVars
      BY <1>3
    <2> QED
      BY <1>1, <2>1, LinkKeeps
  <1>6. /\ done' \in [Requests -> Seq(Codes)]
        /\ \A p \in Requests \ {r} : done'[p] = done[p]
        /\ done'[r] # <<"OK">> /\ Len(done'[r]) <= 1
    <2>1. CASE done' = done
      BY <1>1, <1>2, <2>1 DEF Types
    <2>2. CASE done' = [done EXCEPT ![r] = Append(@, "WithoutLogin")]
      BY <1>1, <1>2, <2>2, Refused DEF Types
    <2> QED
      BY <2>1, <2>2 DEF SenRequest, Refusal
  <1>7. /\ tasks' \in Seq(Tasks)
        /\ \A i, j \in DOMAIN tasks' : tasks'[i] = tasks'[j] /\ tasks'[i][1] = "request" => i = j
        /\ Scheduled' \subseteq Scheduled \cup {r}
        /\ r \in Scheduled' => done'[r] = <<>>
    <2>1. CASE tasks' = tasks
      <3>1. Scheduled' = Scheduled
        BY <2>1 DEF Scheduled
      <3> QED
        BY <1>1, <1>2, <2>1, <3>1 DEF Types, Placed, InFlight
    <2>2. CASE tasks' = Append(tasks, <<"request", r>>) /\ done' = done
      <3>1. <<"request", r>> \in Tasks
        BY Zenon DEF Tasks
      <3>2. r \notin Scheduled
        BY <1>2 DEF InFlight
      <3> DEFINE t == <<"request", r>>
      <3>3. t[1] = "request" /\ t[2] = r
        OBVIOUS
      <3>4. t \in Tasks /\ tasks' = Append(tasks, t) /\ r \notin Scheduled
        BY <2>2, <3>1, <3>2, Zenon
      <3> HIDE DEF t
      <3>5. /\ tasks' \in Seq(Tasks) /\ Scheduled' = Scheduled \cup {r}
            /\ \A i, j \in DOMAIN tasks' : tasks'[i] = tasks'[j] /\ tasks'[i][1] = "request" => i = j
        BY <1>1, <3>3, <3>4, TaskAdded
      <3>6. done'[r] = <<>>
        BY <1>2, <2>2, Zenon
      <3> QED
        BY <3>5, <3>6, Zenon
    <2> QED
      BY <2>1, <2>2, ZenonT(30) DEF SenRequest
  <1>8. r \notin Elements(queue) /\ r \notin Elements(running) /\ r \notin written
    BY <1>1, <1>2, ZenonT(30) DEF Numbers, InFlight
  <1>9. Elements(queue) \subseteq Requests /\ Elements(running) \subseteq Requests
        /\ written \subseteq Requests /\ Scheduled \subseteq Requests
    <2>1. \A t \in Tasks : t[1] = "request" => t[2] \in Requests
      BY DEF Tasks
    <2> QED
      BY <1>1, <2>1, SMTT(30) DEF Types, Elements, Scheduled
  <1>10. Types'
    BY <1>1, <1>3, <1>4, <1>6, <1>7, Zenon DEF Types
  <1>11. Placed'
    <2>1. \A p \in InFlight' : done'[p] = <<>>
      BY <1>1, <1>3, <1>6, <1>7, <1>8, <1>9, Zenon DEF Placed, InFlight
    <2>2. \A p \in Requests : Len(done'[p]) <= 1
      BY <1>1, <1>6, Zenon DEF Placed
    <2>3. Elements(queue)' = Elements(queue) /\ Elements(running)' = Elements(running)
      BY <1>3, Zenon DEF Elements
    <2>4. Distinct(queue)' /\ Distinct(running)'
      BY <1>1, <1>3, ZenonT(30) DEF Placed, Distinct
    <2>5. Elements(queue)' \cap Elements(running)' = {}
      BY <1>1, <2>3 DEF Placed
    <2>6. Scheduled' \cap (Elements(queue)' \cup Elements(running)') = {}
      <3>1. Scheduled \cap (Elements(queue) \cup Elements(running)) = {}
        BY <1>1, Zenon DEF Placed
      <3>2. Scheduled' \subseteq Scheduled \cup {r}
        BY <1>7
      <3> QED
        BY <1>8, <2>3, <3>1, <3>2, ZenonT(30)
    <2> QED
      BY <1>7, <2>1, <2>2, <2>4, <2>5, <2>6, Zenon DEF Placed
  <1>12. Numbers' /\ OwnReply'
    <2>1. Numbers'
      <3>1. Numbered' = Numbered /\ Elements(running)' = Elements(running) /\ written' = written
            /\ seq' = seq
        BY <1>3 DEF Numbered, Elements
      <3>2. \A p \in Numbered : p \in Requests \ {r}
        BY <1>8, <1>9 DEF Numbered
      <3>3. \A p \in Numbered : req'[p] = req[p] /\ done'[p] = done[p]
        BY <1>4, <1>6, <3>2, Zenon
      <3>4. written \subseteq Numbered
        BY DEF Numbered
      <3> QED
        BY <1>1, <3>1, <3>3, <3>4 DEF Numbers
    <2>2. OwnReply'
      BY <1>1, <1>3, <1>4, <1>6, Zenon DEF OwnReply
    <2> QED
      BY <2>1, <2>2, ZenonT(30)
  <1>13. Tokens' /\ Settled' /\ RunningHasConnection' /\ WaitingMeansSent'
    BY <1>1, <1>3, <1>4, <1>8, <1>9, Zenon
    DEF Tokens, Settled, RunningHasConnection, WaitingMeansSent, MustResend, linkVars
  <1> QED
    BY <1>5, <1>10, <1>11, <1>12, <1>13 DEF Inv

\* clearUp.
LEMMA ClearUpKeeps ==
    ASSUME Inv, ClearUp
    PROVE  Inv' /\ [LinkNext]_linkVars
  <1> DEFINE R == Elements(queue) \cup Elements(running)
  <1>1. /\ LinkTypes /\ LinkFlags /\ LinkInv /\ Types /\ Placed /\ Numbers /\ Tokens /\ OwnReply
    BY DEF Inv
  <1>2. /\ tasks # <<>> /\ tasks' = Tail(tasks) /\ Head(tasks)[1] # "request" /\ Logout
        /\ queue' = <<>> /\ running' = <<>> /\ copies' = NoCopies
        /\ UNCHANGED <<req, seq, written, replied>>
    BY DEF ClearUp
  <1>3. [LinkNext]_linkVars /\ LinkTypes' /\ LinkFlags' /\ LinkInv'
    <2>1. [LinkNext]_linkVars
      BY <1>2 DEF LinkNext
    <2> QED
      BY <1>1, <2>1, LinkKeeps
  <1>4. token' = 0 /\ next' = next
    BY <1>2, Zenon DEF Logout
  <1>5. /\ tasks' \in Seq(Tasks) /\ Scheduled' = Scheduled
        /\ \A i, j \in DOMAIN tasks' : tasks'[i] = tasks'[j] /\ tasks'[i][1] = "request" => i = j
    BY <1>1, <1>2, TaskTaken
  <1>6. Elements(queue \o running) = R /\ R \subseteq Requests
    <2>1. queue \in Seq(Requests) /\ running \in Seq(Requests)
      BY <1>1 DEF Types
    <2>2. Elements(queue \o running) = R
      BY <2>1, ConcatList
    <2>3. Elements(queue) \subseteq Requests /\ Elements(running) \subseteq Requests
      BY <2>1 DEF Elements
    <2> QED
      BY <2>2, <2>3
  <1> HIDE DEF R
  <1>7. /\ done' \in [Requests -> Seq(Codes)]
        /\ \A r \in Requests : /\ r \in R => /\ done'[r] # <<>> /\ done'[r] # <<"OK">>
                                            /\ Len(done'[r]) <= 1
                               /\ r \notin R => done'[r] = done[r]
    <2>1. done' = [r \in Requests |-> IF r \in R THEN Append(done[r], "WithoutLogin") ELSE done[r]]
      BY <1>6 DEF ClearUp
    <2>2. done \in [Requests -> Seq(Codes)]
      BY <1>1, Zenon DEF Types
    <2>3. \A r \in R : done[r] = <<>>
      BY <1>1 DEF Placed, InFlight, R
    <2> QED
      BY <2>1, <2>2, <2>3, Refused, ZenonT(30)
  <1>8. Elements(queue') = {} /\ Elements(running') = {} /\ Distinct(queue') /\ Distinct(running')
    BY <1>2, EmptyList, Zenon
  <1>9. Types'
    BY <1>1, <1>2, <1>5, <1>7, SMTT(30) DEF Types, NoCopies
  <1>10. Placed'
    <2>1. InFlight' = Scheduled
      BY <1>5, <1>8 DEF InFlight
    <2>2. \A r \in Scheduled : done'[r] = <<>>
      <3>1. \A t \in Tasks : t[1] = "request" => t[2] \in Requests
        BY DEF Tasks
      <3>2. Scheduled \subseteq Requests
        BY <1>1, <3>1, SMTT(30) DEF Types, Scheduled
      <3> QED
        BY <1>1, <1>7, <3>2, Zenon DEF Placed, InFlight, R
    <2>3. \A r \in Requests : Len(done'[r]) <= 1
      BY <1>1, <1>7 DEF Placed
    <2> QED
      BY <1>5, <1>8, <2>1, <2>2, <2>3 DEF Placed
  <1>11. Numbers'
    <2>1. written \subseteq Requests
      BY <1>1, Zenon DEF Types
    <2> QED
      BY <1>1, <1>2, <1>7, <1>8, <2>1, ZenonT(30) DEF Numbers, Numbered, R
  <1>12. OwnReply' /\ Tokens'
    BY <1>1, <1>2, <1>4, <1>7 DEF OwnReply, Tokens
  <1>13. Settled' /\ RunningHasConnection' /\ WaitingMeansSent'
    BY <1>2, <1>4, <1>8 DEF Settled, RunningHasConnection, WaitingMeansSent
  <1> QED
    BY <1>3, <1>9, <1>10, <1>11, <1>12, <1>13 DEF Inv

\* What erasing one of the running requests leaves.
LEMMA Erased ==
    ASSUME running \in Seq(Requests), Distinct(running), NEW i \in DOMAIN running
    PROVE  /\ Erase(i) \in Seq(Requests) /\ Distinct(Erase(i))
           /\ Elements(Erase(i)) = Elements(running) \ {running[i]}
  <1> DEFINE n == Len(running)
             e == Erase(i)
  <1>1. n \in Nat /\ DOMAIN running = 1 .. n /\ i \in 1 .. n
    OBVIOUS
  <1>2. /\ e \in Seq(Requests) /\ Len(e) = n - 1 /\ DOMAIN e = 1 .. n - 1
        /\ \A k \in 1 .. n - 1 : e[k] = IF k < i THEN running[k] ELSE running[k + 1]
    <2> DEFINE a == SubSeq(running, 1, i - 1)
               b == SubSeq(running, i + 1, n)
    <2>1. /\ a \in Seq(Requests) /\ Len(a) = i - 1 /\ DOMAIN a = 1 .. i - 1
          /\ \A k \in 1 .. i - 1 : a[k] = running[k]
      BY <1>1
    <2>2. /\ b \in Seq(Requests) /\ Len(b) = n - i /\ DOMAIN b = 1 .. n - i
          /\ \A k \in 1 .. n - i : b[k] = running[k + i]
      <3>1. b \in Seq(Requests) /\ Len(b) = n - i
        BY <1>1
      <3>2. \A k \in 1 .. n - i : b[k] = running[i + 1 + k - 1]
        BY <1>1
      <3>3. \A k \in 1 .. n - i : i + 1 + k - 1 = k + i
        BY <1>1
      <3>4. DOMAIN b = 1 .. n - i
        BY <3>1
      <3> HIDE DEF b
      <3>5. \A k \in 1 .. n - i : b[k] = running[k + i]
        BY <3>2, <3>3, Zenon
      <3> QED
        BY <3>1, <3>4, <3>5
    <2>3. e = a \o b
      BY DEF Erase
    <2> HIDE DEF a, b, e
    <2>4. /\ e \in Seq(Requests) /\ Len(e) = Len(a) + Len(b)
          /\ \A k \in 1 .. Len(a) + Len(b) : e[k] = IF k <= Len(a) THEN a[k] ELSE b[k - Len(a)]
      <3>1. a \in Seq(Requests) /\ b \in Seq(Requests)
        BY <2>1, <2>2
      <3> QED
        BY <2>3, <3>1
    <2>5. Len(a) + Len(b) = n - 1
      BY <1>1, <2>1, <2>2
    <2>6. ASSUME NEW k \in 1 .. n - 1
          PROVE  e[k] = IF k < i THEN running[k] ELSE running[k + 1]
      <3>1. CASE k < i
        BY <1>1, <2>1, <2>4, <2>5, <2>6, <3>1
      <3>2. CASE ~(k < i)
        <4>1. k - Len(a) \in 1 .. n - i /\ k - Len(a) + i = k + 1 /\ ~(k <= Len(a))
          BY <1>1, <2>1, <2>6, <3>2
        <4> QED
          BY <2>2, <2>4, <2>5, <2>6, <3>2, <4>1, Zenon
      <3> QED
        BY <3>1, <3>2, Zenon
    <2> QED
      BY <2>4, <2>5, <2>6
  <1> HIDE DEF e, n
  <1>0. /\ \A j, k \in 1 .. n : running[j] = running[k] => j = k
        /\ \A k \in 1 .. n - 1 : k \in 1 .. n /\ k + 1 \in 1 .. n /\ k \in Nat
    BY <1>1 DEF Distinct
  <1>3. Distinct(e)
    <2> SUFFICES ASSUME NEW j \in 1 .. n - 1, NEW k \in 1 .. n - 1, e[j] = e[k]
                 PROVE  j = k
      BY <1>2, Zenon DEF Distinct
    <2>1. CASE j < i /\ k < i
      BY <1>0, <1>2, <2>1
    <2>2. CASE j < i /\ ~(k < i)
      BY <1>0, <1>1, <1>2, <2>2
    <2>3. CASE ~(j < i) /\ k < i
      BY <1>0, <1>1, <1>2, <2>3
    <2>4. CASE ~(j < i) /\ ~(k < i)
      BY <1>0, <1>2, <2>4
    <2> QED
      BY <2>1, <2>2, <2>3, <2>4, Zenon
  <1>4. ASSUME NEW r \in Elements(e)
        PROVE  r \in Elements(running) /\ r # running[i]
    <2>1. PICK k \in 1 .. n - 1 : r = e[k]
      BY <1>2, <1>4 DEF Elements
    <2>2. CASE k < i
      BY <1>0, <1>1, <1>2, <2>1, <2>2 DEF Elements
    <2>3. CASE ~(k < i)
      <3>1. r = running[k + 1] /\ k + 1 \in 1 .. n
        BY <1>0, <1>2, <2>1, <2>3
      <3>2. k + 1 # i
        BY <1>1, <2>1, <2>3
      <3>3. r # running[i]
        BY <1>0, <1>1, <3>1, <3>2, Zenon
      <3> QED
        BY <1>1, <3>1, <3>3, Zenon DEF Elements
    <2> QED
      BY <2>2, <2>3
  <1>5. ASSUME NEW r \in Elements(running), r # running[i]
        PROVE  r \in Elements(e)
    <2>1. PICK k \in 1 .. n : r = running[k]
      BY <1>1 DEF Elements
    <2>2. CASE k < i
      <3>1. k \in 1 .. n - 1 /\ e[k] = r
        BY <1>1, <1>2, <2>1, <2>2
      <3> QED
        BY <1>2, <3>1 DEF Elements
    <2>3. CASE k > i
      <3>1. k - 1 \in 1 .. n - 1 /\ ~(k - 1 < i) /\ k - 1 + 1 = k
        BY <1>1, <2>1, <2>3
      <3>2. e[k - 1] = r
        BY <1>2, <2>1, <3>1, Zenon
      <3> QED
        BY <1>2, <3>1, <3>2 DEF Elements
    <2> QED
      BY <1>1, <1>5, <2>1, <2>2, <2>3
  <1> QED
    BY <1>2, <1>3, <1>4, <1>5 DEF e

\* The running request that a reply finds by its number is the one it answers.
LEMMA Matched ==
    ASSUME Inv, NEW q \in written, Reply(q)
    PROVE  \/ UNCHANGED <<running, done>>
           \/ \E i \in DOMAIN running :
                 /\ running[i] = q /\ running' = Erase(i)
                 /\ done' = [done EXCEPT ![q] = Append(@, "OK")]
  <1> DEFINE M == {i \in DOMAIN running : req[running[i]].seq = req[q].seq}
             i == CHOOSE j \in M : \A k \in M : j <= k
  <1>1. \/ UNCHANGED <<running, done>>
        \/ /\ M # {} /\ running' = Erase(i)
           /\ done' = [done EXCEPT ![running[i]] = Append(@, "OK")]
    BY Zenon DEF Reply
  <1>2. \A j \in M : running[j] = q
    BY Zenon DEF Inv, Numbers, Numbered, Elements
  <1>3. running \in Seq(Requests) /\ Distinct(running)
    BY Zenon DEF Inv, Types, Placed
  <1>4. ASSUME NEW j \in M
        PROVE  \A k \in M : j <= k
    <2>1. \A k \in M : k = j
      BY <1>2, <1>3, <1>4, Zenon DEF Distinct
    <2>2. DOMAIN running \subseteq Nat /\ \A x \in Nat : x <= x
      BY <1>3
    <2> QED
      BY <1>4, <2>1, <2>2, Zenon
  <1>5. M # {} => i \in M
    BY <1>4
  <1> HIDE DEF i
  <1> QED
    BY <1>1, <1>2, <1>5

\* A reply.
LEMMA ReplyKeeps ==
    ASSUME Inv, NEW q \in Requests, Reply(q)
    PROVE  Inv' /\ [LinkNext]_linkVars
  <1>1. /\ LinkTypes /\ LinkFlags /\ LinkInv /\ Types /\ Placed /\ Numbers /\ Tokens /\ Settled
        /\ RunningHasConnection /\ WaitingMeansSent /\ OwnReply
    BY DEF Inv
  <1>2. /\ UNCHANGED <<linkVars, phase, tasks, queue, req, seq, copies, written>>
        /\ q \in written /\ replied' = replied \cup {q} /\ phase = "read"
    BY Zenon DEF Reply
  <1>3. [LinkNext]_linkVars /\ LinkTypes' /\ LinkFlags' /\ LinkInv'
    <2>1. [LinkNext]_linkVars
      BY <1>2, Zenon
    <2> QED
      BY <1>1, <2>1, LinkKeeps
  <1>4. Scheduled' = Scheduled
    BY <1>2, Zenon DEF Scheduled
  <1>5. running \in Seq(Requests) /\ Distinct(running) /\ done \in [Requests -> Seq(Codes)]
    BY <1>1 DEF Types, Placed
  <1>6. /\ running' \in Seq(Requests) /\ Distinct(running')
        /\ Elements(running') \subseteq Elements(running)
        /\ \A r \in Elements(running) \ {q} : r \in Elements(running')
        /\ done' \in [Requests -> Seq(Codes)]
        /\ \A r \in Requests \ {q} : done'[r] = done[r]
        /\ q \in Elements(running') => done'[q] = done[q]
        /\ done[q] # <<>> \/ q \notin Elements(running) => done'[q] = done[q]
        /\ q \in Elements(running) => q \in Elements(running') \/ done'[q] # <<>>
        /\ Len(done'[q]) <= 1
    <2>1. CASE UNCHANGED <<running, done>>
      BY <1>1, <1>5, <2>1, Zenon DEF Placed
    <2>2. ASSUME NEW i \in DOMAIN running, running[i] = q, running' = Erase(i),
                 done' = [done EXCEPT ![q] = Append(@, "OK")]
          PROVE  /\ running' \in Seq(Requests) /\ Distinct(running')
                 /\ Elements(running') = Elements(running) \ {q} /\ q \in Elements(running)
                 /\ done' \in [Requests -> Seq(Codes)]
                 /\ \A r \in Requests \ {q} : done'[r] = done[r]
                 /\ done[q] = <<>> /\ done'[q] # <<>> /\ Len(done'[q]) <= 1
      <3>1. q \in Elements(running)
        BY <2>2, ZenonT(30) DEF Elements
      <3>2. done[q] = <<>>
        BY <1>1, <3>1 DEF Placed, InFlight
      <3>3. /\ running' \in Seq(Requests) /\ Distinct(running')
            /\ Elements(running') = Elements(running) \ {q}
        BY <1>5, <2>2, Erased
      <3>4. /\ done' \in [Requests -> Seq(Codes)]
            /\ \A r \in Requests \ {q} : done'[r] = done[r]
            /\ done'[q] # <<>> /\ Len(done'[q]) <= 1
        BY <1>5, <2>2, <3>2 DEF Codes
      <3> QED
        BY <3>1, <3>2, <3>3, <3>4, Zenon
    <2>3. CASE \E i \in DOMAIN running :
                  /\ running[i] = q /\ running' = Erase(i)
                  /\ done' = [done EXCEPT ![q] = Append(@, "OK")]
      BY <2>2, <2>3, Zenon
    <2> QED
      BY <1>2, <2>1, <2>3, Matched, Zenon
  <1>7. Types'
    BY <1>1, <1>2, <1>6 DEF Types
  <1>8. Elements(running) \subseteq Requests /\ written \subseteq Requests
    <2>1. running \in Seq(Requests) /\ written \subseteq Requests
      BY <1>1, ZenonT(30) DEF Types
    <2> QED
      BY <2>1, ListOf, Zenon
  <1>9. q \in Elements(running) => q \notin Scheduled \cup Elements(queue)
    BY <1>1 DEF Placed
  <1>10. Placed'
    <2>1. \A r \in InFlight' : done'[r] = <<>>
      <3> TAKE r \in InFlight'
      <3>1. r \in Scheduled \cup Elements(queue) \cup Elements(running')
        BY <1>2, <1>4 DEF InFlight
      <3>2. r \in InFlight /\ done[r] = <<>> /\ r \in Requests
        <4>1. r \in InFlight
          BY <1>6, <3>1 DEF InFlight
        <4>2. \A t \in Tasks : t[1] = "request" => t[2] \in Requests
          BY Zenon DEF Tasks
        <4>3. InFlight \subseteq Requests
          BY <1>1, <4>2, SMTT(30) DEF Types, InFlight, Scheduled, Elements
        <4> QED
          BY <1>1, <4>1, <4>3, ZenonT(30) DEF Placed
      <3> QED
        BY <1>6, <1>9, <3>1, <3>2, Zenon
    <2>2. \A r \in Requests : Len(done'[r]) <= 1
      BY <1>1, <1>6, ZenonT(30) DEF Placed
    <2> QED
      BY <1>1, <1>2, <1>4, <1>6, <2>1, <2>2, Zenon DEF Placed
  <1>11. Numbers'
    <2>1. Numbered' \subseteq Numbered
      BY <1>2, <1>6, Zenon DEF Numbered
    <2>2. \A r \in written : r \in Elements(running') \/ done'[r] # <<>>
      BY <1>1, <1>6, <1>8, Zenon DEF Numbers
    <2> QED
      BY <1>1, <1>2, <2>1, <2>2 DEF Numbers
  <1>12. OwnReply' /\ Tokens'
    BY <1>1, <1>2, <1>6, ZenonT(30) DEF OwnReply, Tokens, linkVars
  <1>13. Settled' /\ RunningHasConnection' /\ WaitingMeansSent'
    <2>1. running' # <<>> => running # <<>>
      <3>1. running' # <<>> => Elements(running') # {}
        <4>1. running' \in Seq(Requests)
          BY <1>6, Zenon
        <4>2. running' # <<>> => 1 \in DOMAIN running'
          BY <4>1
        <4> QED
          BY <4>2, ZenonT(30) DEF Elements
      <3>2. Elements(running) # {} => running # <<>>
        BY <1>5 DEF Elements
      <3> QED
        BY <1>6, <3>1, <3>2, Zenon
    <2> QED
      BY <1>1, <1>2, <1>6, <2>1
      DEF Settled, RunningHasConnection, WaitingMeansSent, linkVars
  <1> QED
    BY <1>3, <1>7, <1>10, <1>11, <1>12, <1>13 DEF Inv

-----------------------------------------------------------------------------
(* The theorems *)

\* Every step keeps the invariant, and is a step of the link or leaves it alone.
LEMMA NextInv ==
    ASSUME Inv, [Next]_vars
    PROVE  Inv' /\ [LinkNext]_linkVars
  <1>1. CASE UNCHANGED vars
    <2>1. UNCHANGED linkVars /\ UNCHANGED <<uin, net, handshake, open, token, next>>
          /\ UNCHANGED phase /\ UNCHANGED queueVars
          /\ UNCHANGED <<tasks, queue, running, req, seq, done, copies, written, replied>>
      BY <1>1 DEF vars, linkVars, queueVars
    <2>2. /\ LinkTypes' /\ LinkFlags' /\ LinkInv'
          /\ Types' /\ Placed' /\ Numbers' /\ Tokens' /\ Settled'
          /\ RunningHasConnection' /\ WaitingMeansSent' /\ OwnReply'
      <3>1. LinkTypes' /\ LinkFlags' /\ LinkInv'
        BY <2>1, LinkKeeps, ZenonT(30) DEF Inv
      <3>2. Scheduled' = Scheduled /\ InFlight' = InFlight
        BY <2>1 DEF Scheduled, InFlight
      <3>3. Types' /\ Placed'
        BY <2>1, <3>2, Zenon DEF Inv, Types, Placed
      <3>4. Numbers' /\ Tokens' /\ Settled'
        BY <2>1, Zenon DEF Inv, Numbers, Numbered, Tokens, Settled, MustResend
      <3>5. RunningHasConnection' /\ WaitingMeansSent' /\ OwnReply'
        BY <2>1, Zenon DEF Inv, RunningHasConnection, WaitingMeansSent, OwnReply
      <3> QED
        BY <3>1, <3>3, <3>4, <3>5
    <2> QED
      BY <2>1, <2>2, Zenon DEF Inv
  <1>2. CASE JavaCalls
    BY <1>2, SenRequestKeeps, ScheduleTaskKeeps DEF JavaCalls
  <1>3. CASE RunRequest \/ \E expired \in Expiries : Service(expired)
    BY <1>3, ProcessKeeps
  <1>4. CASE ClearUp \/ RunOther \/ \E q \in Requests : Reply(q)
    BY <1>4, ClearUpKeeps, RunOtherKeeps, ReplyKeeps
  <1>5. CASE EndTasks \/ EndEvents \/ HandshakeAccepted \/ Announced \/ ConnectionMoves
             \/ BeginHandshake
    BY <1>5, MovesKeep, Zenon
  <1> QED
    BY <1>1, <1>2, <1>3, <1>4, <1>5, Zenon DEF Next, NetworkThread

-----------------------------------------------------------------------------
(* A request is completed once *)

\* Made and not yet completed, or completed.
Taken(r) == r \in InFlight \/ done[r] # <<>>

\* The places of a request, counted.
Counted == \A r \in Requests : Places(r) = IF Taken(r) THEN 1 ELSE 0

\* A request that was made is in one place.
LEMMA InvCounted ==
    Inv => Counted
  <1> SUFFICES ASSUME Inv, NEW r \in Requests
               PROVE  Places(r) = IF Taken(r) THEN 1 ELSE 0
    BY DEF Counted
  <1> DEFINE T == {i \in DOMAIN tasks : tasks[i] = <<"request", r>>}
  <1>1. Types /\ Placed
    BY DEF Inv
  <1>2. Count(queue)[r] = IF r \in Elements(queue) THEN 1 ELSE 0
    BY <1>1, CountOf, Zenon DEF Types, Placed
  <1>3. Count(running)[r] = IF r \in Elements(running) THEN 1 ELSE 0
    BY <1>1, CountOf DEF Types, Placed
  <1>4. Cardinality(T) = IF r \in Scheduled THEN 1 ELSE 0
    <2>1. \A t \in Tasks : t[1] = "request" => t = <<"request", t[2]>>
      BY DEF Tasks
    <2>2. tasks \in Seq(Tasks)
      BY <1>1 DEF Types
    <2>3. \A i \in DOMAIN tasks : tasks[i] \in Tasks
      BY <2>2
    <2>4. <<"request", r>>[1] = "request" /\ <<"request", r>>[2] = r
      BY Zenon
    <2>5. \A i \in DOMAIN tasks :
             tasks[i] = <<"request", r>> <=> tasks[i][1] = "request" /\ tasks[i][2] = r
      BY <2>1, <2>3, <2>4, Zenon
    <2>6. CASE r \notin Scheduled
      <3>1. T = {}
        BY <2>5, <2>6 DEF Scheduled
      <3> QED
        BY <2>6, <3>1, SmallSets, Zenon
    <2>7. CASE r \in Scheduled
      <3>1. PICK i \in DOMAIN tasks : tasks[i][1] = "request" /\ tasks[i][2] = r
        BY <2>7, Zenon DEF Scheduled
      <3>2. T = {i}
        BY <1>1, <2>5, <3>1 DEF Placed
      <3> QED
        BY <2>7, <3>2, SmallSets, Zenon
    <2> QED
      BY <2>6, <2>7
  <1>5. Len(done[r]) = IF done[r] # <<>> THEN 1 ELSE 0
    <2>1. done[r] \in Seq(Codes) /\ Len(done[r]) <= 1
      BY <1>1, Zenon DEF Types, Placed
    <2> QED
      BY <2>1, ShortList, Zenon
  <1>6. /\ ~(r \in Elements(queue) /\ r \in Elements(running))
        /\ ~(r \in Scheduled /\ r \in Elements(queue) \cup Elements(running))
        /\ r \in InFlight => done[r] = <<>>
    BY <1>1, Zenon DEF Placed
  <1>7. Places(r) = Cardinality(T) + Count(queue)[r] + Count(running)[r] + Len(done[r])
    BY Zenon DEF Places
  <1>8. Taken(r) <=> r \in Scheduled \/ r \in Elements(queue) \/ r \in Elements(running)
                       \/ done[r] # <<>>
    BY DEF Taken, InFlight
  <1>9. r \in InFlight <=> r \in Scheduled \/ r \in Elements(queue) \/ r \in Elements(running)
    BY Zenon DEF InFlight
  <1> DEFINE k == Cardinality(T)
             a == Count(queue)[r]
             b == Count(running)[r]
             d == Len(done[r])
  <1>10. /\ k \in {0, 1} /\ (k = 1 <=> r \in Scheduled)
         /\ a \in {0, 1} /\ (a = 1 <=> r \in Elements(queue))
         /\ b \in {0, 1} /\ (b = 1 <=> r \in Elements(running))
         /\ d \in {0, 1} /\ (d = 1 <=> done[r] # <<>>)
    <2>1. 0 # 1
      OBVIOUS
    <2>2. k \in {0, 1} /\ (k = 1 <=> r \in Scheduled)
      BY <1>4, <2>1, Zenon
    <2>3. a \in {0, 1} /\ (a = 1 <=> r \in Elements(queue))
      BY <1>2, <2>1, Zenon
    <2>4. b \in {0, 1} /\ (b = 1 <=> r \in Elements(running))
      BY <1>3, <2>1, Zenon
    <2>5. d \in {0, 1} /\ (d = 1 <=> done[r] # <<>>)
      BY <1>5, <2>1, Zenon
    <2> QED
      BY <2>2, <2>3, <2>4, <2>5, Zenon
  <1>11. /\ Taken(r) <=> k = 1 \/ a = 1 \/ b = 1 \/ d = 1
         /\ ~(a = 1 /\ b = 1) /\ ~(k = 1 /\ (a = 1 \/ b = 1))
         /\ k = 1 \/ a = 1 \/ b = 1 => d # 1
    <2> HIDE DEF T, k, a, b, d
    <2> QED
      BY <1>6, <1>8, <1>9, <1>10, Zenon
  <1> HIDE DEF T, k, a, b, d
  <1>12. k + a + b + d = IF k = 1 \/ a = 1 \/ b = 1 \/ d = 1 THEN 1 ELSE 0
    <2>1. k \in {0, 1} /\ a \in {0, 1} /\ b \in {0, 1} /\ d \in {0, 1}
      BY <1>10, Zenon
    <2> QED
      BY <1>11, <2>1
  <1> QED
    BY <1>7, <1>11, <1>12, Zenon DEF k, a, b, d

\* processRequestQueue loses no request.
LEMMA ProcessTaken ==
    ASSUME Types, Placed, NEW q, Ready(q), NEW expired, Process(q, expired),
           NEW r \in Requests, Taken(r)
    PROVE  Taken(r)'
  <1>1. /\ r \in Elements(q) \cup Elements(running)
              => r \in Elements(queue') \cup Elements(running') \/ done'[r] # <<>>
        /\ done[r] # <<>> => done'[r] # <<>>
    BY ProcessPlaces, Zenon DEF Ready
  <1> QED
    BY <1>1, Zenon DEF Taken, InFlight, Ready

\* A request that was taken stays with the manager until it is completed.
LEMMA TakenStays ==
    ASSUME Inv, [Next]_vars, NEW r \in Requests, Taken(r)
    PROVE  Taken(r)'
  <1>1. Types /\ Placed
    BY Zenon DEF Inv
  <1>2. ASSUME UNCHANGED <<queue, running, done>>, Scheduled \subseteq Scheduled'
        PROVE  Taken(r)'
    BY <1>2, Zenon DEF Taken, InFlight
  <1>3. ASSUME tasks' = tasks
        PROVE  Scheduled' = Scheduled
    BY <1>3 DEF Scheduled
  <1>4. CASE UNCHANGED vars \/ EndTasks \/ EndEvents \/ HandshakeAccepted \/ Announced
             \/ ConnectionMoves \/ BeginHandshake
    <2>1. UNCHANGED <<queue, running, done, tasks>>
      BY <1>4 DEF vars, queueVars, EndTasks, EndEvents, HandshakeAccepted, Announced,
                  ConnectionMoves, BeginHandshake
    <2> QED
      BY <1>2, <1>3, <2>1, Zenon
  <1>5. CASE \E p \in Requests, f \in Flags : SenRequest(p, f)
    <2>1. PICK p \in Requests, f \in Flags : SenRequest(p, f)
      BY <1>5
    <2>2. Scheduled \subseteq Scheduled'
      <3>1. CASE tasks' = tasks
        BY <1>3, <3>1, Zenon
      <3>2. CASE tasks' = Append(tasks, <<"request", p>>)
        <4>1. <<"request", p>> \in Tasks /\ <<"request", p>>[1] = "request"
          BY DEF Tasks
        <4> QED
          BY <1>1, <3>2, <4>1, TaskAdded
      <3> QED
        BY <2>1, <3>1, <3>2 DEF SenRequest
    <2>3. done[r] # <<>> => done'[r] # <<>>
      <3>1. done[p] = <<>> /\ done \in [Requests -> Seq(Codes)]
        BY <1>1, <2>1 DEF SenRequest, Fresh, Types
      <3> QED
        BY <2>1, <3>1 DEF SenRequest
    <2> QED
      BY <2>1, <2>2, <2>3 DEF SenRequest, Taken, InFlight
  <1>6. CASE \E t \in Tasks : t[1] # "request" /\ ScheduleTask(t)
    <2>1. PICK t \in Tasks : t[1] # "request" /\ ScheduleTask(t)
      BY <1>6
    <2>2. Scheduled' = Scheduled
      BY <1>1, <2>1, TaskAdded, Zenon DEF ScheduleTask
    <2> QED
      BY <1>2, <2>1, <2>2 DEF ScheduleTask
  <1>7. CASE RunRequest \/ \E expired \in Expiries : Service(expired)
    <2>1. PICK q, expired : Process(q, expired) /\ Ready(q)
      BY <1>7, RunRequestReady, ServiceReady
    <2> QED
      BY <1>1, <2>1, ProcessTaken
  <1>8. CASE ClearUp
    <2>1. Scheduled' = Scheduled
      BY <1>1, <1>8, TaskTaken, Zenon DEF ClearUp
    <2>2. Elements(queue \o running) = Elements(queue) \cup Elements(running)
      BY <1>1, ConcatList DEF Types
    <2>3. done'[r] = IF r \in Elements(queue) \cup Elements(running)
                     THEN Append(done[r], "WithoutLogin") ELSE done[r]
      BY <1>8, <2>2 DEF ClearUp
    <2>4. Append(done[r], "WithoutLogin") # <<>>
      <3>1. done[r] \in Seq(Codes) /\ "WithoutLogin" \in Codes
        BY <1>1 DEF Types, Codes
      <3> QED
        BY <3>1
    <2> QED
      BY <2>1, <2>3, <2>4 DEF Taken, InFlight
  <1>9. CASE RunOther
    <2>1. Scheduled' = Scheduled
      BY <1>1, <1>9, TaskTaken DEF RunOther
    <2> QED
      BY <1>2, <1>9, <2>1, Zenon DEF RunOther
  <1>10. CASE \E q \in Requests : Reply(q)
    <2>1. PICK q \in Requests : Reply(q)
      BY <1>10
    <2>2. q \in written /\ UNCHANGED <<tasks, queue>>
      BY <2>1, Zenon DEF Reply
    <2>3. CASE UNCHANGED <<running, done>>
      BY <1>2, <1>3, <2>2, <2>3, ZenonT(30)
    <2>4. ASSUME NEW i \in DOMAIN running, running[i] = q, running' = Erase(i),
                 done' = [done EXCEPT ![q] = Append(@, "OK")]
          PROVE  Taken(r)'
      <3>1. Elements(running') = Elements(running) \ {q}
        BY <1>1, <2>4, Erased, Zenon DEF Types, Placed
      <3>2. done'[q] # <<>> /\ (r # q => done'[r] = done[r])
        <4>1. done \in [Requests -> Seq(Codes)] /\ done[q] \in Seq(Codes) /\ "OK" \in Codes
          BY <1>1 DEF Types, Codes
        <4>2. Append(done[q], "OK") # <<>>
          BY <4>1
        <4> QED
          BY <2>4, <4>1, <4>2
      <3> QED
        BY <1>3, <2>2, <3>1, <3>2 DEF Taken, InFlight
    <2> QED
      BY <2>1, <2>2, <2>3, <2>4, Matched
  <1> QED
    BY <1>4, <1>5, <1>6, <1>7, <1>8, <1>9, <1>10 DEF Next, NetworkThread, JavaCalls

-----------------------------------------------------------------------------
(* A message without reply is alone in its batch *)

\* In processRequestQueue.
LEMMA ProcessAlone ==
    ASSUME Inv, NEW q, Ready(q), NEW expired, Process(q, expired),
           NEW r \in Requests, req[r].flag = "WithoutAck", done[r] = <<>>, done'[r] = <<"OK">>
    PROVE  /\ r \in Elements(q) /\ token # 0 /\ handshake = "Successed"
           /\ \A p \in Requests : \/ req'[p].token = req[p].token
                                  \/ p \in Elements(q)
                                  \/ p \in Elements(running) /\ MustResend(p, handshake)
  <1>1. LinkTypes /\ Types /\ Placed
    BY Zenon DEF Inv
  <1>2. Queueable(q)
    BY ZenonT(30) DEF Ready
  <1>3. /\ r \in Elements(q) \cup Elements(running) => Fate(r, q, expired) = "send"
        /\ r \notin Elements(q) \cup Elements(running) => done'[r] = done[r]
    <2>1. \A p \in Requests :
             /\ p \in Elements(q) \cup Elements(running) /\ done'[p] = <<"OK">>
                   => Fate(p, q, expired) = "send"
             /\ p \notin Elements(q) \cup Elements(running) => done'[p] = done[p]
      <3>1. /\ tasks' \in Seq(Tasks)
            /\ Scheduled' \cap (Elements(q) \cup Elements(running)) = {}
            /\ \A p \in Scheduled' : done[p] = <<>>
            /\ \A i, j \in DOMAIN tasks' : tasks'[i] = tasks'[j] /\ tasks'[i][1] = "request" => i = j
        BY Zenon DEF Ready
      <3>2. \A p \in Requests :
               /\ p \in Elements(q) \cup Elements(running) /\ done'[p] = <<"OK">>
                     => Fate(p, q, expired) = "send" /\ p \notin Acked
               /\ p \notin Elements(q) \cup Elements(running) => done'[p] = done[p]
        BY <1>1, <1>2, <3>1, ProcessPlaces, Zenon
      <3> QED
        BY <3>2, Zenon
    <2> QED
      BY <2>1
  <1>4. r \in Elements(q) /\ r \notin Elements(running) /\ Fate(r, q, expired) = "send"
    <2>1. <<"OK">> # <<>>
      OBVIOUS
    <2>2. r \in Elements(q) \cup Elements(running)
      BY <1>3, <2>1, Zenon
    <2>3. Fate(r, q, expired) = "send"
      BY <1>3, <2>2, Zenon
    <2>4. r \in Elements(running) => Fate(r, q, expired) \in {"ConnectFail", "resend", "Timeout", "RetryLimit", "retry", "wait"}
      BY Fates, Zenon
    <2> QED
      BY <2>2, <2>3, <2>4, Zenon
  <1>5. token # 0 /\ Touched(q) = "Successed"
    BY <1>4, Fates, Zenon
  <1>6. handshake = "Successed"
    BY <1>5, Zenon DEF Touched, Demoted
  <1>7. ASSUME NEW p \in Requests, req'[p].token # req[p].token, p \notin Elements(q)
        PROVE  p \in Elements(running) /\ MustResend(p, handshake)
    <2>1. Fate(p, q, expired) \in {"resend", "send"}
      BY <1>1, <1>2, <1>7, ProcessFields, Zenon
    <2> QED
      BY <1>5, <1>6, <1>7, <2>1, Fates, Zenon
  <1> QED
    BY <1>4, <1>5, <1>6, <1>7, Zenon

\* Of a request without reply that is destroyed, no other request takes the number of
\* the connection in the same step.
Alone == \A r \in Requests :
            req[r].flag = "WithoutAck" /\ done[r] = <<>> /\ done'[r] = <<"OK">>
            => \A q \in Requests \ {r} : req'[q].token = req[q].token

\* Every step is such a step.
LEMMA StepAlone ==
    ASSUME Inv, [Next]_vars
    PROVE  [Alone]_vars
  <1>1. ASSUME \A q \in Requests : req'[q].token = req[q].token
        PROVE  Alone
    BY <1>1 DEF Alone
  <1>2. CASE UNCHANGED vars
    BY <1>2
  <1>3. CASE ClearUp \/ RunOther \/ EndTasks \/ EndEvents \/ HandshakeAccepted \/ Announced
             \/ ConnectionMoves \/ BeginHandshake \/ (\E q \in Requests : Reply(q))
             \/ \E t \in Tasks : t[1] # "request" /\ ScheduleTask(t)
    <2>1. req' = req
      BY <1>3, Zenon DEF ClearUp, RunOther, EndTasks, EndEvents, HandshakeAccepted, Announced,
                  ConnectionMoves, BeginHandshake, Reply, ScheduleTask, queueVars
    <2> QED
      BY <1>1, <2>1
  <1>4. CASE \E r \in Requests, f \in Flags : SenRequest(r, f)
    <2>1. \A q \in Requests : req'[q].token = req[q].token
      BY <1>4 DEF SenRequest, Inv, Types, Fields
    <2> QED
      BY <1>1, <2>1
  <1>5. CASE RunRequest
    <2> DEFINE h == Head(tasks)[2]
               q == Append(queue, h)
    <2>1. /\ \E expired \in Expiries : Process(q, expired)
          /\ Ready(q) /\ Elements(q) = Elements(queue) \cup {h} /\ phase = "tasks"
      BY <1>5, RunRequestReady DEF RunRequest
    <2> HIDE DEF q, h
    <2> SUFFICES ASSUME NEW r \in Requests, req[r].flag = "WithoutAck", done[r] = <<>>,
                        done'[r] = <<"OK">>, NEW p \in Requests \ {r}
                 PROVE  req'[p].token = req[p].token
      BY DEF Alone
    <2>2. /\ r \in Elements(q) /\ token # 0
          /\ \/ req'[p].token = req[p].token
             \/ p \in Elements(q)
             \/ p \in Elements(running) /\ MustResend(p, handshake)
      BY <2>1, ProcessAlone, Zenon
    <2>3. queue = <<>> /\ \A x \in Elements(running) : ~MustResend(x, handshake)
      BY <2>1, <2>2 DEF Inv, Settled
    <2>4. Elements(queue) = {}
      BY <2>3, EmptyList, Zenon
    <2> QED
      BY <2>1, <2>2, <2>3, <2>4, ZenonT(30)
  <1>6. CASE \E expired \in Expiries : Service(expired)
    <2>1. PICK expired \in Expiries : Service(expired)
      BY <1>6
    <2>2. Process(queue, expired) /\ Ready(queue) /\ phase = "service"
      BY <2>1, ServiceReady, Zenon DEF Service
    <2> SUFFICES ASSUME NEW r \in Requests, req[r].flag = "WithoutAck", done[r] = <<>>,
                        done'[r] = <<"OK">>
                 PROVE  FALSE
      BY ZenonT(30) DEF Alone
    <2>3. r \in Elements(queue) /\ token # 0 /\ handshake = "Successed"
      BY <2>2, ProcessAlone, Zenon
    <2>4. queue # <<>>
      BY <2>3 DEF Elements
    <2> QED
      BY <2>2, <2>3, <2>4 DEF Inv, Settled
  <1> QED
    BY <1>2, <1>3, <1>4, <1>5, <1>6 DEF Next, NetworkThread, JavaCalls

-----------------------------------------------------------------------------
(* The lists Only returns, by induction *)

LOCAL INSTANCE InductionLemmas

\* The recursion of Only.
Keeps(kept, s, T) ==
    /\ kept[0] = <<>>
    /\ \A i \in 1 .. Len(s) :
          kept[i] = IF s[i] \in T THEN Append(kept[i - 1], s[i]) ELSE kept[i - 1]

\* Only is well defined.
LEMMA OnlyDef ==
    ASSUME NEW S, NEW s \in Seq(S), NEW T
    PROVE  \E kept \in [0 .. Len(s) -> Seq(S)] :
              Keeps(kept, s, T) /\ Only(s, T) = kept[Len(s)]
  <1> DEFINE n == Len(s)
             Val(p, i) == IF s[i] \in T THEN Append(p, s[i]) ELSE p
             step == [p \in (1 .. n) \X Seq(S) |-> Val(p[2], p[1])]
             Def(g) == [i \in 0 .. n |-> IF i = 0 THEN <<>> ELSE Val(g[i - 1], i)]
             kept == CHOOSE g : g = Def(g)
             U == {i \in 0 .. n : kept[i] \in Seq(S)}
  <1>1. n \in Nat /\ <<>> \in Seq(S)
    OBVIOUS
  <1>2. \A i \in 1 .. n : \A p \in Seq(S) : Val(p, i) \in Seq(S)
    OBVIOUS
  <1>3. Only(s, T) = kept[n]
    BY DEF Only
  <1>4. ASSUME NEW g
        PROVE  Keeps(g, s, T) <=> g[0] = <<>> /\ \A i \in 1 .. n : g[i] = Val(g[i - 1], i)
    BY DEF Keeps
  <1> HIDE DEF n, Val
  <1>5. step \in [(1 .. n) \X Seq(S) -> Seq(S)]
    BY <1>2
  <1>6. PICK g \in [0 .. n -> Seq(S)] : Recursive(g, n, <<>>, step)
    <2> HIDE DEF step
    <2> QED
      BY <1>1, <1>5, Recursion, Zenon
  <1>7. ASSUME NEW i \in 1 .. n
        PROVE  g[i] = Val(g[i - 1], i)
    <2>1. g[i - 1] \in Seq(S)
      BY <1>1
    <2>2. g[i] = step[<<i, g[i - 1]>>]
      BY <1>6, Zenon DEF Recursive
    <2> QED
      BY <2>1, <2>2
  <1>8. g = Def(g)
    <2>1. g[0] = <<>>
      BY <1>6 DEF Recursive
    <2> QED
      BY <1>1, <1>7, <2>1
  <1>9. kept = Def(kept)
    BY <1>8, Zenon
  <1> HIDE DEF kept
  <1>10. DOMAIN kept = 0 .. n /\ kept[0] = <<>> /\ \A i \in 1 .. n : kept[i] = Val(kept[i - 1], i)
    BY <1>1, <1>9
  <1>11. 0 .. n \subseteq U
    <2>0. kept[0] \in Seq(S)
      BY <1>1, <1>10, Zenon
    <2>1. 0 \in U
      BY <1>1, <2>0
    <2>2. ASSUME NEW i \in 0 .. n - 1, i \in U
          PROVE  i + 1 \in U
      BY <1>1, <1>2, <1>10, <2>2
    <2> HIDE DEF U
    <2> QED
      BY <1>1, <2>1, <2>2, Induct, Zenon
  <1>12. kept \in [0 .. n -> Seq(S)]
    BY <1>9, <1>11, ZenonT(30)
  <1> QED
    BY <1>3, <1>4, <1>10, <1>12, Zenon DEF n

\* What Only returns.
LEMMA OnlyList ==
    ASSUME NEW S, NEW s \in Seq(S), NEW T
    PROVE  /\ Only(s, T) \in Seq(S) /\ Elements(Only(s, T)) = Elements(s) \cap T
           /\ Distinct(s) => Distinct(Only(s, T))
  <1> DEFINE n == Len(s)
             Before(i) == {s[j] : j \in 1 .. i}
  <1>1. n \in Nat /\ DOMAIN s = 1 .. n
    OBVIOUS
  <1>2. PICK kept \in [0 .. n -> Seq(S)] : Keeps(kept, s, T) /\ Only(s, T) = kept[n]
    BY OnlyDef
  <1> DEFINE U == {i \in 0 .. n : /\ Elements(kept[i]) = Before(i) \cap T
                                  /\ Distinct(s) => Distinct(kept[i])}
  <1>3. 0 \in U
    <2>1. kept[0] = <<>> /\ 0 \in 0 .. n
      BY <1>1, <1>2 DEF Keeps
    <2>2. Before(0) = {}
      OBVIOUS
    <2> QED
      BY <2>1, <2>2, EmptyList, Zenon
  <1>4. ASSUME NEW i \in 0 .. n - 1, i \in U
        PROVE  i + 1 \in U
    <2>1. i + 1 \in 0 .. n /\ i \in 0 .. n /\ s[i + 1] \in S /\ kept[i] \in Seq(S)
      BY <1>1
    <2>2. kept[i + 1] = IF s[i + 1] \in T THEN Append(kept[i], s[i + 1]) ELSE kept[i]
      BY <1>1, <1>2 DEF Keeps
    <2>3. Before(i + 1) = Before(i) \cup {s[i + 1]}
      <3>1. 1 .. i + 1 = (1 .. i) \cup {i + 1}
        OBVIOUS
      <3> QED
        BY <3>1
    <2>4. Distinct(s) => s[i + 1] \notin Before(i)
      BY <1>1 DEF Distinct
    <2> HIDE DEF Before
    <2>5. CASE s[i + 1] \in T
      <3>1. /\ Elements(kept[i + 1]) = Elements(kept[i]) \cup {s[i + 1]}
            /\ Distinct(kept[i]) /\ s[i + 1] \notin Elements(kept[i]) => Distinct(kept[i + 1])
        BY <2>1, <2>2, <2>5, AppendList
      <3> QED
        BY <1>4, <2>1, <2>3, <2>4, <2>5, <3>1, ZenonT(30)
    <2>6. CASE s[i + 1] \notin T
      BY <1>4, <2>1, <2>2, <2>3, <2>6
    <2> QED
      BY <2>5, <2>6
  <1>5. n \in U
    <2> HIDE DEF U, n
    <2>1. 0 .. n \subseteq U
      BY <1>1, <1>3, <1>4, Induct, Zenon
    <2> QED
      BY <1>1, <2>1
  <1>6. Before(n) = Elements(s)
    BY <1>1 DEF Elements
  <1> QED
    BY <1>1, <1>2, <1>5, <1>6

\* What Only returns for a list of requests.
LEMMA OnlySelects ==
    Selects
  BY OnlyList DEF Selects

-----------------------------------------------------------------------------
(* The theorems *)

\* The invariant holds at the start.
LEMMA InitInv ==
    Init => Inv
  <1> SUFFICES ASSUME Init
               PROVE  Inv
    BY Zenon
  <1>1. LinkTypes /\ LinkInv
    BY UinAssumption DEF Init, LinkInit, LinkTypes, LinkInv
  <1>2. LinkFlags
    BY Zenon DEF Init, LinkInit, LinkFlags
  <1>3. Elements(<<>>) = {} /\ Distinct(<<>>)
    BY EmptyList
  <1>4. queue = <<>> /\ running = <<>> /\ tasks = <<>> /\ done = [r \in Requests |-> <<>>]
    BY DEF Init
  <1>5. Scheduled = {} /\ InFlight = {}
    BY <1>3, <1>4 DEF Scheduled, InFlight
  <1>6. Types
    <2>1. req \in [Requests -> Fields]
      BY DEF Init, Fields, Flags
    <2>2. tasks \in Seq(Tasks) /\ queue \in Seq(Requests) /\ running \in Seq(Requests)
      BY <1>4
    <2>3. done \in [Requests -> Seq(Codes)]
      BY <1>4
    <2> QED
      BY <2>1, <2>2, <2>3, OnlySelects, ZenonT(30) DEF Init, Types, NoCopies
  <1>7. Placed
    <2>1. DOMAIN <<>> = {} /\ Len(<<>>) <= 1
      OBVIOUS
    <2>2. \A r \in Requests : done[r] = <<>>
      BY <1>4, Zenon
    <2> QED
      BY <1>3, <1>4, <1>5, <2>1, <2>2, Zenon DEF Placed
  <1>8. Numbers /\ OwnReply
    <2>1. \A r \in Requests : done[r] # <<"OK">>
      BY <1>4, ZenonT(30)
    <2> QED
      BY <1>3, <1>4, <2>1 DEF Init, Numbers, Numbered, OwnReply
  <1>9. Tokens /\ Settled /\ RunningHasConnection /\ WaitingMeansSent
    BY <1>3, <1>4, SMTT(30) DEF Init, LinkInit, Tokens, Settled, RunningHasConnection, WaitingMeansSent
  <1> QED
    BY <1>1, <1>2, <1>6, <1>7, <1>8, <1>9 DEF Inv

\* The invariant, for any number of requests, retries, tasks and connections; and
\* every step of the requests is one of the link or leaves it alone.
THEOREM RequestSafety ==
    Spec => []Inv /\ [][LinkNext]_linkVars
  <1>1. Init => Inv
    BY InitInv
  <1>2. Inv /\ [Next]_vars => Inv' /\ [LinkNext]_linkVars
    BY NextInv
  <1> QED
    BY <1>1, <1>2, PTL DEF Spec

\* The request code moves the connection only as module Link allows.
THEOREM RequestsDriveLink ==
    Spec => DrivesLink
  <1>1. Init => LinkInit
    BY DEF Init
  <1> QED
    BY <1>1, RequestSafety, PTL DEF Spec, DrivesLink, LinkSpec

\* While a request waits for its reply there is a connection object.
THEOREM RunningIsConnected ==
    Spec => []RunningHasConnection
  <1>1. Inv => RunningHasConnection
    BY DEF Inv
  <1> QED
    BY <1>1, RequestSafety, PTL

\* A request that waits on the announced connection is in its stream.
THEOREM WaitingIsSent ==
    Spec => []WaitingMeansSent
  <1>1. Inv => WaitingMeansSent
    BY DEF Inv
  <1> QED
    BY <1>1, RequestSafety, PTL

\* A request that expects a reply succeeds only by the reply to its own message.
THEOREM ReplyIsOwn ==
    Spec => []OwnReply
  <1>1. Inv => OwnReply
    BY DEF Inv
  <1> QED
    BY <1>1, RequestSafety, PTL

\* A request is never lost and never completed twice.
THEOREM RequestsCompleteOnce ==
    Spec => CompletedOnce
  <1>1. Inv /\ Counted /\ Counted' /\ [Next]_vars
        => [\A r \in Requests : Places(r)' # Places(r) => Places(r) = 0 /\ Places(r)' = 1]_vars
    <2> SUFFICES ASSUME Inv, Counted, Counted', [Next]_vars,
                        NEW r \in Requests, Places(r)' # Places(r)
                 PROVE  Places(r) = 0 /\ Places(r)' = 1
      OBVIOUS
    <2>1. Taken(r) => Taken(r)'
      BY TakenStays
    <2>2. Places(r) = IF Taken(r) THEN 1 ELSE 0
      BY DEF Counted
    <2>3. Places(r)' = IF Taken(r)' THEN 1 ELSE 0
      BY DEF Counted
    <2> QED
      BY <2>1, <2>2, <2>3
  <1>2. Inv => Counted
    BY InvCounted
  <1>3. Spec => [][Next]_vars
    BY PTL DEF Spec
  <1> QED
    BY <1>1, <1>2, <1>3, RequestSafety, PTL DEF CompletedOnce

\* A request without reply is sent, and destroyed, in a batch of its own.
THEOREM UnacknowledgedIsAlone ==
    Spec => UnacknowledgedAlone
  <1>1. Inv /\ [Next]_vars => [Alone]_vars
    BY StepAlone
  <1>2. Spec => [][Next]_vars
    BY PTL DEF Spec
  <1> QED
    BY <1>1, <1>2, RequestSafety, PTL DEF UnacknowledgedAlone, Alone
===============================================================================
