------------------------ MODULE PacketFramingProofs -------------------------
(***************************************************************************)
(* Proofs for PacketFraming: whatever the packets, their number, the sizes *)
(* of the buffers and the pieces recv returns, the application gets the    *)
(* packets of the stream, and the two promises about when recv is called.  *)
(***************************************************************************)
EXTENDS PacketFraming, InductionLemmas

Stream == packets \in [1 .. Count -> Packets] /\ \A k \in 1 .. Count - 1 : packets[k].ok

\* A packet is at least a header long.
LEMMA Lengths ==
    ASSUME Stream, NEW k \in 1 .. Count
    PROVE  /\ packets[k] \in Packets /\ packets[k].head \in HeadLens /\ packets[k].head \in Nat
           /\ Length(packets[k]) \in Nat
           /\ Header <= packets[k].head /\ packets[k].head <= Length(packets[k])
           /\ packets[k].head <= RestSize /\ Len(packets) = Count
  <1>1. packets[k] \in Packets /\ Len(packets) = Count
    BY FramingAssumption DEF Stream
  <1>2. packets[k].head \in HeadLens /\ packets[k].body \in Bodies
    BY <1>1 DEF Packets
  <1>3. /\ packets[k].head \in Nat /\ packets[k].body \in Nat
        /\ Header <= packets[k].head /\ packets[k].head <= RestSize
    BY <1>2, FramingAssumption, Zenon
  <1>4. Length(packets[k]) = packets[k].head + packets[k].body
    BY DEF Length
  <1> QED
    BY <1>1, <1>2, <1>3, <1>4

\* f counts the bytes before each packet.
Sums(f, n) == f[0] = 0 /\ \A i \in 1 .. n : f[i] = f[i - 1] + Length(packets[i])

\* Start adds up the lengths.
LEMMA StartDef ==
    ASSUME Stream, NEW k \in 1 .. Count + 1
    PROVE  \E f \in [0 .. k - 1 -> Nat] : Sums(f, k - 1) /\ Start(k) = f[k - 1]
  <1> DEFINE n == k - 1
             Def(f) == [i \in 0 .. n |-> IF i = 0 THEN 0 ELSE f[i - 1] + Length(packets[i])]
             f == CHOOSE g : g = Def(g)
             step == [x \in (1 .. n) \X Nat |-> x[2] + Length(packets[x[1]])]
  <1>1. n \in Nat /\ n <= Count /\ Count \in Nat
    BY FramingAssumption
  <1>2. \A i \in 1 .. n : Length(packets[i]) \in Nat
    BY <1>1, Lengths
  <1>3. step \in [(1 .. n) \X Nat -> Nat]
    BY <1>2
  <1>4. Start(k) = f[n]
    BY DEF Start
  <1> HIDE DEF n
  <1>5. PICK g \in [0 .. n -> Nat] : Recursive(g, n, 0, step)
    <2> HIDE DEF step
    <2> QED
      BY <1>1, <1>3, Recursion, Zenon
  <1>6. g[0] = 0 /\ \A i \in 1 .. n : g[i] = step[<<i, g[i - 1]>>]
    BY <1>5, Zenon DEF Recursive
  <1>7. \A i \in 1 .. n : g[i] = g[i - 1] + Length(packets[i])
    <2> TAKE i \in 1 .. n
    <2>1. i - 1 \in 0 .. n
      BY <1>1
    <2>2. <<i, g[i - 1]>> \in (1 .. n) \X Nat
      BY <1>5, <2>1
    <2> QED
      BY <1>6, <2>2, Zenon
  <1>8. g = Def(g)
    BY <1>1, <1>5, <1>6, <1>7
  <1>9. f = Def(f)
    BY <1>8, Zenon
  <1> HIDE DEF f
  <1>10. DOMAIN f = 0 .. n /\ f[0] = 0 /\ \A i \in 1 .. n : f[i] = f[i - 1] + Length(packets[i])
    BY <1>1, <1>9
  <1> DEFINE U == {i \in 0 .. n : f[i] \in Nat}
  <1>11. 0 .. n \subseteq U
    <2>1. 0 \in U
      BY <1>1, <1>10
    <2>2. ASSUME NEW i \in 0 .. n - 1, i \in U
          PROVE  i + 1 \in U
      <3>1. i + 1 \in 1 .. n /\ i + 1 \in 0 .. n /\ i + 1 - 1 = i
        BY <1>1
      <3> QED
        BY <1>2, <1>10, <2>2, <3>1
    <2> HIDE DEF U
    <2> QED
      BY <1>1, <2>1, <2>2, Induct, Zenon
  <1>12. f \in [0 .. n -> Nat]
    BY <1>9, <1>11
  <1> QED
    BY <1>4, <1>10, <1>12, Zenon DEF Sums, n

\* The same, by the number of packets before.
LEMMA StartAfter ==
    ASSUME Stream, NEW n \in 0 .. Count, NEW k, k = n + 1
    PROVE  \E f \in [0 .. n -> Nat] : Sums(f, n) /\ Start(k) = f[n]
  <1>1. k \in 1 .. Count + 1 /\ k - 1 = n
    BY FramingAssumption
  <1>2. \E f \in [0 .. k - 1 -> Nat] : Sums(f, k - 1) /\ Start(k) = f[k - 1]
    BY <1>1, StartDef
  <1> QED
    BY <1>1, <1>2

\* Packet k + 1 begins where packet k ends.
LEMMA StartNext ==
    ASSUME Stream
    PROVE  /\ Start(1) = 0
           /\ \A k \in 1 .. Count + 1 : Start(k) \in Nat
           /\ \A k \in 1 .. Count : Start(k + 1) = Start(k) + Length(packets[k])
           /\ Total = Start(Count + 1) /\ Len(packets) = Count
  <1>1. Count \in Nat /\ Len(packets) = Count
    BY FramingAssumption DEF Stream
  <1>2. Start(1) = 0
    <2>1. PICK f \in [0 .. 0 -> Nat] : Sums(f, 0) /\ Start(1) = f[0]
      <3>1. 0 \in 0 .. Count /\ 1 = 0 + 1
        BY <1>1
      <3> QED
        BY <3>1, StartAfter
    <2> QED
      BY <2>1 DEF Sums
  <1>3. ASSUME NEW k \in 1 .. Count + 1
        PROVE  Start(k) \in Nat
    <2>1. PICK f \in [0 .. k - 1 -> Nat] : Sums(f, k - 1) /\ Start(k) = f[k - 1]
      BY StartDef, Zenon
    <2> QED
      BY <1>1, <2>1
  <1>4. ASSUME NEW k \in 1 .. Count
        PROVE  Start(k + 1) = Start(k) + Length(packets[k])
    <2>1. k \in 1 .. Count + 1 /\ k + 1 \in 1 .. Count + 1
      BY <1>1
    <2>2. PICK f \in [0 .. k - 1 -> Nat] : Sums(f, k - 1) /\ Start(k) = f[k - 1]
      BY <2>1, StartDef, Zenon
    <2>3. PICK g \in [0 .. k -> Nat] : Sums(g, k) /\ Start(k + 1) = g[k]
      <3> DEFINE l == k + 1
      <3>1. k \in 0 .. Count /\ l = k + 1
        BY <1>1
      <3> HIDE DEF l
      <3>2. \E g \in [0 .. k -> Nat] : Sums(g, k) /\ Start(l) = g[k]
        BY <3>1, StartAfter, Zenon
      <3> QED
        BY <3>2 DEF l
    <2> DEFINE U == {i \in 0 .. k - 1 : f[i] = g[i]}
    <2>4. 0 .. k - 1 \subseteq U
      <3>1. 0 \in U
        BY <2>2, <2>3 DEF Sums
      <3>2. ASSUME NEW i \in 0 .. k - 1 - 1, i \in U
            PROVE  i + 1 \in U
        <4>1. i + 1 \in 1 .. k - 1 /\ i + 1 \in 1 .. k /\ i + 1 - 1 = i
          OBVIOUS
        <4>2. f[i + 1] = f[i] + Length(packets[i + 1])
          BY <2>2, <4>1 DEF Sums
        <4>3. g[i + 1] = g[i] + Length(packets[i + 1])
          BY <2>3, <4>1 DEF Sums
        <4> QED
          BY <3>2, <4>1, <4>2, <4>3
      <3>3. k - 1 \in Nat
        OBVIOUS
      <3> HIDE DEF U
      <3> QED
        BY <3>1, <3>2, <3>3, Induct, Zenon
    <2>5. f[k - 1] = g[k - 1]
      BY <2>4
    <2>6. g[k] = g[k - 1] + Length(packets[k])
      BY <2>3 DEF Sums
    <2> QED
      BY <2>2, <2>3, <2>5, <2>6
  <1> QED
    BY <1>1, <1>2, <1>3, <1>4 DEF Total

\* A later packet begins later.
LEMMA StartLess ==
    ASSUME Stream, NEW j \in 1 .. Count + 1, NEW k \in 1 .. Count + 1, j < k
    PROVE  Start(j) + Length(packets[j]) <= Start(k) /\ Start(j) < Start(k)
  <1> DEFINE U == {d \in 0 .. Count : j + 1 + d <= k => Start(j + 1) <= Start(j + 1 + d)}
  <1>0. Count \in Nat /\ Header \in Nat \ {0}
    BY FramingAssumption
  <1>1. /\ \A i \in 1 .. Count + 1 : Start(i) \in Nat
        /\ \A i \in 1 .. Count : Start(i + 1) = Start(i) + Length(packets[i])
    BY StartNext
  <1>2. \A i \in 1 .. Count : Length(packets[i]) \in Nat /\ Header <= Length(packets[i])
    BY <1>0, Lengths
  <1>3. 0 .. Count \subseteq U
    <2>1. 0 \in U
      BY <1>0, <1>1
    <2>2. ASSUME NEW d \in 0 .. Count - 1, d \in U
          PROVE  d + 1 \in U
      <3> SUFFICES ASSUME j + 1 + (d + 1) <= k
                   PROVE  Start(j + 1) <= Start(j + 1 + (d + 1))
        BY <1>0
      <3>1. j + 1 + d \in 1 .. Count /\ j + 1 \in 1 .. Count + 1 /\ j + 1 + d \in 1 .. Count + 1
            /\ j + 1 + (d + 1) = (j + 1 + d) + 1
        BY <1>0
      <3>2. Start(j + 1) <= Start(j + 1 + d)
        BY <2>2, <3>1
      <3>3. Start((j + 1 + d) + 1) = Start(j + 1 + d) + Length(packets[j + 1 + d])
        BY <1>1, <3>1
      <3>4. Start(j + 1 + (d + 1)) = Start(j + 1 + d) + Length(packets[j + 1 + d])
        BY <3>1, <3>3
      <3> QED
        BY <1>1, <1>2, <3>1, <3>2, <3>4
    <2> HIDE DEF U
    <2> QED
      BY <1>0, <2>1, <2>2, Induct
  <1>4. k - j - 1 \in U /\ j + 1 + (k - j - 1) = k /\ j \in 1 .. Count
    <2>1. k - j - 1 \in 0 .. Count /\ j + 1 + (k - j - 1) = k /\ j \in 1 .. Count
      BY <1>0
    <2> HIDE DEF U
    <2> QED
      BY <1>3, <2>1
  <1>5. Start(j + 1) <= Start(k)
    BY <1>4
  <1>6. Start(j + 1) = Start(j) + Length(packets[j]) /\ Start(j) \in Nat /\ Start(k) \in Nat
    BY <1>1, <1>4
  <1> QED
    BY <1>0, <1>2, <1>4, <1>5, <1>6

\* The bytes of a header tell which packet it is.
LEMMA HeaderFound ==
    ASSUME Stream, NEW k \in 1 .. Count, NEW bytes,
           bytes = [i \in 1 .. Header |-> Start(k) + i]
    PROVE  HeaderAt(bytes) = k
  <1> DEFINE K == {j \in 1 .. Len(packets) : bytes = SubSeq(BytesOf(j), 1, Header)}
  <1>1. Count \in Nat /\ Header \in Nat \ {0} /\ Len(packets) = Count
    BY StartNext, FramingAssumption
  <1>2. ASSUME NEW j \in 1 .. Count
        PROVE  SubSeq(BytesOf(j), 1, Header) = [i \in 1 .. Header |-> Start(j) + i]
    <2>1. Length(packets[j]) \in Nat /\ Header <= Length(packets[j]) /\ Start(j) \in Nat
      <3>1. Length(packets[j]) \in Nat /\ Header <= packets[j].head
            /\ packets[j].head <= Length(packets[j]) /\ packets[j].head \in Nat
        BY Lengths
      <3>2. Start(j) \in Nat
        BY <1>1, StartNext
      <3> QED
        BY <1>1, <3>1, <3>2
    <2> DEFINE b == BytesOf(j)
    <2>2. /\ b \in Seq(Nat) /\ Len(b) = Length(packets[j])
          /\ \A i \in 1 .. Length(packets[j]) : b[i] = Start(j) + i
      BY <2>1 DEF BytesOf
    <2> HIDE DEF b
    <2>3. /\ SubSeq(b, 1, Header) \in Seq(Nat) /\ Len(SubSeq(b, 1, Header)) = Header
          /\ \A i \in 1 .. Header : SubSeq(b, 1, Header)[i] = b[i]
      BY <1>1, <2>1, <2>2
    <2>4. SubSeq(b, 1, Header) = [i \in 1 .. Header |-> SubSeq(b, 1, Header)[i]]
      BY <1>1, <2>3
    <2>5. \A i \in 1 .. Header : SubSeq(b, 1, Header)[i] = Start(j) + i
      BY <1>1, <2>1, <2>2, <2>3
    <2> QED
      BY <2>4, <2>5, Zenon DEF b
  <1>3. ASSUME NEW j \in 1 .. Count, j # k
        PROVE  bytes # [i \in 1 .. Header |-> Start(j) + i]
    <2>1. Start(j) # Start(k) /\ Start(j) \in Nat /\ Start(k) \in Nat
      <3>1. j \in 1 .. Count + 1 /\ k \in 1 .. Count + 1 /\ (j < k \/ k < j)
        BY <1>1, <1>3
      <3> QED
        BY <3>1, StartLess, StartNext
    <2>2. 1 \in 1 .. Header
      BY <1>1
    <2> DEFINE other == [i \in 1 .. Header |-> Start(j) + i]
    <2>3. bytes[1] = Start(k) + 1 /\ other[1] = Start(j) + 1
      BY <2>2
    <2> HIDE DEF other
    <2>4. bytes[1] # other[1]
      BY <2>1, <2>3
    <2>5. bytes # other
      BY <2>4, Zenon
    <2> QED
      BY <2>5 DEF other
  <1>4. K = {k}
    BY <1>1, <1>2, <1>3, Zenon
  <1>5. HeaderAt(bytes) = IF K = {} THEN 0 ELSE CHOOSE j \in K : TRUE
    BY DEF HeaderAt
  <1> HIDE DEF K
  <1> QED
    BY <1>4, <1>5

-----------------------------------------------------------------------------
(* The inductive invariant *)

Buffers == [data : Seq(Nat), pos : Nat, lim : Nat, cap : Nat]

WellFormed(b) == b \in Buffers /\ b.pos <= b.lim /\ b.lim <= b.cap /\ b.lim <= Len(b.data)

\* From position p on, b holds the n bytes of the stream after the given one.
Holds(b, p, n, from) == \A i \in 1 .. n : b.data[p + i] = from + i

\* The packet to be delivered next, and the byte before it.
At == first + Len(delivered)

From == Start(At)

\* How many bytes of packet k make the parser act on it.
Enough(k) == IF packets[k].ok THEN Length(packets[k]) ELSE Header

Types ==
    /\ Stream
    /\ first \in 1 .. Count + 1 /\ delivered \in Seq(Seq(Nat)) /\ At \in 1 .. Count + 1
    /\ arrived \in Nat /\ received \in Nat /\ last \in Nat
    /\ From <= received /\ received <= arrived /\ arrived <= Total
    /\ WellFormed(rest) /\ Len(rest.data) = rest.cap /\ WellFormed(network)
    /\ cur \in {"idle", "network", "rest"}

\* What was delivered.
InOrder ==
    /\ \A i \in 1 .. Len(delivered) : delivered[i] = BytesOf(first + i - 1)
    /\ \A k \in first .. At - 1 : packets[k].ok

\* last is the length of the next packet, which rest has room for.
Known == At <= Count /\ packets[At].ok /\ last = Length(packets[At]) /\ rest.lim = last

Between ==
    cur = "idle" =>
        /\ rest.pos = received - From /\ Holds(rest, 0, rest.pos, From)
        /\ At <= Count => received - From < Enough(At)
        /\ rest # NoBuffer => rest.pos > 0
        /\ rest # NoBuffer /\ last = 0 => rest.lim = rest.pos
        /\ rest # NoBuffer /\ last # 0 => Known /\ rest.pos < last

InNetwork ==
    cur = "network" =>
        /\ rest = NoBuffer
        /\ Remaining(network) = received - From
        /\ Holds(network, network.pos, Remaining(network), From)

InRest ==
    cur = "rest" =>
        /\ rest.pos = 0 /\ rest.lim > 0 /\ Holds(rest, 0, rest.lim, From)
        /\ last = 0 => rest.lim = received - From
        /\ last # 0 => Known
        /\ last # 0 /\ ~later => received = From + last
        /\ later => /\ last # 0
                    /\ Remaining(network) = received - From - last
                    /\ Holds(network, network.pos, Remaining(network), From + last)

Later == (later => cur = "rest") /\ later \in BOOLEAN

\* While the parser has read nothing but the connection's bytes.
Inv == Types /\ InOrder /\ Between /\ InNetwork /\ InRest /\ Later

\* What stays true of the stream whatever the parser reads.
Counts ==
    /\ Stream /\ first \in 1 .. Count + 1 /\ arrived \in Nat /\ received \in Nat
    /\ Start(first) <= received /\ received <= arrived /\ arrived <= Total

Safe == Counts /\ mixed \in BOOLEAN /\ (~mixed => Inv)

-----------------------------------------------------------------------------
(* The buffers *)

\* Without a buffer.
LEMMA NoBufferShape ==
    /\ WellFormed(NoBuffer) /\ Len(NoBuffer.data) = NoBuffer.cap
    /\ NoBuffer.pos = 0 /\ NoBuffer.lim = 0 /\ NoBuffer.cap = 0
  <1>1. /\ NoBuffer.pos = 0 /\ NoBuffer.lim = 0 /\ NoBuffer.cap = 0 /\ NoBuffer.data = <<>>
        /\ NoBuffer \in Buffers
    BY DEF NoBuffer, Buffers
  <1> QED
    BY <1>1 DEF WellFormed

\* What BufferStorage::getBuffer returns.
LEMMA GetBufferShape ==
    ASSUME NEW size \in Nat
    PROVE  LET b == GetBuffer(size)
           IN  /\ WellFormed(b) /\ Len(b.data) = b.cap
               /\ b.pos = 0 /\ b.lim = size /\ size <= b.cap
  <1> DEFINE fits == {p \in Pools : size <= p}
             cap == IF fits = {} THEN size ELSE Min(fits)
             d == [i \in 1 .. cap |-> 0]
             b == [data |-> d, pos |-> 0, lim |-> size, cap |-> cap]
  <1>1. fits # {} => Min(fits) \in fits
    <2>1. fits \subseteq Nat
      BY FramingAssumption, Zenon
    <2> HIDE DEF fits
    <2>2. fits # {} => \E n \in fits : \A m \in fits : n <= m
      BY <2>1, LeastNat, Zenon
    <2> QED
      BY <2>2 DEF Min
  <1>2. cap \in Nat /\ size <= cap
    <2>1. CASE fits = {}
      BY <2>1
    <2>2. CASE fits # {}
      <3>1. Min(fits) \in Nat /\ size <= Min(fits)
        BY <1>1, <2>2, FramingAssumption, Zenon
      <3> QED
        BY <2>2, <3>1
    <2> QED
      BY <2>1, <2>2
  <1>3. GetBuffer(size) = b
    BY DEF GetBuffer
  <1> HIDE DEF cap
  <1>4. d \in Seq(Nat) /\ Len(d) = cap
    BY <1>2
  <1> HIDE DEF d
  <1>5. b \in Buffers /\ b.data = d /\ b.pos = 0 /\ b.lim = size /\ b.cap = cap
    BY <1>2, <1>4 DEF Buffers
  <1> HIDE DEF b
  <1> QED
    BY <1>2, <1>3, <1>4, <1>5 DEF WellFormed

\* What recv fills.
LEMMA InputShape ==
    ASSUME NEW n \in Nat, n <= ReadSize, received \in Nat
    PROVE  LET b == Input(n)
           IN  /\ WellFormed(b) /\ b.pos = 0 /\ b.lim = n /\ b.cap = ReadSize
               /\ Holds(b, 0, n, received)
  <1> DEFINE d == [i \in 1 .. n |-> received + i]
             b == [data |-> d, pos |-> 0, lim |-> n, cap |-> ReadSize]
  <1>1. d \in Seq(Nat) /\ Len(d) = n /\ \A i \in 1 .. n : d[i] = received + i
    OBVIOUS
  <1>2. Input(n) = b
    BY DEF Input
  <1> HIDE DEF d
  <1>3. b \in Buffers /\ b.data = d /\ b.pos = 0 /\ b.lim = n /\ b.cap = ReadSize
    BY <1>1, FramingAssumption DEF Buffers
  <1> HIDE DEF b
  <1> QED
    BY <1>1, <1>2, <1>3 DEF WellFormed, Holds

\* position(p), in bounds.
LEMMA PositionShape ==
    ASSUME NEW b, WellFormed(b), NEW p \in Nat, p <= b.lim
    PROVE  LET c == [b EXCEPT !.pos = p]
           IN  /\ SetPosition(b, p) = c
               /\ WellFormed(c) /\ c.pos = p /\ c.lim = b.lim /\ c.cap = b.cap /\ c.data = b.data
  <1> DEFINE c == [b EXCEPT !.pos = p]
             lim == b.lim
  <1>1. b \in Buffers /\ lim \in Nat /\ lim <= b.cap /\ lim <= Len(b.data)
    BY DEF WellFormed, Buffers
  <1>2. SetPosition(b, p) = c
    <2>1. ~(p > lim)
      <3> HIDE DEF lim
      <3>1. p <= lim
        BY DEF lim
      <3> QED
        BY <1>1, <3>1
    <2> QED
      BY <2>1 DEF SetPosition
  <1>3. c \in Buffers /\ c.pos = p /\ c.lim = b.lim /\ c.cap = b.cap /\ c.data = b.data
    BY <1>1 DEF Buffers
  <1> HIDE DEF c
  <1>4. WellFormed(c)
    BY <1>1, <1>3 DEF WellFormed
  <1> QED
    BY <1>2, <1>3, <1>4 DEF c

\* position(p), within the limit.
LEMMA PositionSet ==
    ASSUME NEW b, WellFormed(b), NEW p \in Nat, p <= b.lim, NEW c, c = SetPosition(b, p)
    PROVE  WellFormed(c) /\ c.pos = p /\ c.lim = b.lim /\ c.cap = b.cap /\ c.data = b.data
  <1>1. \A d : d = [b EXCEPT !.pos = p] =>
            /\ SetPosition(b, p) = d /\ WellFormed(d)
            /\ d.pos = p /\ d.lim = b.lim /\ d.cap = b.cap /\ d.data = b.data
    BY PositionShape
  <1> QED
    BY <1>1, Zenon

\* limit(l), in bounds.
LEMMA LimitShape ==
    ASSUME NEW b, WellFormed(b), NEW l \in Nat, b.pos <= l, l <= b.cap, l <= Len(b.data)
    PROVE  LET c == SetLimit(b, l)
           IN  WellFormed(c) /\ c.pos = b.pos /\ c.lim = l /\ c.cap = b.cap /\ c.data = b.data
  <1> DEFINE c == [b EXCEPT !.lim = l, !.pos = b.pos]
             pos == b.pos
             cap == b.cap
  <1>1. b \in Buffers /\ pos \in Nat /\ cap \in Nat
    BY DEF WellFormed, Buffers
  <1>2. ~(l > cap) /\ ~(pos > l)
    <2>1. pos <= l /\ l <= cap
      OBVIOUS
    <2> HIDE DEF pos, cap
    <2> QED
      BY <1>1, <2>1
  <1>3. SetLimit(b, l) = c
    BY <1>2, Zenon DEF SetLimit
  <1>4. c \in Buffers /\ c.pos = b.pos /\ c.lim = l /\ c.cap = b.cap /\ c.data = b.data
    BY <1>1, Zenon DEF Buffers
  <1> HIDE DEF c
  <1>5. WellFormed(c)
    BY <1>1, <1>4 DEF WellFormed
  <1> QED
    BY <1>3, <1>4, <1>5

\* writeBytes, when there is room.
LEMMA WriteShape ==
    ASSUME NEW b, WellFormed(b), Len(b.data) = b.cap, NEW src, WellFormed(src),
           b.pos + Remaining(src) <= b.lim
    PROVE  LET w == WriteBytes(b, src)
               n == Remaining(src)
           IN  /\ WellFormed(w) /\ Len(w.data) = w.cap
               /\ w.pos = b.pos + n /\ w.lim = b.lim /\ w.cap = b.cap
               /\ \A i \in 1 .. b.pos : w.data[i] = b.data[i]
               /\ \A i \in 1 .. n : w.data[b.pos + i] = src.data[src.pos + i]
  <1> DEFINE n == Remaining(src)
             pos == b.pos
             lim == b.lim
             cap == b.cap
             data == b.data
             from == src.pos
             bytes == src.data
             d == [i \in 1 .. cap |-> IF i > pos /\ i <= pos + n
                                      THEN bytes[from + i - pos] ELSE data[i]]
             w == [b EXCEPT !.pos = pos + n, !.data = d]
  <1>1. /\ b \in Buffers /\ pos \in Nat /\ lim \in Nat /\ cap \in Nat /\ data \in Seq(Nat)
        /\ pos <= lim /\ lim <= cap /\ Len(data) = cap
    BY DEF WellFormed, Buffers
  <1>2. /\ from \in Nat /\ bytes \in Seq(Nat) /\ n \in Nat /\ from + n <= Len(bytes)
        /\ pos + n <= lim
    <2>1. /\ src.pos \in Nat /\ src.lim \in Nat /\ src.data \in Seq(Nat)
          /\ src.pos <= src.lim /\ src.lim <= Len(src.data)
      BY DEF WellFormed, Buffers
    <2>2. n = src.lim - src.pos
      BY DEF Remaining
    <2>3. pos + n <= lim
      OBVIOUS
    <2> HIDE DEF n
    <2> QED
      BY <2>1, <2>2, <2>3
  <1>3. WriteBytes(b, src) = w
    <2>1. ~(pos + n > lim)
      <3> HIDE DEF pos, n, lim
      <3> QED
        BY <1>1, <1>2
    <2> QED
      BY <2>1 DEF WriteBytes
  <1> HIDE DEF n, pos, lim, cap, data, from, bytes
  <1>4. ASSUME NEW i \in 1 .. cap
        PROVE  d[i] \in Nat
    <2>1. CASE i > pos /\ i <= pos + n
      <3>1. from + i - pos \in 1 .. Len(bytes)
        BY <1>1, <1>2, <2>1
      <3> QED
        BY <1>2, <2>1, <3>1
    <2>2. CASE ~(i > pos /\ i <= pos + n)
      BY <1>1, <2>2
    <2> QED
      BY <2>1, <2>2
  <1>5. d \in Seq(Nat) /\ Len(d) = cap
    <2>1. d \in [1 .. cap -> Nat]
      BY <1>4
    <2> HIDE DEF d
    <2> QED
      BY <1>1, <2>1
  <1>6. \A i \in 1 .. pos : d[i] = data[i]
    BY <1>1
  <1>7. ASSUME NEW i \in 1 .. n
        PROVE  d[pos + i] = bytes[from + i]
    <2>1. pos + i \in 1 .. cap /\ pos + i > pos /\ pos + i <= pos + n
      BY <1>1, <1>2
    <2>2. d[pos + i] = bytes[from + (pos + i) - pos]
      BY <2>1
    <2>3. from + (pos + i) - pos = from + i
      BY <1>1, <1>2
    <2> QED
      BY <2>2, <2>3
  <1>8. w \in Buffers /\ w.pos = pos + n /\ w.lim = b.lim /\ w.cap = b.cap /\ w.data = d
    <2> HIDE DEF d
    <2>1. pos + n \in Nat
      BY <1>1, <1>2
    <2> QED
      BY <1>1, <1>5, <2>1, Zenon DEF Buffers
  <1> HIDE DEF d, w
  <1>9. WellFormed(w)
    BY <1>1, <1>2, <1>5, <1>8 DEF WellFormed, lim, cap
  <1> QED
    BY <1>3, <1>5, <1>6, <1>7, <1>8, <1>9 DEF n, pos, cap, data, from, bytes

\* w is b after the bytes of src were put at its position.
Appended(b, src, w) ==
    /\ WellFormed(w) /\ Len(w.data) = w.cap
    /\ w.pos = b.pos + Remaining(src) /\ w.lim = b.lim
    /\ \A i \in 1 .. b.pos : w.data[i] = b.data[i]
    /\ \A i \in 1 .. Remaining(src) : w.data[b.pos + i] = src.data[src.pos + i]

\* What writeBytes leaves in the buffer, as one fact.
LEMMA WriteAppends ==
    ASSUME NEW b, WellFormed(b), Len(b.data) = b.cap, NEW src, WellFormed(src),
           b.pos + Remaining(src) <= b.lim
    PROVE  Appended(b, src, WriteBytes(b, src))
  BY WriteShape DEF Appended

\* compact, on a buffer that is not empty.
LEMMA CompactShape ==
    ASSUME NEW b, WellFormed(b), Len(b.data) = b.cap, b.pos < b.lim
    PROVE  LET c == Compact(b)
           IN  /\ WellFormed(c) /\ Len(c.data) = c.cap
               /\ c.pos = Remaining(b) /\ c.lim = b.cap /\ c.cap = b.cap
               /\ \A i \in 1 .. Remaining(b) : c.data[i] = b.data[b.pos + i]
  <1> DEFINE n == Remaining(b)
             d == [i \in 1 .. b.cap |-> IF i <= n THEN b.data[b.pos + i] ELSE b.data[i]]
             c == [b EXCEPT !.pos = n, !.lim = b.cap, !.data = d]
  <1>1. /\ b \in Buffers /\ b.pos \in Nat /\ b.lim \in Nat /\ b.cap \in Nat /\ b.data \in Seq(Nat)
        /\ b.lim <= b.cap
    BY DEF WellFormed, Buffers
  <1>2. n \in Nat /\ n = b.lim - b.pos
    BY <1>1 DEF Remaining
  <1>3. Compact(b) = c
    BY <1>1 DEF Compact
  <1> HIDE DEF n
  <1>4. ASSUME NEW i \in 1 .. b.cap
        PROVE  d[i] \in Nat
    <2>1. CASE i <= n
      <3>1. b.pos + i \in 1 .. Len(b.data)
        BY <1>1, <1>2, <2>1
      <3>2. b.data[b.pos + i] \in Nat
        <4> DEFINE e == b.data
                   j == b.pos + i
        <4>1. e \in Seq(Nat) /\ j \in 1 .. Len(e)
          BY <1>1, <3>1
        <4> HIDE DEF e, j
        <4>2. e[j] \in Nat
          BY <4>1
        <4> QED
          BY <4>2 DEF e, j
      <3> QED
        BY <2>1, <3>2, SMTT(30)
    <2>2. CASE ~(i <= n)
      BY <1>1, <2>2
    <2> QED
      BY <2>1, <2>2
  <1>5. d \in Seq(Nat) /\ Len(d) = b.cap
    <2> DEFINE cap == b.cap
    <2>1. d \in [1 .. cap -> Nat] /\ cap \in Nat
      BY <1>1, <1>4, Zenon
    <2> HIDE DEF d, cap
    <2>2. d \in Seq(Nat) /\ Len(d) = cap
      BY <2>1
    <2> QED
      BY <2>2 DEF cap
  <1>6. \A i \in 1 .. n : d[i] = b.data[b.pos + i]
    BY <1>1, <1>2
  <1> HIDE DEF d
  <1>7. c \in Buffers /\ c.pos = n /\ c.lim = b.cap /\ c.cap = b.cap /\ c.data = d
    BY <1>1, <1>2, <1>5, Zenon DEF Buffers
  <1> HIDE DEF c
  <1>8. WellFormed(c)
    BY <1>1, <1>2, <1>5, <1>7 DEF WellFormed
  <1> QED
    BY <1>3, <1>5, <1>6, <1>7, <1>8 DEF n

\* The first bytes of a buffer.
LEMMA ContentShape ==
    ASSUME NEW b, WellFormed(b), NEW m \in Nat, m <= Remaining(b),
           NEW from, Holds(b, b.pos, Remaining(b), from)
    PROVE  SubSeq(Content(b), 1, m) = [i \in 1 .. m |-> from + i]
  <1> DEFINE n == Remaining(b)
             c == Content(b)
             s == SubSeq(c, 1, m)
  <1>1. /\ b.pos \in Nat /\ b.lim \in Nat /\ b.data \in Seq(Nat) /\ b.pos <= b.lim
        /\ b.lim <= Len(b.data)
    BY DEF WellFormed, Buffers
  <1>2. n \in Nat /\ n = b.lim - b.pos /\ m <= n
    BY <1>1 DEF Remaining
  <1>3. /\ c \in Seq(Nat) /\ Len(c) = n
        /\ \A i \in 1 .. n : c[i] = b.data[b.pos + i]
    <2> DEFINE pos == b.pos
               lim == b.lim
               data == b.data
    <2>1. c = SubSeq(data, pos + 1, lim)
      BY DEF Content
    <2> HIDE DEF pos, lim, data, c, n
    <2>2. /\ pos \in Nat /\ lim \in Nat /\ data \in Seq(Nat) /\ pos <= lim
          /\ lim <= Len(data) /\ n = lim - pos
      BY <1>1, <1>2 DEF pos, lim, data
    <2>3. c \in Seq(Nat) /\ Len(c) = n
      BY <2>1, <2>2
    <2>4. ASSUME NEW i \in 1 .. n
          PROVE  c[i] = data[pos + i]
      <3>1. c[i] = data[pos + 1 + i - 1] /\ pos + 1 + i - 1 = pos + i
        BY <2>1, <2>2
      <3> QED
        BY <3>1
    <2> QED
      BY <2>3, <2>4 DEF pos, data
  <1> HIDE DEF c, n
  <1>5. s \in Seq(Nat) /\ Len(s) = m /\ \A i \in 1 .. m : s[i] = c[i]
    BY <1>2, <1>3
  <1>6. \A i \in 1 .. m : s[i] = from + i
    <2> TAKE i \in 1 .. m
    <2>1. i \in 1 .. n
      BY <1>2
    <2> QED
      BY <1>3, <1>5, <2>1 DEF Holds, n
  <1> HIDE DEF s
  <1>7. s = [i \in 1 .. m |-> s[i]]
    BY <1>5
  <1>8. s = [i \in 1 .. m |-> from + i]
    BY <1>6, <1>7
  <1> QED
    BY <1>8 DEF s, c

-----------------------------------------------------------------------------
(* The parser finds the next packet *)

\* The numbers of the invariant.
LEMMA Numbers ==
    ASSUME Types
    PROVE  /\ Count \in Nat /\ Header \in Nat \ {0} /\ ReadSize \in Nat \ {0} /\ RestSize \in Nat
           /\ first \in Nat /\ Len(delivered) \in Nat /\ At \in 1 .. Count + 1
           /\ From \in Nat /\ received \in Nat /\ From <= received
           /\ At \in 1 .. Count => /\ Length(packets[At]) \in Nat /\ packets[At].head \in Nat
                                   /\ Header <= packets[At].head
                                   /\ packets[At].head <= Length(packets[At])
                                   /\ packets[At].head <= RestSize
                                   /\ Start(At + 1) = From + Length(packets[At])
                                   /\ Enough(At) \in Nat /\ Header <= Enough(At)
  <1>1. Stream /\ At \in 1 .. Count + 1 /\ first \in 1 .. Count + 1
    BY DEF Types
  <1>2. Count \in Nat /\ Header \in Nat \ {0} /\ ReadSize \in Nat \ {0} /\ RestSize \in Nat
    BY FramingAssumption
  <1>3. From \in Nat
    BY <1>1, StartNext DEF From
  <1>4. ASSUME At \in 1 .. Count
        PROVE  /\ Length(packets[At]) \in Nat /\ packets[At].head \in Nat
               /\ Header <= packets[At].head
               /\ packets[At].head <= Length(packets[At])
               /\ packets[At].head <= RestSize
               /\ Start(At + 1) = From + Length(packets[At])
    <2>1. /\ Length(packets[At]) \in Nat /\ packets[At].head \in Nat
          /\ Header <= packets[At].head
          /\ packets[At].head <= Length(packets[At])
          /\ packets[At].head <= RestSize
      BY <1>1, <1>4, Lengths
    <2>2. Start(At + 1) = Start(At) + Length(packets[At])
      BY <1>1, <1>4, StartNext
    <2> QED
      BY <2>1, <2>2 DEF From
  <1>5. ASSUME At \in 1 .. Count
        PROVE  Enough(At) \in Nat /\ Header <= Enough(At)
    <2> DEFINE len == Length(packets[At])
               head == packets[At].head
    <2>1. len \in Nat /\ head \in Nat /\ Header <= head /\ head <= len
      BY <1>4, <1>5
    <2> HIDE DEF len, head
    <2>2. Header <= len
      BY <1>2, <2>1
    <2> QED
      BY <1>2, <2>1, <2>2 DEF Enough, len
  <1> QED
    BY <1>1, <1>2, <1>3, <1>4, <1>5 DEF Types

\* The buffer that is parsed holds the stream from the next packet on.
LEMMA Facing ==
    ASSUME Inv, Parsing
    PROVE  /\ WellFormed(Buffer) /\ Remaining(Buffer) \in Nat
           /\ Holds(Buffer, Buffer.pos, Remaining(Buffer), From)
           /\ From + Remaining(Buffer) <= received
           /\ At \in 1 .. Count
  <1>1. /\ Types /\ Between /\ InNetwork /\ InRest
        /\ cur \in {"network", "rest"} /\ Remaining(Buffer) > 0
    BY DEF Inv, Parsing
  <1>2. /\ From \in Nat /\ received \in Nat /\ Count \in Nat /\ At \in 1 .. Count + 1
    BY <1>1, Numbers
  <1>3. WellFormed(Buffer)
    BY <1>1 DEF Buffer, Types
  <1>4. Remaining(Buffer) \in Nat
    BY <1>3 DEF WellFormed, Buffers, Remaining
  <1>5. /\ Holds(Buffer, Buffer.pos, Remaining(Buffer), From)
        /\ From + Remaining(Buffer) <= received
    <2>1. CASE cur = "network"
      <3>1. Buffer = network
        BY <2>1 DEF Buffer
      <3>2. Remaining(network) = received - From
            /\ Holds(network, network.pos, Remaining(network), From)
        BY <1>1, <2>1 DEF InNetwork
      <3> QED
        BY <1>2, <1>4, <3>1, <3>2
    <2>2. CASE cur = "rest"
      <3> DEFINE lim == rest.lim
      <3>1. Buffer = rest
        BY <2>2 DEF Buffer
      <3>2. /\ rest.pos = 0 /\ Holds(rest, 0, lim, From)
            /\ last = 0 => lim = received - From
            /\ last # 0 => lim = last
            /\ last # 0 /\ ~later => received = From + last
            /\ later => Remaining(network) = received - From - last
        BY <1>1, <2>2 DEF InRest, Known
      <3>3. Remaining(rest) = lim
        <4>1. lim \in Nat
          BY <1>1 DEF Types, WellFormed, Buffers
        <4> QED
          BY <3>2, <4>1 DEF Remaining
      <3>4. Remaining(network) \in Nat /\ last \in Nat
        BY <1>1 DEF Types, WellFormed, Buffers, Remaining
      <3> HIDE DEF lim
      <3>5. From + lim <= received
        BY <1>2, <1>4, <3>1, <3>2, <3>3, <3>4
      <3> QED
        BY <3>1, <3>2, <3>3, <3>5
    <2> QED
      BY <1>1, <2>1, <2>2
  <1>6. At # Count + 1
    <2>1. received <= Total /\ Total = Start(Count + 1) /\ Total \in Nat /\ arrived \in Nat
      <3>1. Stream /\ received <= arrived /\ arrived <= Total /\ arrived \in Nat
        BY <1>1 DEF Types
      <3>2. Total = Start(Count + 1) /\ Start(Count + 1) \in Nat
        BY <1>2, <3>1, StartNext
      <3> QED
        BY <1>2, <3>1, <3>2
    <2>2. SUFFICES ASSUME At = Count + 1
                   PROVE  FALSE
      OBVIOUS
    <2>3. From = Total
      BY <2>1, <2>2 DEF From
    <2> QED
      BY <1>1, <1>2, <1>4, <1>5, <2>1, <2>3
  <1> QED
    BY <1>2, <1>3, <1>4, <1>5, <1>6

\* The header at the position of the buffer is the one of the next packet.
LEMMA Recognised ==
    ASSUME Inv, HasHeader
    PROVE  Packet = At /\ At \in 1 .. Count
  <1>1. Parsing /\ Remaining(Buffer) >= Header /\ Types
    BY DEF HasHeader, Inv
  <1>2. /\ WellFormed(Buffer) /\ Remaining(Buffer) \in Nat
        /\ Holds(Buffer, Buffer.pos, Remaining(Buffer), From)
        /\ At \in 1 .. Count
    BY <1>1, Facing
  <1>3. Header \in Nat /\ Header <= Remaining(Buffer)
    BY <1>1, <1>2, Numbers
  <1>4. SubSeq(Content(Buffer), 1, Header) = [i \in 1 .. Header |-> From + i]
    BY <1>2, <1>3, ContentShape
  <1>5. Packet = HeaderAt(SubSeq(Content(Buffer), 1, Header))
    BY DEF Packet
  <1>6. Stream
    BY <1>1 DEF Types
  <1> DEFINE bytes == SubSeq(Content(Buffer), 1, Header)
  <1>7. bytes = [i \in 1 .. Header |-> Start(At) + i]
    BY <1>4 DEF From
  <1> HIDE DEF bytes
  <1>8. HeaderAt(bytes) = At
    BY <1>2, <1>6, <1>7, HeaderFound
  <1> QED
    BY <1>2, <1>5, <1>8 DEF bytes

\* So the header that is read is that of the next packet.
LEMMA HeaderRead ==
    ASSUME Inv, NEW p \in Headers
    PROVE  HasHeader /\ p = packets[At] /\ At \in 1 .. Count
  <1>1. HasHeader /\ p \in {packets[k] : k \in {Packet} \ {0}}
    BY Zenon DEF Headers
  <1>2. Packet = At /\ At \in 1 .. Count
    BY <1>1, Recognised
  <1> QED
    BY <1>1, <1>2, Zenon

-----------------------------------------------------------------------------
(* The steps keep the invariant *)

\* While nothing is delivered the next packet stays the same.
LEMMA Same ==
    ASSUME Types, UNCHANGED <<packets, first, delivered>>
    PROVE  /\ Stream' /\ At' = At /\ From' = From /\ Total' = Total
           /\ \A k : Enough(k)' = Enough(k)
           /\ InOrder => InOrder'
  <1>1. Stream' /\ At' = At /\ Total' = Total /\ \A k : Start(k)' = Start(k)
    BY DEF Types, Stream, At, Total, Start
  <1>2. From' = From
    BY <1>1 DEF From
  <1>3. \A k : Enough(k)' = Enough(k) /\ BytesOf(k)' = BytesOf(k)
    BY <1>1 DEF Enough, BytesOf
  <1>4. InOrder => InOrder'
    BY <1>1, <1>3 DEF InOrder
  <1> QED
    BY <1>1, <1>2, <1>3, <1>4

\* Bytes arrive, or are reported.
LEMMA KernelKeeps ==
    ASSUME Inv, EpollIn \/ \E n \in 1 .. Total : Arrive(n)
    PROVE  Inv'
  <1>1. UNCHANGED <<packets, first, delivered, received, network, rest, last, cur, later>>
    BY DEF EpollIn, Arrive
  <1>2. /\ Stream' /\ At' = At /\ From' = From /\ Total' = Total /\ InOrder'
        /\ \A k : Enough(k)' = Enough(k)
    BY <1>1, Same DEF Inv
  <1>3. arrived' \in Nat /\ arrived <= arrived' /\ arrived' <= Total
    <2>1. arrived \in Nat /\ Total \in Nat /\ arrived <= Total
      <3>1. Count \in Nat /\ Stream /\ arrived \in Nat /\ arrived <= Total
        BY FramingAssumption DEF Inv, Types
      <3>2. Count + 1 \in 1 .. Count + 1
        BY <3>1
      <3> QED
        BY <3>1, <3>2, StartNext
    <2> QED
      BY <2>1 DEF EpollIn, Arrive
  <1>4. Types'
    <2>1. received \in Nat /\ arrived \in Nat /\ received <= arrived
      BY DEF Inv, Types
    <2>2. received <= arrived'
      BY <1>3, <2>1
    <2> QED
      BY <1>1, <1>2, <1>3, <2>1, <2>2 DEF Inv, Types
  <1>5. Between' /\ InNetwork' /\ InRest'
    BY <1>1, <1>2 DEF Inv, Between, InNetwork, InRest, Known, Holds, Remaining
  <1>6. Later'
    BY <1>1 DEF Inv, Later
  <1> QED
    BY <1>2, <1>4, <1>5, <1>6 DEF Inv

\* The packet the next connection starts with.
LEMMA NewStreamIs ==
    ASSUME Counts, NewStream
    PROVE  \E k \in 1 .. Count + 1 :
               /\ first' = k /\ arrived' = Start(k) /\ received' = Start(k)
               /\ Start(k) \in Nat /\ Start(k) <= Total
               /\ rest' = NoBuffer /\ last' = 0 /\ delivered' = <<>> /\ network' = NoBuffer
               /\ later' = FALSE /\ packets' = packets
  <1> DEFINE unsent == {k \in 1 .. Count + 1 : Start(k) >= arrived}
             k == Min(unsent)
  <1>1. Count \in Nat /\ Stream /\ arrived \in Nat /\ arrived <= Total
    BY FramingAssumption DEF Counts
  <1>2. Count + 1 \in 1 .. Count + 1 /\ Total = Start(Count + 1) /\ Start(Count + 1) \in Nat
    BY <1>1, StartNext
  <1>3. Count + 1 \in unsent /\ unsent \subseteq Nat
    BY <1>1, <1>2
  <1>4. k \in unsent
    <2> HIDE DEF unsent
    <2>1. \E n \in unsent : \A m \in unsent : n <= m
      BY <1>3, LeastNat, Zenon
    <2> QED
      BY <2>1 DEF Min
  <1>5. k \in 1 .. Count + 1
    BY <1>4
  <1>6. /\ first' = k /\ arrived' = Start(k) /\ received' = Start(k)
        /\ rest' = NoBuffer /\ last' = 0 /\ delivered' = <<>> /\ network' = NoBuffer
        /\ later' = FALSE /\ packets' = packets
    BY Zenon DEF NewStream
  <1> HIDE DEF k
  <1>7. Start(k) \in Nat /\ Start(k) <= Total
    <2>1. Start(k) \in Nat
      BY <1>1, <1>5, StartNext
    <2>2. k < Count + 1 => Start(k) < Start(Count + 1)
      BY <1>1, <1>2, <1>5, StartLess
    <2> QED
      BY <1>1, <1>2, <1>5, <2>1, <2>2
  <1> QED
    BY <1>5, <1>6, <1>7, Zenon

\* A new connection starts with nothing.
LEMMA RenewKeeps ==
    ASSUME Counts, Renew
    PROVE  Inv'
  <1>0. NewStream /\ cur' = "idle"
    BY Zenon DEF Renew
  <1>1. PICK k \in 1 .. Count + 1 :
            /\ first' = k /\ arrived' = Start(k) /\ received' = Start(k)
            /\ Start(k) \in Nat /\ Start(k) <= Total
            /\ rest' = NoBuffer /\ last' = 0 /\ delivered' = <<>> /\ network' = NoBuffer
            /\ later' = FALSE /\ packets' = packets
    BY <1>0, NewStreamIs, Zenon
  <1>2. Stream /\ Count \in Nat
    BY FramingAssumption DEF Counts
  <1>3. Stream' /\ Total' = Total /\ \A j : Start(j)' = Start(j)
    BY <1>1, <1>2 DEF Stream, Total, Start
  <1>4. Len(delivered') = 0 /\ delivered' \in Seq(Seq(Nat))
    BY <1>1
  <1>5. At' = k /\ From' = Start(k)
    <2>1. At' = k
      BY <1>1, <1>4 DEF At
    <2> QED
      BY <1>3, <2>1 DEF From
  <1>6. Start(k) \in Nat /\ Start(k) <= Total
    BY <1>1
  <1>7. Types'
    <2>1. WellFormed(rest') /\ Len(rest'.data) = rest'.cap /\ WellFormed(network')
      BY <1>1, NoBufferShape
    <2> QED
      BY <1>0, <1>1, <1>3, <1>4, <1>5, <1>6, <2>1 DEF Types, WellFormed
  <1>8. InOrder'
    BY <1>1, <1>2, <1>4, <1>5 DEF InOrder
  <1>9. Between'
    <2>1. rest'.pos = 0 /\ received' - From' = 0
      BY <1>1, <1>5, <1>6, NoBufferShape
    <2>2. Holds(rest, 0, rest.pos, From)'
      BY <2>1 DEF Holds
    <2>3. k \in 1 .. Count => 0 < Enough(k)'
      <3> SUFFICES ASSUME k \in 1 .. Count
                   PROVE  0 < Enough(k)'
        OBVIOUS
      <3> DEFINE len == Length(packets[k])
                 head == packets[k].head
      <3>1. len \in Nat /\ head \in Nat /\ Header <= head /\ head <= len
        BY <1>2, Lengths
      <3>2. Header \in Nat \ {0}
        BY FramingAssumption
      <3>3. Enough(k)' = IF packets[k].ok THEN len ELSE Header
        BY <1>1 DEF Enough
      <3> HIDE DEF len, head
      <3>4. 0 < len /\ 0 < Header
        BY <3>1, <3>2
      <3> QED
        BY <3>3, <3>4
    <2>4. At' <= Count => At' \in 1 .. Count
      BY <1>2, <1>5
    <2> QED
      BY <1>1, <1>5, <2>1, <2>2, <2>3, <2>4 DEF Between
  <1>10. InNetwork' /\ InRest'
    BY <1>0 DEF InNetwork, InRest
  <1>11. Later'
    BY <1>1, Zenon DEF Later
  <1> QED
    BY <1>7, <1>8, <1>9, <1>10, <1>11 DEF Inv

\* The end of the loop.
LEMMA EndOfBufferKeeps ==
    ASSUME Inv, EndOfBuffer
    PROVE  Inv'
  <1>1. /\ cur \in {"network", "rest"} /\ Remaining(Buffer) = 0
        /\ cur' = "idle" /\ network' = NoBuffer
        /\ UNCHANGED <<packets, first, arrived, received, rest, last, later, delivered>>
    BY DEF EndOfBuffer, kernel, Inv, Types
  <1>2. Types /\ InOrder /\ InNetwork /\ InRest
    BY DEF Inv
  <1>3. cur = "network"
    <2> SUFFICES ASSUME cur = "rest"
                 PROVE  FALSE
      BY <1>1
    <2> DEFINE lim == rest.lim
    <2>1. Buffer = rest /\ rest.pos = 0 /\ lim > 0 /\ lim \in Nat
      BY <1>2 DEF Buffer, InRest, Types, WellFormed, Buffers
    <2>2. Remaining(Buffer) = lim - 0
      BY <2>1 DEF Remaining
    <2> HIDE DEF lim
    <2> QED
      BY <1>1, <2>1, <2>2
  <1>4. rest = NoBuffer /\ received = From
    <2>1. Remaining(network) = received - From /\ rest = NoBuffer /\ Remaining(network) = 0
      BY <1>1, <1>2, <1>3 DEF InNetwork, Buffer
    <2>2. received \in Nat /\ From \in Nat
      BY <1>2, Numbers
    <2> QED
      BY <2>1, <2>2
  <1>5. /\ Stream' /\ At' = At /\ From' = From /\ Total' = Total /\ InOrder'
        /\ \A k : Enough(k)' = Enough(k)
    BY <1>1, <1>2, Same
  <1>6. Types'
    BY <1>1, <1>2, <1>5, NoBufferShape DEF Types
  <1>7. Between'
    <2>1. /\ received \in Nat /\ From \in Nat /\ Count \in Nat /\ At \in 1 .. Count + 1
          /\ Header \in Nat \ {0}
          /\ At \in 1 .. Count => Enough(At) \in Nat /\ Header <= Enough(At)
      BY <1>2, Numbers
    <2>2. rest'.pos = 0 /\ received' - From' = 0 /\ rest' = NoBuffer
      BY <1>1, <1>4, <1>5, <2>1, NoBufferShape
    <2>3. Holds(rest, 0, rest.pos, From)'
      BY <2>2 DEF Holds
    <2>4. At <= Count => 0 < Enough(At)
      BY <2>1
    <2> QED
      BY <1>1, <1>5, <2>2, <2>3, <2>4 DEF Between
  <1>8. InNetwork' /\ InRest'
    BY <1>1 DEF InNetwork, InRest
  <1>9. Later'
    BY <1>1, <1>3 DEF Inv, Later
  <1> QED
    BY <1>5, <1>6, <1>7, <1>8, <1>9 DEF Inv

\* Bytes written behind those of the stream that are there.
LEMMA Joined ==
    ASSUME NEW w, NEW p \in Nat, NEW m \in Nat, NEW from \in Nat,
           \A i \in 1 .. p : w.data[i] = from + i,
           \A i \in 1 .. m : w.data[p + i] = from + p + i
    PROVE  Holds(w, 0, p + m, from)
  <1> SUFFICES ASSUME NEW i \in 1 .. p + m
               PROVE  w.data[0 + i] = from + i
    BY DEF Holds
  <1>1. CASE i <= p
    BY <1>1
  <1>2. CASE ~(i <= p)
    <2>1. i - p \in 1 .. m /\ p + (i - p) = i /\ from + p + (i - p) = from + i /\ 0 + i = i
      BY <1>2
    <2>2. w.data[p + (i - p)] = from + p + (i - p)
      BY <2>1
    <2> QED
      BY <2>1, <2>2
  <1> QED
    BY <1>1, <1>2

\* A step that delivers nothing.
LEMMA Held ==
    ASSUME Types, InOrder, UNCHANGED <<packets, first, delivered, arrived>>,
           received' \in Nat, received <= received', received' <= arrived, last' \in Nat,
           WellFormed(rest'), Len(rest'.data) = rest'.cap, WellFormed(network'),
           cur' \in {"idle", "network", "rest"}
    PROVE  /\ Types' /\ InOrder' /\ At' = At /\ From' = From
           /\ \A k : Enough(k)' = Enough(k)
  <1>1. /\ Stream' /\ At' = At /\ From' = From /\ Total' = Total /\ InOrder'
        /\ \A k : Enough(k)' = Enough(k)
    BY Same
  <1>2. From \in Nat /\ received \in Nat /\ From <= received
    BY Numbers
  <1>3. From' <= received'
    BY <1>1, <1>2
  <1>4. Types'
    BY <1>1, <1>3 DEF Types, WellFormed
  <1> QED
    BY <1>1, <1>4

\* The numbers of a recv.
LEMMA RecvNumbers ==
    ASSUME arrived \in Nat, received \in Nat, Recv
    PROVE  LET n == Min({ReadSize, arrived - received})
           IN  /\ n \in Nat /\ n > 0 /\ n <= ReadSize /\ received' = received + n
               /\ received' \in Nat /\ received <= received' /\ received' <= arrived
               /\ n # ReadSize => received' = arrived
               /\ reading' = ReadsOn(n)
               /\ ~mixed => RecvAfresh(n) \/ RecvHeader(n) \/ RecvBody(n)
               /\ cur = "idle"
               /\ UNCHANGED <<packets, first, arrived, edge, last, delivered, mixed, inLoop>>
  <1> DEFINE S == {ReadSize, arrived - received}
             n == Min(S)
  <1>1. ReadSize \in Nat \ {0} /\ arrived \in Nat /\ received \in Nat
    BY FramingAssumption
  <1>2. /\ cur = "idle" /\ arrived > received /\ received' = received + n
        /\ reading' = ReadsOn(n)
        /\ ~mixed => RecvAfresh(n) \/ RecvHeader(n) \/ RecvBody(n)
        /\ UNCHANGED <<packets, first, arrived, edge, last, delivered, mixed, inLoop>>
    BY DEF Recv, kernel
  <1>3. S \subseteq Nat /\ S # {}
    BY <1>1, <1>2
  <1>4. n \in S
    <2> HIDE DEF S
    <2>1. \E x \in S : \A y \in S : x <= y
      BY <1>3, LeastNat, Zenon
    <2> QED
      BY <2>1 DEF Min
  <1>5. n <= ReadSize /\ n <= arrived - received
    <2>1. \E x \in S : \A y \in S : x <= y
      <3> HIDE DEF S
      <3> QED
        BY <1>3, LeastNat, Zenon
    <2>2. \A y \in S : n <= y
      <3> HIDE DEF S
      <3> QED
        BY <2>1 DEF Min
    <2> HIDE DEF n
    <2> QED
      BY <2>2
  <1> HIDE DEF n
  <1>6. n \in Nat /\ n > 0 /\ (n = ReadSize \/ n = arrived - received)
    BY <1>1, <1>2, <1>3, <1>4
  <1> QED
    BY <1>1, <1>2, <1>5, <1>6 DEF n

\* The same, while the parser is in order.
LEMMA RecvCount ==
    ASSUME Inv, Recv
    PROVE  LET n == Min({ReadSize, arrived - received})
           IN  /\ n \in Nat /\ n > 0 /\ n <= ReadSize /\ received' = received + n
               /\ received' \in Nat /\ received <= received' /\ received' <= arrived
               /\ ~mixed => RecvAfresh(n) \/ RecvHeader(n) \/ RecvBody(n)
               /\ UNCHANGED <<packets, first, arrived, edge, last, delivered>>
  <1>1. arrived \in Nat /\ received \in Nat
    BY DEF Inv, Types
  <1> QED
    BY <1>1, RecvNumbers, Zenon

\* Nothing was left over.
LEMMA RecvAfreshKeeps ==
    ASSUME Inv, Recv, NEW n \in Nat, n <= ReadSize, received' = received + n, RecvAfresh(n)
    PROVE  Inv'
  <1>1. Types /\ InOrder /\ Between /\ cur = "idle" /\ rest = NoBuffer
    BY DEF Inv, Recv, RecvAfresh
  <1>2. /\ received' \in Nat /\ received <= received' /\ received' <= arrived
        /\ UNCHANGED <<packets, first, arrived, last, delivered>>
    BY RecvCount
  <1>3. network' = Input(n) /\ cur' = "network" /\ rest' = NoBuffer
    BY <1>1 DEF RecvAfresh
  <1>4. received \in Nat /\ From \in Nat /\ last \in Nat
    BY <1>1, Numbers DEF Types
  <1>5. /\ WellFormed(network') /\ network'.pos = 0 /\ network'.lim = n
        /\ Holds(network', 0, n, received)
    BY <1>3, <1>4, InputShape
  <1>6. Types' /\ InOrder' /\ From' = From
    BY <1>1, <1>2, <1>3, <1>4, <1>5, NoBufferShape, Held
  <1>7. received = From
    BY <1>1, <1>4, NoBufferShape DEF Between
  <1>8. Remaining(network)' = n
    BY <1>5 DEF Remaining
  <1>9. Remaining(network)' = received' - From'
    BY <1>4, <1>6, <1>7, <1>8
  <1>10. Holds(network, network.pos, Remaining(network), From)'
    BY <1>5, <1>6, <1>7, <1>8 DEF Holds
  <1>11. InNetwork' /\ Between' /\ InRest'
    BY <1>3, <1>9, <1>10 DEF InNetwork, Between, InRest
  <1>12. Later'
    BY Zenon DEF RecvAfresh, Later
  <1> QED
    BY <1>6, <1>11, <1>12 DEF Inv

\* A step to the parsing of rest, of which nothing is known yet.
LEMMA RestStarts ==
    ASSUME Types', InOrder', cur' = "rest", last' = 0, ~later',
           later' \in BOOLEAN, rest'.pos = 0, rest'.lim > 0,
           rest'.lim = received' - From', Holds(rest', 0, rest'.lim, From')
    PROVE  Inv'
  <1>1. Between' /\ InNetwork'
    BY DEF Between, InNetwork
  <1>2. InRest'
    BY DEF InRest
  <1>3. Later'
    BY DEF Later
  <1> QED
    BY <1>1, <1>2, <1>3 DEF Inv

\* Part of a header was left over: what it becomes with the bytes received.
LEMMA HeaderJoined ==
    ASSUME Inv, cur = "idle", NEW n \in Nat, n <= ReadSize, rest # NoBuffer, last = 0
    PROVE  LET joined == IF rest.cap - rest.pos >= n
                         THEN WriteBytes(SetLimit(rest, rest.pos + n), Input(n))
                         ELSE WriteBytes(WriteBytes(GetBuffer(rest.lim + n),
                                                    [rest EXCEPT !.pos = 0]), Input(n))
           IN  /\ WellFormed(joined) /\ Len(joined.data) = joined.cap
               /\ joined.lim = received - From + n
               /\ Holds(joined, 0, received - From + n, From)
  <1> DEFINE p == rest.pos
             cap == rest.cap
  <1>1. Types /\ WellFormed(rest) /\ Len(rest.data) = rest.cap
    BY DEF Inv, Types
  <1>2. /\ rest.lim = p /\ p = received - From /\ Holds(rest, 0, p, From)
    BY DEF Inv, Between
  <1>3. /\ received \in Nat /\ From \in Nat /\ p \in Nat /\ cap \in Nat /\ p <= cap
    BY <1>1, <1>2, Numbers DEF WellFormed, Buffers
  <1>4. \A i \in 1 .. p : rest.data[i] = From + i
    <2>1. \A i \in 1 .. p : rest.data[0 + i] = From + i
      BY <1>2 DEF Holds
    <2> HIDE DEF p
    <2> QED
      BY <1>3, <2>1
  <1>5. /\ WellFormed(Input(n)) /\ Input(n).pos = 0 /\ Input(n).lim = n
        /\ Remaining(Input(n)) = n
        /\ \A i \in 1 .. n : Input(n).data[0 + i] = received + i
    <2>1. /\ WellFormed(Input(n)) /\ Input(n).pos = 0 /\ Input(n).lim = n
          /\ Holds(Input(n), 0, n, received)
      BY <1>3, InputShape, Zenon
    <2> QED
      BY <2>1 DEF Holds, Remaining
  <1>6. ASSUME NEW b, WellFormed(b), Len(b.data) = b.cap, b.pos = p, b.lim = p + n,
               \A i \in 1 .. p : b.data[i] = From + i
        PROVE  LET w == WriteBytes(b, Input(n))
               IN  /\ WellFormed(w) /\ Len(w.data) = w.cap /\ w.lim = received - From + n
                   /\ Holds(w, 0, received - From + n, From)
    <2> DEFINE w == WriteBytes(b, Input(n))
    <2>0. b.pos + Remaining(Input(n)) <= b.lim
      <3> HIDE DEF p
      <3> QED
        BY <1>3, <1>5, <1>6
    <2>1. /\ WellFormed(w) /\ Len(w.data) = w.cap /\ w.lim = b.lim
          /\ \A i \in 1 .. b.pos : w.data[i] = b.data[i]
          /\ \A i \in 1 .. Remaining(Input(n)) : w.data[b.pos + i] = Input(n).data[Input(n).pos + i]
      <3>1. Appended(b, Input(n), w)
        BY <1>5, <1>6, <2>0, WriteAppends, Zenon
      <3> QED
        BY <3>1, Zenon DEF Appended
    <2> HIDE DEF w, p
    <2>2. \A i \in 1 .. p : w.data[i] = From + i
      BY <1>6, <2>1
    <2>3. \A i \in 1 .. n : w.data[p + i] = From + p + i
      <3> TAKE i \in 1 .. n
      <3>1. w.data[p + i] = Input(n).data[0 + i]
        BY <1>5, <1>6, <2>1
      <3>2. received + i = From + p + i
        BY <1>2, <1>3
      <3> QED
        BY <1>5, <3>1, <3>2
    <2>4. Holds(w, 0, p + n, From)
      BY <1>3, <2>2, <2>3, Joined
    <2> QED
      BY <1>2, <1>6, <2>1, <2>4 DEF w
  <1>7. CASE cap - p >= n
    <2> DEFINE b == SetLimit(rest, p + n)
    <2>1. p + n \in Nat /\ rest.pos <= p + n /\ p + n <= rest.cap /\ p + n <= Len(rest.data)
      <3>1. p + n \in Nat /\ p <= p + n /\ p + n <= cap
        <4> HIDE DEF p, cap
        <4> QED
          BY <1>3, <1>7
      <3> QED
        BY <1>1, <3>1
    <2>2. /\ WellFormed(b) /\ b.pos = rest.pos /\ b.lim = p + n /\ b.cap = rest.cap
          /\ b.data = rest.data
      <3> HIDE DEF p
      <3> QED
        BY <1>1, <2>1, LimitShape
    <2> HIDE DEF b
    <2>3. WellFormed(b) /\ Len(b.data) = b.cap /\ b.pos = p /\ b.lim = p + n
          /\ \A i \in 1 .. p : b.data[i] = From + i
      BY <1>1, <1>4, <2>2, ZenonT(30)
    <2>4. LET w == WriteBytes(b, Input(n))
          IN  /\ WellFormed(w) /\ Len(w.data) = w.cap /\ w.lim = received - From + n
              /\ Holds(w, 0, received - From + n, From)
      <3> HIDE DEF p
      <3> QED
        BY <1>6, <2>3
    <2> QED
      BY <1>7, <2>4 DEF b
  <1>8. CASE ~(cap - p >= n)
    <2> DEFINE g == GetBuffer(rest.lim + n)
               r == [rest EXCEPT !.pos = 0]
               b == WriteBytes(g, r)
    <2>1. rest.lim + n = p + n /\ p + n \in Nat
      BY <1>2, <1>3
    <2>2. WellFormed(g) /\ Len(g.data) = g.cap /\ g.pos = 0 /\ g.lim = p + n
      BY <2>1, GetBufferShape
    <2>3. WellFormed(r) /\ r.pos = 0 /\ r.lim = rest.lim /\ r.data = rest.data
      <3>1. 0 \in Nat /\ 0 <= rest.lim
        BY <1>2, <1>3
      <3> QED
        BY <1>1, <3>1, PositionShape, Zenon
    <2>4. Remaining(r) = p
      BY <1>2, <1>3, <2>3 DEF Remaining
    <2> HIDE DEF g, r
    <2>5. g.pos + Remaining(r) <= g.lim
      <3> HIDE DEF p
      <3> QED
        BY <1>3, <2>2, <2>4
    <2>6. /\ WellFormed(b) /\ Len(b.data) = b.cap /\ b.pos = g.pos + Remaining(r) /\ b.lim = g.lim
          /\ \A i \in 1 .. Remaining(r) : b.data[g.pos + i] = r.data[r.pos + i]
      <3>1. Appended(g, r, b)
        BY <2>2, <2>3, <2>5, WriteAppends, Zenon
      <3> QED
        BY <3>1, Zenon DEF Appended
    <2> HIDE DEF b
    <2>7. WellFormed(b) /\ Len(b.data) = b.cap /\ b.pos = p /\ b.lim = p + n
          /\ \A i \in 1 .. p : b.data[i] = From + i
      <3> HIDE DEF p
      <3>1. b.pos = p
        BY <1>3, <2>2, <2>4, <2>6
      <3>2. ASSUME NEW i \in 1 .. p
            PROVE  b.data[i] = From + i
        <4>1. 0 + i = i
          BY <1>3
        <4>2. b.data[0 + i] = rest.data[0 + i]
          BY <2>2, <2>3, <2>4, <2>6
        <4> QED
          BY <1>4, <4>1, <4>2
      <3> QED
        BY <2>2, <2>6, <3>1, <3>2
    <2>8. LET w == WriteBytes(b, Input(n))
          IN  /\ WellFormed(w) /\ Len(w.data) = w.cap /\ w.lim = received - From + n
              /\ Holds(w, 0, received - From + n, From)
      <3> HIDE DEF p
      <3> QED
        BY <1>6, <2>7
    <2> QED
      BY <1>8, <2>8 DEF b, g, r
  <1> QED
    BY <1>7, <1>8

\* The bytes join the part of a header.
LEMMA RecvHeaderKeeps ==
    ASSUME Inv, Recv, NEW n \in Nat, n > 0, n <= ReadSize, received' = received + n, RecvHeader(n)
    PROVE  Inv'
  <1> DEFINE joined == IF rest.cap - rest.pos >= n
                       THEN WriteBytes(SetLimit(rest, rest.pos + n), Input(n))
                       ELSE WriteBytes(WriteBytes(GetBuffer(rest.lim + n),
                                                  [rest EXCEPT !.pos = 0]), Input(n))
  <1>1. Types /\ InOrder /\ cur = "idle" /\ rest # NoBuffer /\ last = 0
    BY DEF Inv, Recv, RecvHeader
  <1>2. /\ received' \in Nat /\ received <= received' /\ received' <= arrived
        /\ UNCHANGED <<packets, first, arrived, last, delivered>>
    BY RecvCount
  <1>3. network' = NoBuffer /\ cur' = "rest" /\ rest' = [joined EXCEPT !.pos = 0]
    BY DEF RecvHeader
  <1>4. /\ WellFormed(joined) /\ Len(joined.data) = joined.cap
        /\ joined.lim = received - From + n
        /\ Holds(joined, 0, received - From + n, From)
    BY <1>1, HeaderJoined
  <1> HIDE DEF joined
  <1>5. received \in Nat /\ From \in Nat /\ From <= received
    BY <1>1, Numbers
  <1>6. 0 \in Nat /\ 0 <= joined.lim
    BY <1>4, <1>5
  <1>7. /\ WellFormed(rest') /\ rest'.pos = 0 /\ rest'.lim = joined.lim /\ rest'.cap = joined.cap
        /\ rest'.data = joined.data
    BY <1>3, <1>4, <1>6, PositionShape, Zenon
  <1>8. Types' /\ InOrder' /\ From' = From
    BY <1>1, <1>2, <1>3, <1>4, <1>7, NoBufferShape, Held
  <1>9. rest'.lim = received' - From' /\ rest'.lim > 0
    BY <1>4, <1>5, <1>7, <1>8
  <1>10. Holds(rest', 0, rest'.lim, From')
    BY <1>4, <1>7, <1>8 DEF Holds
  <1>11. ~later' /\ later' \in BOOLEAN
    BY Zenon DEF RecvHeader
  <1>12. last' = 0 /\ cur' = "rest"
    BY <1>1, <1>2, <1>3
  <1> QED
    BY <1>7, <1>8, <1>9, <1>10, <1>11, <1>12, RestStarts

\* Part of a packet was left over: what it becomes with what it lacks.
LEMMA BodyFilled ==
    ASSUME Inv, cur = "idle", NEW n \in Nat, n <= ReadSize, rest # NoBuffer, last # 0
    PROVE  LET len == Missing(n)
               filled == WriteBytes(rest, SetLimit(Input(n), len))
           IN  /\ len \in Nat /\ len <= n /\ received - From + len <= last
               /\ received - From + len # last => len = n
               /\ WellFormed(filled) /\ Len(filled.data) = filled.cap
               /\ filled.pos = received - From + len /\ filled.lim = last
               /\ Holds(filled, 0, received - From + len, From)
  <1> DEFINE p == rest.pos
             len == Missing(n)
             src == SetLimit(Input(n), len)
             w == WriteBytes(rest, src)
  <1>1. Types /\ WellFormed(rest) /\ Len(rest.data) = rest.cap
    BY DEF Inv, Types
  <1>2. /\ p = received - From /\ Holds(rest, 0, p, From) /\ rest.lim = last /\ p < last
    BY Zenon DEF Inv, Between, Known
  <1>3. received \in Nat /\ From \in Nat /\ p \in Nat /\ last \in Nat /\ ReadSize \in Nat
    BY <1>1, Numbers DEF WellFormed, Buffers, Types
  <1>4. \A i \in 1 .. p : rest.data[i] = From + i
    <2>1. \A i \in 1 .. p : rest.data[0 + i] = From + i
      BY <1>2 DEF Holds
    <2> HIDE DEF p
    <2> QED
      BY <1>3, <2>1
  <1>5. len = IF last - p <= n THEN last - p ELSE n
    BY DEF Missing
  <1> HIDE DEF len, p
  <1>6. len \in Nat /\ len <= n /\ p + len <= last /\ (p + len # last => len = n)
    BY <1>2, <1>3, <1>5
  <1>7. /\ WellFormed(Input(n)) /\ Input(n).pos = 0 /\ Input(n).lim = n /\ Input(n).cap = ReadSize
        /\ Holds(Input(n), 0, n, received)
    BY <1>3, InputShape
  <1>8. Len(Input(n).data) \in Nat /\ n <= Len(Input(n).data)
    BY <1>7 DEF WellFormed, Buffers
  <1>9. /\ WellFormed(src) /\ src.pos = 0 /\ src.lim = len /\ src.data = Input(n).data
    <2>1. Input(n).pos <= len /\ len <= Input(n).cap /\ len <= Len(Input(n).data)
      BY <1>3, <1>6, <1>7, <1>8
    <2> QED
      BY <1>6, <1>7, <2>1, LimitShape
  <1>10. Remaining(src) = len
    BY <1>6, <1>9 DEF Remaining
  <1> HIDE DEF src
  <1>11. rest.pos + Remaining(src) <= rest.lim
    BY <1>2, <1>6, <1>10, Zenon DEF p
  <1>12. /\ WellFormed(w) /\ Len(w.data) = w.cap
         /\ w.pos = rest.pos + Remaining(src) /\ w.lim = rest.lim
         /\ \A i \in 1 .. rest.pos : w.data[i] = rest.data[i]
         /\ \A i \in 1 .. Remaining(src) : w.data[rest.pos + i] = src.data[src.pos + i]
    <2>1. Appended(rest, src, w)
      BY <1>1, <1>9, <1>11, WriteAppends, Zenon
    <2> QED
      BY <2>1, Zenon DEF Appended
  <1> HIDE DEF w
  <1>13. \A i \in 1 .. p : w.data[i] = From + i
    BY <1>4, <1>12 DEF p
  <1>14. \A i \in 1 .. len : w.data[p + i] = From + p + i
    <2> TAKE i \in 1 .. len
    <2>1. w.data[p + i] = Input(n).data[0 + i]
      BY <1>9, <1>10, <1>12 DEF p
    <2>2. i \in 1 .. n /\ received + i = From + p + i
      BY <1>2, <1>3, <1>6
    <2> QED
      BY <1>7, <2>1, <2>2 DEF Holds
  <1>15. Holds(w, 0, p + len, From)
    BY <1>3, <1>6, <1>13, <1>14, Joined
  <1>16. w.pos = p + len /\ w.lim = last
    BY <1>2, <1>10, <1>12 DEF p
  <1> QED
    BY <1>2, <1>6, <1>12, <1>15, <1>16, Zenon DEF w, src, len

\* The bytes fill the part of a packet.
LEMMA RecvBodyKeeps ==
    ASSUME Inv, Recv, NEW n \in Nat, n <= ReadSize, received' = received + n, RecvBody(n)
    PROVE  Inv'
  <1> DEFINE len == Missing(n)
             filled == WriteBytes(rest, SetLimit(Input(n), len))
             p == received - From
             whole == filled.pos = last
  <1>1. Types /\ InOrder /\ cur = "idle" /\ rest # NoBuffer /\ last # 0 /\ Known
    BY DEF Inv, Recv, RecvBody, Between
  <1>2. /\ received' \in Nat /\ received <= received' /\ received' <= arrived
        /\ UNCHANGED <<packets, first, arrived, last, delivered>>
    BY RecvCount
  <1>3. /\ network' = IF whole /\ len < n THEN [Input(n) EXCEPT !.pos = len] ELSE NoBuffer
        /\ cur' = IF whole THEN "rest" ELSE "idle"
        /\ rest' = IF whole THEN [filled EXCEPT !.pos = 0] ELSE filled
    BY DEF RecvBody
  <1>4. later' = (whole /\ len < n)
    BY Zenon DEF RecvBody
  <1>5. /\ len \in Nat /\ len <= n /\ p + len <= last /\ (p + len # last => len = n)
        /\ WellFormed(filled) /\ Len(filled.data) = filled.cap
        /\ filled.pos = p + len /\ filled.lim = last /\ Holds(filled, 0, p + len, From)
    BY <1>1, BodyFilled, Zenon
  <1>6. received \in Nat /\ From \in Nat /\ p \in Nat /\ last \in Nat /\ n \in Nat
    BY <1>1, Numbers, SMTT(30) DEF Types
  <1>7. received = From + p
    BY <1>6
  <1>8. /\ WellFormed(Input(n)) /\ Input(n).lim = n /\ Holds(Input(n), 0, n, received)
    BY <1>6, InputShape
  <1>9. /\ WellFormed([Input(n) EXCEPT !.pos = len])
        /\ [Input(n) EXCEPT !.pos = len].pos = len /\ [Input(n) EXCEPT !.pos = len].lim = n
        /\ [Input(n) EXCEPT !.pos = len].data = Input(n).data
    BY <1>5, <1>8, PositionShape
  <1> DEFINE tail == [Input(n) EXCEPT !.pos = len]
  <1> HIDE DEF len, filled, p, tail
  <1>10. WellFormed(network')
    BY <1>3, <1>9, NoBufferShape DEF tail
  <1>11. CASE filled.pos = last
    <2>1. /\ cur' = "rest" /\ rest' = [filled EXCEPT !.pos = 0] /\ p + len = last
      BY <1>3, <1>5, <1>11
    <2>2. /\ WellFormed(rest') /\ rest'.pos = 0 /\ rest'.lim = last /\ rest'.cap = filled.cap
          /\ rest'.data = filled.data
      <3>1. 0 \in Nat /\ 0 <= filled.lim
        BY <1>5, <1>6
      <3> QED
        BY <1>5, <2>1, <3>1, PositionShape, Zenon
    <2>3. Types' /\ InOrder' /\ At' = At /\ From' = From
      <3>1. Len(rest'.data) = rest'.cap
        BY <1>5, <2>2
      <3> QED
        BY <1>1, <1>2, <1>6, <1>10, <2>1, <2>2, <3>1, Held
    <2>4. Known'
      BY <1>1, <1>2, <2>2, <2>3 DEF Known
    <2>5. Holds(rest', 0, rest'.lim, From')
      BY <1>5, <2>1, <2>2, <2>3 DEF Holds
    <2>6. rest'.lim > 0 /\ last' # 0
      BY <1>1, <1>2, <1>6, <2>2
    <2>7. ASSUME len < n
          PROVE  /\ Remaining(network)' = received' - From' - last'
                 /\ Holds(network, network.pos, Remaining(network), From + last)'
      <3>1. network' = tail
        BY <1>3, <1>11, <2>7 DEF tail
      <3>2. tail.pos = len /\ tail.lim = n /\ tail.data = Input(n).data
        BY <1>9 DEF tail
      <3>3. Remaining(network)' = n - len
        BY <3>1, <3>2 DEF Remaining
      <3>4. n - len = received' - From' - last'
        BY <1>2, <1>5, <1>6, <1>7, <2>1, <2>3, SMTT(30)
      <3>5. ASSUME NEW i \in 1 .. n - len
            PROVE  tail.data[len + i] = (From + last) + i
        <4>1. len + i \in 1 .. n /\ 0 + (len + i) = len + i
          BY <1>5, <1>6
        <4>2. Input(n).data[0 + (len + i)] = received + (len + i)
          BY <1>8, <4>1 DEF Holds
        <4>3. received + (len + i) = (From + last) + i
          BY <1>5, <1>6, <1>7, <2>1
        <4> QED
          BY <3>2, <4>1, <4>2, <4>3
      <3> QED
        BY <1>2, <2>3, <3>1, <3>2, <3>3, <3>4, <3>5 DEF Holds
    <2>8. ~(len < n) => received' = From' + last'
      BY <1>2, <1>5, <1>6, <1>7, <2>1, <2>3
    <2>9. later' <=> len < n
      BY <1>4, <1>11, Zenon
    <2>10. InRest'
      BY <2>2, <2>4, <2>5, <2>6, <2>7, <2>8, <2>9 DEF InRest
    <2>11. Between' /\ InNetwork'
      BY <2>1 DEF Between, InNetwork
    <2>12. Later'
      BY <1>4, <2>1 DEF Later
    <2> QED
      BY <2>3, <2>10, <2>11, <2>12 DEF Inv
  <1>12. CASE filled.pos # last
    <2>1. cur' = "idle" /\ rest' = filled /\ len = n /\ p + n # last
      BY <1>3, <1>5, <1>12
    <2>2. /\ Types' /\ InOrder' /\ At' = At /\ From' = From
          /\ \A k : Enough(k)' = Enough(k)
      BY <1>1, <1>2, <1>5, <1>6, <1>10, <2>1, Held
    <2>3. Known'
      BY <1>1, <1>2, <1>5, <2>1, <2>2 DEF Known
    <2>4. rest'.pos = received' - From' /\ rest'.pos = p + n /\ p + n < last
      BY <1>5, <1>6, <1>7, <2>1, <2>2
    <2>5. Holds(rest, 0, rest.pos, From)'
      BY <1>5, <2>1, <2>2, <2>4, Zenon
    <2>6. Enough(At)' = last
      BY <1>1, <2>2 DEF Enough, Known
    <2>7. rest' # NoBuffer /\ rest'.pos > 0
      <3>1. p > 0
        BY <1>1 DEF Inv, Between, p
      <3> QED
        BY <1>6, <2>4, <3>1, NoBufferShape
    <2>8. Between'
      BY <1>1, <1>2, <2>2, <2>3, <2>4, <2>5, <2>6, <2>7 DEF Between
    <2>9. InNetwork' /\ InRest'
      BY <2>1 DEF InNetwork, InRest
    <2>10. Later'
      BY <1>4, <1>12, Zenon DEF Later
    <2> QED
      BY <2>2, <2>8, <2>9, <2>10 DEF Inv
  <1> QED
    BY <1>11, <1>12, Zenon

\* The end of a call that keeps what is left for the next one.
LEMMA RestEnds ==
    ASSUME Types', InOrder', cur' = "idle", ~later', later' \in BOOLEAN,
           rest' # NoBuffer, rest'.pos > 0, rest'.pos = received' - From',
           Holds(rest', 0, rest'.pos, From'), received' - From' < Enough(At)',
           last' = 0 => rest'.lim = rest'.pos,
           last' # 0 => Known' /\ rest'.pos < last'
    PROVE  Inv'
  <1>1. Between'
    BY DEF Between
  <1>2. InNetwork' /\ InRest'
    BY DEF InNetwork, InRest
  <1>3. Later'
    BY ZenonT(30) DEF Later
  <1> QED
    BY <1>1, <1>2, <1>3 DEF Inv

\* What is left of the network buffer, in a buffer of the given size.
LEMMA Copied ==
    ASSUME Inv, Parsing, NEW size \in Nat, Remaining(Buffer) <= size
    PROVE  LET w == WriteBytes(GetBuffer(size), Buffer)
           IN  /\ WellFormed(w) /\ Len(w.data) = w.cap /\ w.lim = size
               /\ w.pos = Remaining(Buffer) /\ Holds(w, 0, Remaining(Buffer), From)
  <1> DEFINE g == GetBuffer(size)
             m == Remaining(Buffer)
             w == WriteBytes(g, Buffer)
  <1>1. WellFormed(g) /\ Len(g.data) = g.cap /\ g.pos = 0 /\ g.lim = size
    BY GetBufferShape
  <1>2. WellFormed(Buffer) /\ m \in Nat /\ Holds(Buffer, Buffer.pos, m, From)
    BY Facing
  <1>3. g.pos + Remaining(Buffer) <= g.lim
    <2>1. m <= size
      BY Zenon
    <2> HIDE DEF m, g
    <2> QED
      BY <1>1, <1>2, <2>1 DEF m
  <1> HIDE DEF g
  <1>4. /\ WellFormed(w) /\ Len(w.data) = w.cap
        /\ w.pos = g.pos + Remaining(Buffer) /\ w.lim = g.lim
        /\ \A i \in 1 .. Remaining(Buffer) : w.data[g.pos + i] = Buffer.data[Buffer.pos + i]
    <2>1. Appended(g, Buffer, w)
      BY <1>1, <1>2, <1>3, WriteAppends, ZenonT(30)
    <2> QED
      BY <2>1, Zenon DEF Appended
  <1> HIDE DEF w, m
  <1>5. w.pos = m
    BY <1>1, <1>2, <1>4, SMTT(30) DEF m
  <1>6. Holds(w, 0, m, From)
    BY <1>1, <1>2, <1>4 DEF Holds, m
  <1> QED
    BY <1>1, <1>4, <1>5, <1>6, Zenon DEF w, m, g

\* While rest is parsed and the packet is not complete, it holds all that was received.
LEMMA RestOnly ==
    ASSUME Inv, Parsing, cur = "rest",
           ~HasHeader \/ (HasHeader /\ Remaining(Buffer) < Length(packets[At]))
    PROVE  /\ last = 0 /\ ~later /\ rest # NoBuffer /\ rest.pos = 0
           /\ Remaining(Buffer) = rest.lim /\ rest.lim = received - From
           /\ Holds(rest, 0, rest.lim, From) /\ rest.lim > 0 /\ rest.lim \in Nat
  <1> DEFINE lim == rest.lim
             len == Length(packets[At])
             head == packets[At].head
  <1>1. Types /\ InRest
    BY Zenon DEF Inv
  <1>2. /\ rest.pos = 0 /\ lim > 0 /\ Holds(rest, 0, lim, From) /\ lim \in Nat
        /\ last = 0 => lim = received - From
        /\ last # 0 => Known
        /\ later => last # 0
    BY <1>1 DEF InRest, Types, WellFormed, Buffers
  <1>3. Buffer = rest /\ Remaining(Buffer) = lim
    <2>1. Buffer = rest
      BY DEF Buffer
    <2> QED
      BY <1>2, <2>1 DEF Remaining
  <1>4. At \in 1 .. Count
    BY Facing
  <1>5. len \in Nat /\ head \in Nat /\ Header \in Nat /\ Header <= head /\ head <= len
    BY <1>1, <1>4, Numbers
  <1>6. lim < len
    <2>1. CASE ~HasHeader
      <3>1. ~(lim >= Header)
        BY <1>3, <2>1 DEF HasHeader
      <3> HIDE DEF lim, len, head
      <3> QED
        BY <1>2, <1>5, <3>1
    <2>2. CASE HasHeader
      BY <1>3, <2>2
    <2> QED
      BY <2>1, <2>2
  <1>7. last = 0
    <2> SUFFICES ASSUME last # 0
                 PROVE  FALSE
      OBVIOUS
    <2>1. lim = len
      BY <1>2 DEF Known
    <2> HIDE DEF lim, len
    <2> QED
      BY <1>2, <1>5, <1>6, <2>1
  <1>8. rest # NoBuffer
    BY <1>2, NoBufferShape
  <1> QED
    BY <1>2, <1>3, <1>7, <1>8

\* While the network buffer is parsed it holds all that was received.
LEMMA NetworkOnly ==
    ASSUME Inv, Parsing, cur # "rest"
    PROVE  ~later /\ rest = NoBuffer /\ Remaining(Buffer) = received - From
  <1>1. cur = "network" /\ Buffer = network
    BY DEF Parsing, Buffer
  <1> QED
    BY <1>1 DEF Inv, Later, InNetwork

\* restHeader.
LEMMA RestHeaderKeeps ==
    ASSUME Inv, RestHeader
    PROVE  Inv'
  <1> DEFINE m == Remaining(Buffer)
             copy == WriteBytes(GetBuffer(RestSize), Buffer)
  <1>1. /\ cur' = "idle" /\ network' = NoBuffer
        /\ UNCHANGED <<packets, first, arrived, received, later, delivered>>
    BY DEF RestHeader, kernel
  <1>2. Types /\ InOrder
    BY Zenon DEF Inv
  <1>3. Parsing /\ (~HasHeader \/ (HasHeader /\ packets[At].ok /\ m < packets[At].head))
    <2>1. (Parsing /\ ~HasHeader) \/ \E p \in Headers : p.ok /\ m < p.head
      BY Zenon DEF RestHeader
    <2> QED
      BY <2>1, HeaderRead, Zenon DEF HasHeader
  <1>4. m \in Nat /\ At \in 1 .. Count /\ m > 0
    BY <1>3, Facing, Zenon DEF Parsing
  <1>5. /\ Header \in Nat /\ RestSize \in Nat /\ packets[At].head \in Nat
        /\ Length(packets[At]) \in Nat /\ Enough(At) \in Nat
        /\ Header <= packets[At].head /\ packets[At].head <= Length(packets[At])
        /\ packets[At].head <= RestSize /\ Header <= Enough(At)
        /\ received \in Nat /\ From \in Nat /\ last \in Nat
    BY <1>2, <1>4, Numbers, ZenonT(30) DEF Types
  <1>6. m < packets[At].head /\ m < Enough(At) /\ m < Length(packets[At]) /\ m <= RestSize
    <2> DEFINE head == packets[At].head
               len == Length(packets[At])
    <2>1. CASE ~HasHeader
      <3>1. ~(m >= Header)
        BY <1>3, <2>1 DEF HasHeader
      <3> HIDE DEF m, head, len
      <3> QED
        BY <1>4, <1>5, <3>1 DEF head, len
    <2>2. CASE packets[At].ok /\ m < head
      <3>1. Enough(At) = len
        BY <2>2 DEF Enough
      <3> HIDE DEF m, head, len
      <3> QED
        BY <1>4, <1>5, <2>2, <3>1 DEF head, len
    <2> QED
      BY <1>3, <2>1, <2>2
  <1>7. ~later' /\ later' \in BOOLEAN /\ m = received - From
    <2>1. ~later /\ m = received - From
      <3>1. CASE cur = "rest"
        <4>1. ~HasHeader \/ (HasHeader /\ Remaining(Buffer) < Length(packets[At]))
          BY <1>3, <1>6, Zenon
        <4> QED
          BY <1>3, <3>1, <4>1, RestOnly
      <3> QED
        BY <1>3, <3>1, NetworkOnly
    <2> QED
      BY <1>1, <2>1, Zenon DEF Inv, Later
  <1>8. CASE rest = NoBuffer \/ rest.pos # 0
    <2>1. rest' = SetLimit(copy, copy.pos) /\ last' = 0
      BY <1>8, ZenonT(30) DEF RestHeader
    <2>2. /\ WellFormed(copy) /\ Len(copy.data) = copy.cap /\ copy.lim = RestSize
          /\ copy.pos = m /\ Holds(copy, 0, m, From)
      BY <1>3, <1>5, <1>6, Copied
    <2> HIDE DEF copy
    <2>3. /\ WellFormed(rest') /\ rest'.pos = m /\ rest'.lim = m /\ rest'.cap = copy.cap
          /\ rest'.data = copy.data
      <3>1. copy.pos \in Nat /\ copy.pos <= copy.pos /\ copy.pos <= copy.cap
            /\ copy.pos <= Len(copy.data)
        BY <1>4, <2>2 DEF WellFormed, Buffers
      <3> QED
        BY <2>1, <2>2, <3>1, LimitShape
    <2>4. /\ Types' /\ InOrder' /\ At' = At /\ From' = From /\ \A k : Enough(k)' = Enough(k)
      <3>1. Len(rest'.data) = rest'.cap /\ received \in Nat /\ received <= arrived
        BY <1>2, <2>2, <2>3, Zenon DEF Types
      <3> QED
        BY <1>1, <1>2, <1>5, <2>1, <2>3, <3>1, NoBufferShape, Held, SMTT(30)
    <2>5. Holds(rest', 0, rest'.pos, From') /\ rest' # NoBuffer
      BY <1>4, <2>2, <2>3, <2>4, NoBufferShape DEF Holds
    <2>6. /\ rest'.pos > 0 /\ rest'.pos = received' - From' /\ received' - From' < Enough(At)'
          /\ rest'.lim = rest'.pos
      BY <1>1, <1>4, <1>6, <1>7, <2>3, <2>4
    <2> QED
      BY <1>1, <1>7, <2>1, <2>4, <2>5, <2>6, RestEnds, Zenon
  <1>9. CASE ~(rest = NoBuffer \/ rest.pos # 0)
    <2>1. rest' = SetPosition(rest, rest.lim) /\ last' = last
      BY <1>9 DEF RestHeader
    <2>2. cur = "rest"
      BY <1>3, <1>9, NetworkOnly
    <2>3. /\ last = 0 /\ m = rest.lim /\ Holds(rest, 0, rest.lim, From) /\ rest.lim \in Nat
      <3>1. ~HasHeader \/ (HasHeader /\ Remaining(Buffer) < Length(packets[At]))
        BY <1>3, <1>6
      <3> QED
        BY <1>3, <2>2, <3>1, RestOnly
    <2>4. WellFormed(rest) /\ Len(rest.data) = rest.cap /\ received <= arrived
      BY <1>2 DEF Types
    <2>5. /\ WellFormed(rest') /\ rest'.pos = m /\ rest'.lim = m /\ rest'.cap = rest.cap
          /\ rest'.data = rest.data
      <3> HIDE DEF m
      <3>1. m <= rest.lim /\ rest' = SetPosition(rest, m)
        BY <1>4, <2>1, <2>3
      <3> QED
        BY <1>4, <2>3, <2>4, <3>1, PositionSet
    <2>6. /\ Types' /\ InOrder' /\ At' = At /\ From' = From /\ \A k : Enough(k)' = Enough(k)
      <3>1. Len(rest'.data) = rest'.cap /\ received <= received
        BY <1>5, <2>4, <2>5
      <3> QED
        BY <1>1, <1>2, <1>5, <2>1, <2>4, <2>5, <3>1, NoBufferShape, Held, ZenonT(30)
    <2>7. Holds(rest', 0, rest'.pos, From') /\ rest' # NoBuffer
      BY <1>4, <2>3, <2>5, <2>6, NoBufferShape, SMTT(30) DEF Holds
    <2>8. /\ rest'.pos > 0 /\ rest'.pos = received' - From' /\ received' - From' < Enough(At)'
          /\ rest'.lim = rest'.pos /\ last' = 0
      BY <1>1, <1>4, <1>6, <1>7, <2>1, <2>3, <2>5, <2>6, Zenon
    <2> QED
      BY <1>1, <1>7, <2>6, <2>7, <2>8, RestEnds, ZenonT(30)
  <1> QED
    BY <1>8, <1>9, Zenon

\* The packet is not complete.
LEMMA PartialPacketKeeps ==
    ASSUME Inv, PartialPacket
    PROVE  Inv'
  <1> DEFINE m == Remaining(Buffer)
             len == Length(packets[At])
             head == packets[At].head
  <1>1. /\ cur' = "idle" /\ network' = NoBuffer
        /\ UNCHANGED <<packets, first, arrived, received, later, delivered>>
    BY Zenon DEF PartialPacket, kernel
  <1>2. Types /\ InOrder
    BY DEF Inv
  <1>0. PICK p \in Headers :
            /\ HasPacketHeader(p) /\ Remaining(Buffer) < Length(p) /\ last' = Length(p)
            /\ rest' = IF rest = NoBuffer \/ rest.cap < Length(p)
                       THEN WriteBytes(GetBuffer(Length(p)), Buffer)
                       ELSE Appendable(SetPosition(rest, rest.pos + p.head), Length(p))
    BY Zenon DEF PartialPacket
  <1>3. HasHeader /\ p = packets[At] /\ At \in 1 .. Count
    BY HeaderRead, Zenon
  <1>4. /\ Parsing /\ packets[At].ok /\ m >= head /\ m < len
        /\ last' = len
        /\ rest' = IF rest = NoBuffer \/ rest.cap < len THEN WriteBytes(GetBuffer(len), Buffer)
                   ELSE Appendable(SetPosition(rest, rest.pos + head), len)
    BY <1>0, <1>3, Zenon DEF HasPacketHeader, HasHeader
  <1>5. m \in Nat /\ m > 0
    BY <1>4, Facing, ZenonT(30) DEF Parsing
  <1>6. /\ len \in Nat /\ head \in Nat /\ received \in Nat /\ From \in Nat /\ received <= arrived
        /\ Enough(At) = len
    BY <1>2, <1>3, <1>4, Numbers DEF Types, Enough
  <1>7. ~later' /\ later' \in BOOLEAN /\ m = received - From
    <2>1. ~later /\ m = received - From
      BY <1>3, <1>4, RestOnly, NetworkOnly, Zenon
    <2> QED
      BY <1>1, <2>1 DEF Inv, Later
  <1>8. /\ WellFormed(rest') /\ Len(rest'.data) = rest'.cap /\ rest'.pos = m /\ rest'.lim = len
        /\ Holds(rest', 0, m, From)
    <2>1. CASE rest = NoBuffer \/ rest.cap < len
      <3>1. m <= len /\ rest' = WriteBytes(GetBuffer(len), Buffer)
        <4>1. m < len
          BY <1>4, Zenon
        <4>2. rest' = WriteBytes(GetBuffer(len), Buffer)
          BY <1>4, <2>1, Zenon
        <4>3. len \in Nat
          BY <1>6, Zenon
        <4> HIDE DEF m, len
        <4>4. m <= len
          BY <1>5, <4>1, <4>3
        <4> QED
          BY <4>2, <4>4, Zenon
      <3> HIDE DEF len
      <3> QED
        BY <1>4, <1>6, <3>1, Copied, ZenonT(30)
    <2>2. CASE ~(rest = NoBuffer \/ rest.cap < len)
      <3> DEFINE b == SetPosition(rest, head)
                 c == SetPosition(b, m)
                 lim == rest.lim
                 cap == rest.cap
      <3>1. cur = "rest"
        BY <1>4, <2>2, NetworkOnly, ZenonT(30)
      <3>2. rest.pos = 0 /\ m = lim /\ Holds(rest, 0, lim, From)
        BY <1>3, <1>4, <3>1, RestOnly
      <3>3. WellFormed(rest) /\ Len(rest.data) = cap /\ cap \in Nat
        BY <1>2 DEF Types, WellFormed, Buffers
      <3>4. head <= rest.lim /\ m <= rest.lim /\ m <= len /\ len <= cap /\ 0 + head = head
        <4>1. m >= head /\ m < len /\ m = lim /\ ~(cap < len)
          BY <1>4, <2>2, <3>2, Zenon
        <4>2. m \in Nat /\ len \in Nat /\ head \in Nat /\ cap \in Nat
          BY <1>5, <1>6, <3>3, Zenon
        <4> HIDE DEF m, len, head, cap, lim
        <4>3. head <= lim /\ m <= lim /\ m <= len /\ len <= cap /\ 0 + head = head
          BY <4>1, <4>2
        <4> QED
          BY <4>3, Zenon DEF lim
      <3>5. rest' = Appendable(b, len)
        <4>1. rest' = Appendable(SetPosition(rest, rest.pos + head), len)
          BY <1>4, <2>2, Zenon
        <4>2. rest.pos + head = head
          BY <3>2, <3>4, Zenon
        <4> QED
          BY <4>1, <4>2, Zenon
      <3> HIDE DEF m, len, head
      <3>6. WellFormed(b) /\ b.lim = rest.lim /\ b.cap = rest.cap /\ b.data = rest.data
        BY <1>6, <3>3, <3>4, PositionSet
      <3> HIDE DEF b
      <3>7. WellFormed(c) /\ c.pos = m /\ c.cap = rest.cap /\ c.data = rest.data
        <4>1. m <= b.lim
          BY <3>4, <3>6
        <4> QED
          BY <1>5, <3>6, <4>1, PositionSet
      <3> HIDE DEF c
      <3>8. c.pos <= len /\ len <= c.cap /\ len <= Len(c.data)
        BY <3>3, <3>4, <3>7
      <3>9. rest' = SetLimit(c, len)
        BY <3>2, <3>5, <3>6 DEF Appendable, c
      <3>10. WellFormed(rest') /\ rest'.pos = m /\ rest'.lim = len /\ rest'.cap = rest.cap
             /\ rest'.data = rest.data
        BY <1>6, <3>7, <3>8, <3>9, LimitShape
      <3>11. Holds(rest', 0, m, From)
        BY <3>2, <3>10 DEF Holds
      <3> QED
        BY <3>3, <3>10, <3>11, Zenon
    <2> QED
      BY <2>1, <2>2
  <1>9. /\ Types' /\ InOrder' /\ At' = At /\ From' = From /\ \A k : Enough(k)' = Enough(k)
    <2>1. received <= received
      BY <1>6
    <2> QED
      BY <1>1, <1>2, <1>4, <1>6, <1>8, <2>1, NoBufferShape, Held, ZenonT(30)
  <1>10. Holds(rest', 0, rest'.pos, From') /\ rest' # NoBuffer
    BY <1>5, <1>8, <1>9, NoBufferShape
  <1>11. /\ rest'.pos > 0 /\ rest'.pos = received' - From' /\ received' - From' < Enough(At)'
         /\ last' # 0 /\ rest'.pos < last'
    <2>1. m < len /\ last' = len /\ rest'.pos = m
      BY <1>4, <1>8, Zenon
    <2>2. received' - From' = m /\ Enough(At)' = len
      BY <1>1, <1>6, <1>7, <1>9, Zenon
    <2> HIDE DEF m, len
    <2> QED
      BY <1>5, <1>6, <2>1, <2>2
  <1>12. Known'
    <2>1. At <= Count /\ Length(packets[At])' = len
      BY <1>1, <1>3, <1>9, FramingAssumption DEF Length
    <2> QED
      BY <1>1, <1>4, <1>8, <1>9, <2>1, Zenon DEF Known
  <1> QED
    BY <1>1, <1>7, <1>9, <1>10, <1>11, <1>12, RestEnds, Zenon

\* A step that delivers the next packet.
LEMMA Delivered ==
    ASSUME Types, InOrder, UNCHANGED <<packets, first, arrived, received, last>>,
           At \in 1 .. Count, packets[At].ok, From + Length(packets[At]) <= received,
           delivered' = Append(delivered, BytesOf(At)),
           WellFormed(rest'), Len(rest'.data) = rest'.cap, WellFormed(network'),
           cur' \in {"idle", "network", "rest"}
    PROVE  /\ Types' /\ InOrder' /\ At' = At + 1 /\ From' = From + Length(packets[At])
           /\ At' <= Count => Enough(At)' \in Nat /\ Enough(At)' > 0
  <1> DEFINE len == Length(packets[At])
             n == Len(delivered)
  <1>1. /\ Stream /\ delivered \in Seq(Seq(Nat)) /\ n \in Nat /\ first \in 1 .. Count + 1
        /\ Count \in Nat /\ len \in Nat /\ From \in Nat /\ Start(At + 1) = From + len
    BY Numbers, Zenon DEF Types
  <1>2. \A k : Start(k)' = Start(k) /\ BytesOf(k)' = BytesOf(k) /\ Enough(k)' = Enough(k)
    <2>1. \A k : Start(k)' = Start(k)
      BY DEF Start
    <2> QED
      BY <2>1 DEF BytesOf, Enough
  <1>3. BytesOf(At) \in Seq(Nat)
    <2>1. BytesOf(At) = [i \in 1 .. len |-> From + i]
      BY Zenon DEF BytesOf, From
    <2> HIDE DEF len
    <2> QED
      BY <1>1, <2>1
  <1>4. /\ delivered' \in Seq(Seq(Nat)) /\ Len(delivered') = n + 1
        /\ \A i \in 1 .. n : delivered'[i] = delivered[i]
        /\ delivered'[n + 1] = BytesOf(At)
    BY <1>1, <1>3
  <1>5. At = first + n /\ At' = first + Len(delivered')
    BY Zenon DEF At
  <1>6. At' = At + 1 /\ At' \in 1 .. Count + 1
    BY <1>1, <1>4, <1>5
  <1>7. From' = From + len
    BY <1>1, <1>2, <1>6, Zenon DEF From
  <1>8. Stream' /\ Total' = Total
    BY <1>1, <1>2, ZenonT(30) DEF Stream, Total
  <1>9. Types'
    BY <1>1, <1>4, <1>6, <1>7, <1>8 DEF Types, WellFormed
  <1>10. InOrder'
    <2>1. ASSUME NEW i \in 1 .. Len(delivered')
          PROVE  delivered'[i] = BytesOf(first + i - 1)
      <3>1. CASE i = n + 1
        <4>1. first + i - 1 = At
          BY <1>1, <1>5, <3>1
        <4> QED
          BY <1>4, <3>1, <4>1, Zenon
      <3>2. CASE i # n + 1
        <4>1. i \in 1 .. n
          BY <1>1, <1>4, <3>2
        <4> QED
          BY <1>4, <4>1, Zenon DEF InOrder
      <3> QED
        BY <3>1, <3>2, Zenon
    <2>2. ASSUME NEW k \in first .. At' - 1
          PROVE  packets[k].ok
      <3>1. k = At \/ k \in first .. At - 1
        BY <1>1, <1>5, <1>6
      <3> QED
        BY <3>1 DEF InOrder
    <2> QED
      BY <1>2, <2>1, <2>2, Zenon DEF InOrder
  <1>11. At' <= Count => Enough(At)' \in Nat /\ Enough(At)' > 0
    <2> SUFFICES ASSUME At' <= Count
                 PROVE  Enough(At)' \in Nat /\ Enough(At)' > 0
      OBVIOUS
    <2> DEFINE e == Enough(At + 1)
    <2>1. At + 1 \in 1 .. Count
      BY <1>1, <1>6
    <2>2. /\ Length(packets[At + 1]) \in Nat /\ packets[At + 1].head \in Nat
          /\ Header <= packets[At + 1].head /\ packets[At + 1].head <= Length(packets[At + 1])
      BY <1>1, <2>1, Lengths, Zenon
    <2>3. Header \in Nat \ {0}
      BY FramingAssumption
    <2>4. e \in Nat /\ e > 0
      BY <2>2, <2>3 DEF Enough
    <2> HIDE DEF e
    <2>5. Enough(At)' = e
      BY <1>2, <1>6 DEF e, Enough
    <2> QED
      BY <2>4, <2>5
  <1> QED
    BY <1>6, <1>7, <1>9, <1>10, <1>11, Zenon

\* The end of a call that leaves nothing over.
LEMMA NothingLeft ==
    ASSUME Types', InOrder', cur' = "idle", ~later', later' \in BOOLEAN,
           rest' = NoBuffer, received' = From',
           At' <= Count => Enough(At)' \in Nat /\ Enough(At)' > 0
    PROVE  Inv'
  <1> DEFINE r == received'
             e == Enough(At)'
             f == From'
  <1>1. r \in Nat /\ r = f
    BY DEF Types
  <1>2. r - f = 0 /\ (At' <= Count => r - f < e)
    <2> HIDE DEF r, e, f
    <2>1. At' <= Count => e \in Nat /\ e > 0
      BY DEF e
    <2> QED
      BY <1>1, <2>1
  <1>3. rest'.pos = 0 /\ Holds(rest', 0, 0, From')
    BY NoBufferShape DEF Holds
  <1>4. Between'
    BY <1>2, <1>3 DEF Between
  <1>5. InNetwork' /\ InRest' /\ Later'
    BY DEF InNetwork, InRest, Later
  <1> QED
    BY <1>4, <1>5 DEF Inv

\* The network buffer is what is parsed next.
LEMMA NetworkNext ==
    ASSUME Types', InOrder', cur' = "network", ~later', later' \in BOOLEAN, rest' = NoBuffer,
           Remaining(network') = received' - From',
           Holds(network', network'.pos, Remaining(network'), From')
    PROVE  Inv'
  <1>1. InNetwork'
    BY DEF InNetwork, Remaining, Holds
  <1>2. Between' /\ InRest' /\ Later'
    BY DEF Between, InRest, Later
  <1> QED
    BY <1>1, <1>2 DEF Inv

\* The buffer behind the packet.
LEMMA Behind ==
    ASSUME NEW b, WellFormed(b), NEW from \in Nat, Holds(b, b.pos, Remaining(b), from),
           NEW len \in Nat, len <= Remaining(b),
           NEW c, c = [b EXCEPT !.pos = @ + len]
    PROVE  /\ WellFormed(c) /\ c.pos = b.pos + len /\ c.lim = b.lim /\ c.cap = b.cap
           /\ c.data = b.data /\ Remaining(c) = Remaining(b) - len
           /\ Holds(c, c.pos, Remaining(c), from + len)
  <1> DEFINE pos == b.pos
             lim == b.lim
             p == pos + len
             data == b.data
  <1>1. /\ b \in Buffers /\ pos \in Nat /\ lim \in Nat /\ pos <= lim /\ len <= lim - pos
        /\ lim <= b.cap /\ lim <= Len(data)
    BY DEF WellFormed, Buffers, Remaining
  <1> HIDE DEF pos, lim
  <1>2. p \in Nat /\ p <= lim
    BY <1>1
  <1>3. c = [b EXCEPT !.pos = p]
    BY DEF pos
  <1> HIDE DEF p
  <1>4. /\ c \in Buffers /\ c.pos = p /\ c.lim = lim /\ c.cap = b.cap /\ c.data = data
    BY <1>1, <1>2, <1>3, Zenon DEF Buffers, lim
  <1>5. WellFormed(c)
    BY <1>1, <1>2, <1>4 DEF WellFormed
  <1>6. Remaining(b) = lim - pos /\ Remaining(c) = lim - p /\ Remaining(c) = Remaining(b) - len
    BY <1>1, <1>4 DEF Remaining, p, pos, lim
  <1>7. ASSUME NEW i \in 1 .. lim - p
        PROVE  data[p + i] = from + len + i
    <2>0. p = pos + len /\ pos \in Nat /\ lim \in Nat
      BY <1>1 DEF p
    <2>1. len + i \in 1 .. lim - pos /\ pos + (len + i) = p + i /\ from + (len + i) = from + len + i
      BY <2>0
    <2>2. data[pos + (len + i)] = from + (len + i)
      BY <1>6, <2>1 DEF Holds, pos
    <2> QED
      BY <2>1, <2>2
  <1>8. Holds(c, c.pos, Remaining(c), from + len)
    BY <1>4, <1>6, <1>7 DEF Holds
  <1> QED
    BY <1>4, <1>5, <1>6, <1>8 DEF p, pos, lim, data

\* A complete packet is delivered.
LEMMA DeliverPacketKeeps ==
    ASSUME Inv, DeliverPacket
    PROVE  Inv'
  <1> DEFINE m == Remaining(Buffer)
             len == Length(packets[At])
             after == [Buffer EXCEPT !.pos = @ + len]
             moved == Compact(after)
             front == SetLimit(moved, moved.pos)
             consumed == IF last # 0 THEN after.pos = last ELSE Remaining(after) = 0
  <1>1. Types /\ InOrder /\ InRest /\ InNetwork /\ Later
    BY DEF Inv
  <1>0. PICK p \in Headers :
            /\ HasPacket(p)
            /\ delivered' = Append(delivered, SubSeq(Content(Buffer), 1, Length(p)))
            /\ network' = IF cur = "network" THEN After(p) ELSE network
            /\ rest' = IF cur = "network" \/ Consumed(p) THEN NoBuffer
                       ELSE SetPosition(SetLimit(Compact(After(p)), Compact(After(p)).pos), 0)
            /\ cur' = IF later THEN "network"
                      ELSE IF cur = "rest" /\ Consumed(p) THEN "idle" ELSE cur
            /\ later' = FALSE
            /\ UNCHANGED <<packets, first, arrived, received, last>>
    BY Zenon DEF DeliverPacket, kernel
  <1>2. HasHeader /\ p = packets[At] /\ At \in 1 .. Count
    BY HeaderRead, Zenon
  <1>3. /\ Parsing /\ packets[At].ok /\ m >= len
        /\ delivered' = Append(delivered, SubSeq(Content(Buffer), 1, len))
        /\ network' = IF cur = "network" THEN after ELSE network
        /\ rest' = IF cur = "network" \/ consumed THEN NoBuffer ELSE SetPosition(front, 0)
        /\ cur' = IF later THEN "network"
                  ELSE IF cur = "rest" /\ consumed THEN "idle" ELSE cur
        /\ later' = FALSE
        /\ UNCHANGED <<packets, first, arrived, received, last>>
    <2>1. after = After(p) /\ len = Length(p) /\ (consumed <=> Consumed(p))
      BY <1>2 DEF After, Consumed
    <2>2. Parsing /\ p.ok /\ m >= Length(p)
      BY <1>0, <1>2, Zenon DEF HasPacket, HasPacketHeader, HasHeader
    <2> HIDE DEF after, len, consumed
    <2> QED
      BY <1>0, <1>2, <2>1, <2>2, Zenon
  <1>4. /\ WellFormed(Buffer) /\ m \in Nat /\ Holds(Buffer, Buffer.pos, m, From)
        /\ From + m <= received /\ cur \in {"network", "rest"}
    BY <1>3, Facing DEF Parsing
  <1>5. len \in Nat /\ len > 0 /\ From \in Nat /\ received \in Nat
    <2>1. /\ len \in Nat /\ packets[At].head \in Nat /\ Header \in Nat \ {0} /\ From \in Nat
          /\ Header <= packets[At].head /\ packets[At].head <= len
          /\ received \in Nat
      BY <1>1, <1>2, Numbers
    <2> HIDE DEF len
    <2> QED
      BY <2>1
  <1>6. len <= m /\ From + len <= received
    <2> HIDE DEF m, len
    <2> QED
      BY <1>3, <1>4, <1>5
  <1>7. delivered' = Append(delivered, BytesOf(At))
    <2>1. SubSeq(Content(Buffer), 1, len) = [i \in 1 .. len |-> From + i]
      <3> HIDE DEF len
      <3> QED
        BY <1>4, <1>5, <1>6, ContentShape
    <2> QED
      BY <1>3, <2>1 DEF BytesOf, From
  <1>8. /\ WellFormed(after) /\ after.pos = Buffer.pos + len /\ after.lim = Buffer.lim
        /\ after.cap = Buffer.cap /\ after.data = Buffer.data
        /\ Remaining(after) = m - len /\ Holds(after, after.pos, Remaining(after), From + len)
    <2> HIDE DEF len
    <2> QED
      BY <1>4, <1>5, <1>6, Behind
  <1>9. ~later' /\ later' \in BOOLEAN
    BY <1>3, Zenon
  <1>10. ASSUME WellFormed(rest'), Len(rest'.data) = rest'.cap, WellFormed(network'),
                cur' \in {"idle", "network", "rest"}
         PROVE  /\ Types' /\ InOrder' /\ From' = From + len
                /\ At' <= Count => Enough(At)' \in Nat /\ Enough(At)' > 0
    BY <1>1, <1>2, <1>3, <1>6, <1>7, <1>10, Delivered
  <1>11. CASE cur = "network"
    <2>1. /\ rest = NoBuffer /\ Buffer = network /\ m = received - From /\ ~later
      BY <1>1, <1>11 DEF InNetwork, Buffer, Later
    <2>2. network' = after /\ rest' = NoBuffer /\ cur' = "network"
      BY <1>3, <1>11, <2>1
    <2>3. Types' /\ InOrder' /\ From' = From + len
      BY <1>8, <1>10, <2>2, NoBufferShape
    <2> HIDE DEF after, len
    <2>4. Remaining(after) = received - (From + len)
      BY <1>4, <1>5, <1>8, <2>1
    <2>5. /\ Remaining(network') = received' - From'
          /\ Holds(network', network'.pos, Remaining(network'), From')
      BY <1>3, <1>8, <2>2, <2>3, <2>4
    <2> QED
      BY <1>9, <2>2, <2>3, <2>5, NetworkNext
  <1>12. CASE cur = "rest" /\ last # 0
    <2>1. /\ rest.pos = 0 /\ Buffer = rest /\ last = len
          /\ ~later => received = From + last
          /\ later => /\ Remaining(network) = received - From - last
                      /\ Holds(network, network.pos, Remaining(network), From + last)
      BY <1>1, <1>12 DEF InRest, Buffer, Known
    <2>2. consumed
      <3>1. after.pos = 0 + len
        BY <1>8, <2>1
      <3> HIDE DEF after, len
      <3> QED
        BY <1>5, <1>12, <2>1, <3>1
    <2>3. network' = network /\ rest' = NoBuffer /\ cur' = IF later THEN "network" ELSE "idle"
      BY <1>3, <1>12, <2>2
    <2>4. WellFormed(network) /\ cur' \in {"idle", "network", "rest"}
      BY <1>1, <2>3 DEF Types
    <2>5. /\ Types' /\ InOrder' /\ From' = From + len
          /\ At' <= Count => Enough(At)' \in Nat /\ Enough(At)' > 0
      BY <1>10, <2>3, <2>4, NoBufferShape
    <2>6. CASE later
      <3>1. cur' = "network"
        BY <2>3, <2>6
      <3>2. /\ Remaining(network') = received' - From'
            /\ Holds(network', network'.pos, Remaining(network'), From')
        <4> HIDE DEF len
        <4>1. received - From - last = received - (From + len)
          BY <1>5, <2>1
        <4> QED
          BY <1>3, <2>1, <2>3, <2>5, <2>6, <4>1, ZenonT(30)
      <3> QED
        BY <1>9, <2>3, <2>5, <3>1, <3>2, NetworkNext
    <2>7. CASE ~later
      <3>1. cur' = "idle" /\ received' = From'
        BY <1>3, <2>1, <2>3, <2>5, <2>7
      <3> QED
        BY <1>9, <2>3, <2>5, <3>1, NothingLeft
    <2> QED
      BY <2>6, <2>7, ZenonT(30)
  <1>13. CASE cur = "rest" /\ last = 0
    <2>1. /\ rest.pos = 0 /\ Buffer = rest /\ rest.lim = received - From /\ ~later
      BY <1>1, <1>13 DEF InRest, Buffer
    <2>2. m = received - From /\ rest.lim \in Nat
      BY <1>4, <1>5, <2>1 DEF Remaining, WellFormed, Buffers
    <2>3. WellFormed(network) /\ network' = network /\ Len(rest.data) = rest.cap
      BY <1>1, <1>3, <1>13 DEF Types
    <2>4. CASE consumed
      <3>1. rest' = NoBuffer /\ cur' = "idle"
        BY <1>3, <1>13, <2>1, <2>4
      <3>2. /\ Types' /\ InOrder' /\ From' = From + len
            /\ At' <= Count => Enough(At)' \in Nat /\ Enough(At)' > 0
        BY <1>10, <2>3, <3>1, NoBufferShape, Zenon
      <3>3. received' = From'
        <4>1. Remaining(after) = 0
          BY <1>13, <2>4
        <4> HIDE DEF after, len, m
        <4>2. received = From + len
          BY <1>4, <1>5, <1>8, <2>2, <4>1
        <4> QED
          BY <1>3, <3>2, <4>2
      <3> QED
        BY <1>9, <3>1, <3>2, <3>3, NothingLeft
    <2>5. CASE ~consumed
      <3> DEFINE left == m - len
      <3>1. rest' = SetPosition(front, 0) /\ cur' = "rest" /\ Remaining(after) # 0
        BY <1>3, <1>13, <2>1, <2>5, ZenonT(30)
      <3>2. left \in Nat /\ left > 0 /\ Remaining(after) = left /\ left = received - (From + len)
        <4> HIDE DEF after, len, m
        <4> QED
          BY <1>4, <1>5, <1>6, <1>8, <2>2, <3>1
      <3> HIDE DEF left
      <3>3. Len(after.data) = after.cap /\ after.pos < after.lim
        <4> DEFINE lo == after.pos
                   hi == after.lim
        <4>1. Len(after.data) = after.cap
          BY <1>8, <2>1, <2>3
        <4>2. lo \in Nat /\ hi \in Nat /\ hi - lo = left
          BY <1>8, <3>2 DEF WellFormed, Buffers, Remaining
        <4> HIDE DEF lo, hi
        <4>3. lo < hi
          BY <3>2, <4>2
        <4> QED
          BY <4>1, <4>3 DEF lo, hi
      <3> HIDE DEF after
      <3>4. /\ WellFormed(moved) /\ Len(moved.data) = moved.cap /\ moved.pos = left
            /\ moved.lim = moved.cap
            /\ \A i \in 1 .. left : moved.data[i] = after.data[after.pos + i]
        BY <1>8, <3>2, <3>3, CompactShape, ZenonT(30)
      <3> HIDE DEF moved
      <3>5. /\ WellFormed(front) /\ front.lim = left /\ front.cap = moved.cap
            /\ front.data = moved.data
        <4>1. moved.pos \in Nat /\ moved.pos <= moved.pos /\ moved.pos <= moved.cap
              /\ moved.pos <= Len(moved.data)
          BY <3>2, <3>4 DEF WellFormed, Buffers
        <4> QED
          BY <3>4, <4>1, LimitShape
      <3> HIDE DEF front
      <3>6. /\ WellFormed(rest') /\ rest'.pos = 0 /\ rest'.lim = left /\ rest'.cap = moved.cap
            /\ rest'.data = moved.data
        <4>1. 0 \in Nat /\ 0 <= front.lim
          BY <3>2, <3>5
        <4> QED
          BY <3>1, <3>5, <4>1, PositionSet
      <3>7. Types' /\ InOrder' /\ From' = From + len
        BY <1>10, <2>3, <3>1, <3>4, <3>6, ZenonT(30)
      <3>8. Holds(rest', 0, rest'.lim, From')
        BY <1>8, <3>2, <3>4, <3>6, <3>7, SMTT(30) DEF Holds
      <3>9. rest'.lim > 0 /\ rest'.lim = received' - From' /\ last' = 0
        BY <1>3, <1>13, <3>2, <3>6, <3>7
      <3> QED
        BY <1>9, <3>1, <3>6, <3>7, <3>8, <3>9, RestStarts
    <2> QED
      BY <2>4, <2>5
  <1> QED
    BY <1>4, <1>11, <1>12, <1>13

\* Before anything arrived.
LEMMA InitInv ==
    ASSUME Init
    PROVE  Inv
  <1>1. /\ Stream /\ first = 1 /\ arrived = 0 /\ received = 0 /\ network = NoBuffer
        /\ rest = NoBuffer /\ last = 0 /\ cur = "idle" /\ delivered = <<>>
    BY DEF Init, Stream
  <1>2. Count \in Nat /\ Header \in Nat \ {0}
    BY FramingAssumption
  <1>3. At = 1 /\ From = 0 /\ Total \in Nat
    BY <1>1, <1>2, StartNext DEF At, From
  <1>4. Types
    BY <1>1, <1>2, <1>3, NoBufferShape DEF Types
  <1>5. InOrder
    BY <1>1, <1>3 DEF InOrder
  <1>6. Between
    <2>1. At <= Count => Enough(At) \in Nat /\ Header <= Enough(At)
      BY <1>2, <1>3, <1>4, Numbers
    <2>2. At <= Count => received - From < Enough(At)
      BY <1>1, <1>2, <1>3, <2>1
    <2> QED
      BY <1>1, <1>3, <2>2, NoBufferShape DEF Between, Holds
  <1>7. InNetwork /\ InRest
    BY <1>1 DEF InNetwork, InRest
  <1>8. Later
    BY Zenon DEF Later, Init
  <1> QED
    BY <1>4, <1>5, <1>6, <1>7, <1>8 DEF Inv

\* recv, whatever was left over.
LEMMA RecvKeeps ==
    ASSUME Inv, ~mixed, Recv
    PROVE  Inv'
  <1> DEFINE n == Min({ReadSize, arrived - received})
  <1>1. n \in Nat /\ n > 0 /\ n <= ReadSize /\ received' = received + n
    BY RecvCount
  <1>2. RecvAfresh(n) \/ RecvHeader(n) \/ RecvBody(n)
    BY RecvCount
  <1> HIDE DEF n
  <1> QED
    BY <1>1, <1>2, RecvAfreshKeeps, RecvHeaderKeeps, RecvBodyKeeps, ZenonT(30)

\* A step of something else.
LEMMA StutterKeeps ==
    ASSUME Inv, UNCHANGED vars
    PROVE  Inv'
  <1>1. UNCHANGED <<packets, first, arrived, received, network, rest, last, cur, later,
                    delivered>>
    BY ZenonT(30) DEF vars, kernel
  <1>2. /\ Types' /\ InOrder' /\ At' = At /\ From' = From /\ \A k : Enough(k)' = Enough(k)
    <2>0. received \in Nat /\ received <= arrived
      BY Zenon DEF Inv, Types
    <2>1. /\ received \in Nat /\ received <= received /\ received <= arrived
      BY <2>0
    <2> QED
      BY <1>1, <2>1, Held DEF Inv, Types
  <1>3. Known' = Known
    BY <1>1, <1>2, Zenon DEF Known, Length
  <1> QED
    BY <1>1, <1>2, <1>3, Zenon DEF Inv, Between, InNetwork, InRest, Later, Holds, Remaining

\* The steps that leave the parser in order, if it was.
Orderly ==
    \/ UNCHANGED vars \/ EpollIn \/ Recv \/ \E n \in 1 .. Total : Arrive(n)
    \/ RestHeader \/ PartialPacket \/ DeliverPacket \/ EndOfBuffer

\* The others start a new connection, or mix it with other bytes.
LEMMA Orders ==
    ASSUME [Next]_vars
    PROVE  (Orderly /\ mixed' = mixed) \/ Renew \/ mixed' = TRUE
  <1>1. CASE UNCHANGED vars \/ EpollIn \/ Recv \/ \E n \in 1 .. Total : Arrive(n)
    <2>1. mixed' = mixed
      BY <1>1 DEF vars, EpollIn, Recv, Arrive
    <2> QED
      BY <1>1, <2>1, ZenonT(30) DEF Orderly
  <1>2. CASE RestHeader \/ PartialPacket \/ DeliverPacket \/ EndOfBuffer
    <2>1. mixed' = mixed
      BY <1>2, Zenon DEF RestHeader, PartialPacket, DeliverPacket, EndOfBuffer
    <2> QED
      BY <1>2, <2>1, Zenon DEF Orderly
  <1>3. CASE BadHeader \/ RecvFails \/ Disconnect
    BY <1>3, Zenon DEF BadHeader, RecvFails, Disconnect, Lose
  <1>4. CASE DeliverAndGoOn \/ RefusedHandshake
    BY <1>4, Zenon DEF DeliverAndGoOn, RefusedHandshake, GoOn
  <1> QED
    BY <1>1, <1>2, <1>3, <1>4, Zenon DEF Next

\* The steps of the parser that change nothing recv or epoll can see.
Quiet == UNCHANGED <<packets, first, arrived, edge, reading, received, inLoop>>

\* A step of the parser, of the kernel, of recv, or a new connection.
LEMMA Kinds ==
    ASSUME [Next]_vars
    PROVE  \/ Quiet
           \/ EpollIn \/ Recv \/ \E n \in 1 .. Total : Arrive(n)
           \/ NewStream /\ (inLoop' = TRUE \/ reading' = FALSE)
  <1>1. CASE UNCHANGED vars
    BY <1>1 DEF vars, kernel, Quiet
  <1>2. CASE RestHeader \/ PartialPacket \/ DeliverPacket \/ EndOfBuffer \/ DeliverAndGoOn
    BY <1>2, Zenon DEF RestHeader, PartialPacket, DeliverPacket, EndOfBuffer, DeliverAndGoOn,
       kernel, Quiet
  <1>3. CASE BadHeader \/ RefusedHandshake
    BY <1>3, Zenon DEF BadHeader, RefusedHandshake, Renew
  <1>4. CASE RecvFails \/ Disconnect
    BY <1>4, Zenon DEF RecvFails, Disconnect, Lose, Renew
  <1> QED
    BY <1>1, <1>2, <1>3, <1>4, Zenon DEF Next

\* Start is a matter of the stream alone.
LEMMA StartSame ==
    ASSUME packets' = packets, Stream
    PROVE  Stream' /\ Total' = Total /\ \A k : Start(k)' = Start(k)
  BY DEF Stream, Total, Start

\* The counts stay in order whatever the parser reads.
LEMMA CountsKeep ==
    ASSUME Counts, [Next]_vars
    PROVE  Counts'
  <1>0. /\ Stream /\ Count \in Nat /\ first \in 1 .. Count + 1 /\ arrived \in Nat
        /\ received \in Nat /\ Start(first) <= received /\ received <= arrived
        /\ arrived <= Total
    BY FramingAssumption DEF Counts
  <1>1. Start(first) \in Nat /\ Total \in Nat
    <2>1. Count + 1 \in 1 .. Count + 1
      BY <1>0
    <2> QED
      BY <1>0, <2>1, StartNext
  <1>2. ASSUME UNCHANGED <<packets, first>>, arrived' \in Nat, received' \in Nat,
               received <= received', received' <= arrived', arrived' <= Total
        PROVE  Counts'
    <2>1. Stream' /\ Total' = Total /\ Start(first)' = Start(first)
      BY <1>0, <1>2, StartSame
    <2>2. Start(first) <= received'
      BY <1>0, <1>1, <1>2
    <2> QED
      BY <1>0, <1>2, <2>1, <2>2 DEF Counts
  <1>3. CASE Quiet \/ EpollIn
    <2>1. UNCHANGED <<packets, first, arrived, received>>
      BY <1>3, Zenon DEF Quiet, EpollIn
    <2>2. received <= received
      BY <1>0
    <2> QED
      BY <1>0, <1>2, <2>1, <2>2
  <1>4. CASE \E n \in 1 .. Total : Arrive(n)
    <2>1. PICK n \in 1 .. Total : Arrive(n)
      BY <1>4
    <2>2. /\ UNCHANGED <<packets, first, received>> /\ arrived' = arrived + n
          /\ arrived + n <= Total /\ n \in Nat
      BY <2>1 DEF Arrive
    <2>3. arrived' \in Nat /\ received <= received /\ received <= arrived'
      BY <1>0, <2>2
    <2> QED
      BY <1>0, <1>2, <2>2, <2>3
  <1>5. CASE Recv
    <2>1. /\ UNCHANGED <<packets, first, arrived>> /\ received' \in Nat
          /\ received <= received' /\ received' <= arrived
      BY <1>0, <1>5, RecvNumbers
    <2> QED
      BY <1>0, <1>2, <2>1
  <1>6. CASE NewStream
    <2>1. PICK k \in 1 .. Count + 1 :
              /\ first' = k /\ arrived' = Start(k) /\ received' = Start(k)
              /\ Start(k) \in Nat /\ Start(k) <= Total /\ packets' = packets
      BY <1>6, NewStreamIs, Zenon
    <2>2. Stream' /\ Total' = Total /\ Start(first)' = Start(k)
      <3>1. Stream' /\ Total' = Total /\ \A j : Start(j)' = Start(j)
        BY <1>0, <2>1, StartSame
      <3> QED
        BY <2>1, <3>1
    <2>3. Start(k) <= Start(k)
      BY <2>1
    <2> QED
      BY <2>1, <2>2, <2>3 DEF Counts
  <1> QED
    BY <1>3, <1>4, <1>5, <1>6, Kinds, Zenon

\* Every step of the component, and a step of something else.
LEMMA NextSafe ==
    ASSUME Safe, [Next]_vars
    PROVE  Safe'
  <1>1. Counts /\ mixed \in BOOLEAN /\ (~mixed => Inv)
    BY Zenon DEF Safe
  <1>2. Counts'
    BY <1>1, CountsKeep
  <1>3. CASE Renew
    <2>1. mixed' = FALSE
      BY <1>3, Zenon DEF Renew
    <2>2. Inv'
      BY <1>1, <1>3, RenewKeeps
    <2> QED
      BY <1>2, <2>1, <2>2, Zenon DEF Safe
  <1>4. CASE mixed' = TRUE
    BY <1>2, <1>4, Zenon DEF Safe
  <1>5. CASE Orderly /\ mixed' = mixed
    <2>1. ASSUME ~mixed
          PROVE  Inv'
      <3>1. Inv
        BY <1>1, <2>1
      <3>2. CASE EpollIn \/ \E n \in 1 .. Total : Arrive(n)
        BY <3>1, <3>2, KernelKeeps
      <3>3. CASE Recv
        BY <2>1, <3>1, <3>3, RecvKeeps
      <3>4. CASE RestHeader \/ PartialPacket
        BY <3>1, <3>4, RestHeaderKeeps, PartialPacketKeeps, Zenon
      <3>5. CASE DeliverPacket \/ EndOfBuffer
        BY <3>1, <3>5, DeliverPacketKeeps, EndOfBufferKeeps, Zenon
      <3>6. CASE UNCHANGED vars
        BY <3>1, <3>6, StutterKeeps, Zenon
      <3> QED
        BY <1>5, <3>2, <3>3, <3>4, <3>5, <3>6, Zenon DEF Orderly
    <2> QED
      BY <1>1, <1>2, <1>5, <2>1, Zenon DEF Safe
  <1> QED
    BY <1>3, <1>4, <1>5, Orders, Zenon

\* The parser and its buffers, for every stream, every size of the buffers and
\* every way recv cuts the stream: as long as it was given nothing but the bytes
\* of the connection, what was delivered are its first packets, the buffers hold
\* the bytes received after them and nothing else, and less than the parser could
\* act on stays between two calls.
THEOREM FramingSafety == Spec => []Safe
  <1>1. Init => Safe
    <2> SUFFICES ASSUME Init
                 PROVE  Safe
      OBVIOUS
    <2>1. Inv /\ mixed = FALSE /\ first = 1 /\ received = 0
      BY InitInv, Zenon DEF Init
    <2>2. /\ Stream /\ first \in 1 .. Count + 1 /\ arrived \in Nat /\ received \in Nat
          /\ received <= arrived /\ arrived <= Total
      BY <2>1 DEF Inv, Types
    <2>3. Start(first) <= received
      BY <2>1, <2>2, StartNext
    <2> QED
      BY <2>1, <2>2, <2>3, Zenon DEF Safe, Counts
  <1>2. Safe /\ [Next]_vars => Safe'
    BY NextSafe
  <1> QED
    BY <1>1, <1>2, PTL DEF Spec

-----------------------------------------------------------------------------
(* What the invariant says to the application *)

\* The packets complete between two calls are those that were delivered.
LEMMA CompleteDelivered ==
    ASSUME Inv, cur = "idle"
    PROVE  Complete = first .. At - 1
  <1>1. /\ Types /\ InOrder /\ Stream /\ Count \in Nat /\ first \in 1 .. Count + 1
        /\ At \in 1 .. Count + 1 /\ From \in Nat /\ received \in Nat /\ From <= received
        /\ At <= Count => received - From < Enough(At)
    BY Numbers, Zenon DEF Inv, Types, Between
  <1>2. \A k \in 1 .. Count + 1 : Start(k) \in Nat
    BY <1>1, StartNext
  <1>3. ASSUME NEW k \in first .. At - 1
        PROVE  k \in Complete
    <2>1. k \in first .. Count /\ k + 1 \in 1 .. Count + 1 /\ k + 1 <= At
      BY <1>1
    <2>2. Start(k + 1) <= From
      <3>1. CASE k + 1 = At
        BY <1>1, <3>1 DEF From
      <3>2. CASE k + 1 < At
        <4>1. Start(k + 1) < Start(At)
          BY <1>1, <2>1, <3>2, StartLess
        <4> QED
          BY <1>1, <1>2, <2>1, <4>1 DEF From
      <3> QED
        BY <1>1, <2>1, <3>1, <3>2
    <2>3. Start(k + 1) <= received
      BY <1>1, <1>2, <2>1, <2>2
    <2>4. packets[k].ok
      BY <1>1 DEF InOrder
    <2> QED
      BY <2>1, <2>3, <2>4 DEF Complete
  <1>4. ASSUME NEW k \in Complete
        PROVE  k \in first .. At - 1
    <2>1. k \in first .. Count /\ packets[k].ok /\ Start(k + 1) <= received
      BY DEF Complete
    <2> SUFFICES ASSUME k >= At
                 PROVE  FALSE
      BY <1>1, <2>1
    <2>2. At \in 1 .. Count /\ k + 1 \in 1 .. Count + 1 /\ At + 1 \in 1 .. Count + 1
      BY <1>1, <2>1
    <2>3. packets[At].ok
      <3>1. CASE k = At
        BY <2>1, <3>1
      <3>2. CASE k # At
        <4>1. At \in 1 .. Count - 1
          BY <1>1, <2>1, <2>2, <3>2
        <4> QED
          BY <1>1, <4>1 DEF Stream
      <3> QED
        BY <3>1, <3>2
    <2>4. Start(At + 1) > received
      <3> DEFINE len == Length(packets[At])
      <3>1. len \in Nat /\ Start(At + 1) = From + len /\ Enough(At) = len
        BY <1>1, <2>2, <2>3, Numbers DEF Enough
      <3>2. received - From < len
        BY <1>1, <2>2, <3>1
      <3>3. received \in Nat /\ From \in Nat /\ len \in Nat /\ Start(At + 1) = From + len
        BY <1>1, <3>1, Zenon
      <3> HIDE DEF len
      <3> QED
        BY <3>2, <3>3
    <2>5. CASE k = At
      BY <1>1, <1>2, <2>1, <2>2, <2>4, <2>5
    <2>6. CASE k # At
      <3>1. At + 1 < k + 1
        BY <1>1, <2>1, <2>2, <2>6
      <3>2. Start(At + 1) < Start(k + 1)
        BY <1>1, <2>2, <3>1, StartLess
      <3> QED
        BY <1>1, <1>2, <2>1, <2>2, <2>4, <3>2
    <2> QED
      BY <2>5, <2>6
  <1> QED
    BY <1>3, <1>4, Zenon

\* Between two recvs resetOfData holds the bytes after the last packet, all of
\* them and nothing else, and room for the rest of a packet whose length is known,
\* as long as the parser was given nothing but the bytes of the connection.
THEOREM RestIsTheTail == Spec => []RestIsTail
  <1>1. ASSUME Inv, cur = "idle"
        PROVE  LET from == Start(first + Len(delivered))
               IN  /\ SubSeq(rest.data, 1, rest.pos) = [i \in 1 .. received - from |-> from + i]
                   /\ rest # NoBuffer /\ last # 0 => rest.lim = last /\ rest.pos < last
    <2> DEFINE p == rest.pos
               d == rest.data
               s == SubSeq(d, 1, p)
    <2>1. From = Start(first + Len(delivered))
      BY DEF From, At
    <2>2. /\ p = received - From /\ p \in Nat /\ d \in Seq(Nat) /\ p <= Len(d)
      <3>1. /\ rest.pos = received - From /\ rest.pos \in Nat /\ rest.data \in Seq(Nat)
            /\ rest.pos <= rest.lim /\ rest.lim <= Len(rest.data) /\ rest.lim \in Nat
            /\ Len(rest.data) \in Nat
        BY <1>1 DEF Inv, Between, Types, WellFormed, Buffers
      <3> QED
        BY <3>1
    <2>3. \A i \in 1 .. p : d[0 + i] = From + i
      BY <1>1 DEF Inv, Between, Holds
    <2> HIDE DEF p, d
    <2>4. s = [i \in 1 .. p |-> d[i]]
      BY <2>2
    <2>5. s = [i \in 1 .. received - From |-> From + i]
      BY <2>2, <2>3, <2>4
    <2>6. rest # NoBuffer /\ last # 0 => rest.lim = last /\ rest.pos < last
      BY <1>1 DEF Inv, Between, Known
    <2> QED
      BY <2>1, <2>5, <2>6 DEF p, d
  <1>2. Safe => RestIsTail
    BY <1>1, Zenon DEF RestIsTail, Safe
  <1> QED
    BY <1>2, FramingSafety, PTL

-----------------------------------------------------------------------------
(* When recv is called *)

\* What arrived and was not read is reported, or is being read.
Reported == ~reading /\ arrived > received => edge

\* Why recv may be called on an empty socket.
Refilled ==
    reading /\ arrived = received =>
        received - Start(first) >= ReadSize \/ (inLoop /\ received = Start(first))

\* No arrival is forgotten: a read that did not fill the buffer emptied the socket.
LEMMA ReportedKeeps ==
    ASSUME Counts, Counts', Reported, [Next]_vars
    PROVE  Reported'
  <1>0. arrived \in Nat /\ received \in Nat /\ arrived' \in Nat /\ received' \in Nat
    BY DEF Counts
  <1>1. CASE Quiet
    BY <1>1 DEF Quiet, Reported
  <1>2. CASE EpollIn
    BY <1>2, Zenon DEF EpollIn, Reported
  <1>3. CASE \E n \in 1 .. Total : Arrive(n)
    BY <1>3 DEF Arrive, Reported
  <1>4. CASE Recv
    <2> DEFINE n == Min({ReadSize, arrived - received})
    <2>1. n # ReadSize => received' = arrived
      BY <1>0, <1>4, RecvNumbers
    <2>2. reading' = ReadsOn(n) /\ arrived' = arrived
      BY <1>4 DEF Recv, kernel
    <2> HIDE DEF n
    <2>3. ~reading' => received' = arrived'
      BY <2>1, <2>2, Zenon DEF ReadsOn
    <2> QED
      BY <1>0, <2>3 DEF Reported
  <1>5. CASE NewStream
    <2>1. arrived' = received'
      BY <1>5, Zenon DEF NewStream
    <2> QED
      BY <1>0, <2>1 DEF Reported
  <1> QED
    BY <1>1, <1>2, <1>3, <1>4, <1>5, Kinds, Zenon

\* recv is called on an empty socket only after a full buffer of this connection,
\* or with the one in which its predecessor ended.
LEMMA RefilledKeeps ==
    ASSUME Counts, Refilled, [Next]_vars
    PROVE  Refilled'
  <1>0. /\ Stream /\ first \in 1 .. Count + 1 /\ arrived \in Nat /\ received \in Nat
        /\ received <= arrived /\ Start(first) <= received /\ ReadSize \in Nat
    BY FramingAssumption DEF Counts
  <1>1. CASE Quiet
    <2>1. Start(first)' = Start(first)
      BY <1>1 DEF Quiet, Start
    <2> QED
      BY <1>1, <2>1, Zenon DEF Quiet, Refilled
  <1>2. CASE EpollIn
    <2>1. reading' = (arrived > received) /\ arrived' = arrived /\ received' = received
      BY <1>2 DEF EpollIn
    <2>2. arrived > received => arrived # received
      BY <1>0
    <2>3. reading' => arrived' # received'
      BY <2>1, <2>2, Zenon
    <2> QED
      BY <2>3 DEF Refilled
  <1>3. CASE \E n \in 1 .. Total : Arrive(n)
    <2>1. PICK n \in 1 .. Total : Arrive(n)
      BY <1>3
    <2>2. arrived' = arrived + n /\ received' = received /\ n \in Nat /\ n > 0
      BY <2>1 DEF Arrive
    <2>3. arrived' # received'
      BY <1>0, <2>2
    <2> QED
      BY <2>3 DEF Refilled
  <1>4. CASE Recv
    <2> DEFINE n == Min({ReadSize, arrived - received})
    <2>1. n \in Nat /\ received' = received + n
      BY <1>0, <1>4, RecvNumbers
    <2>2. reading' = ReadsOn(n) /\ UNCHANGED <<packets, first>>
      BY <1>4, Zenon DEF Recv
    <2> HIDE DEF n
    <2>3. Start(first)' = Start(first)
      BY <2>2 DEF Start
    <2>4. Start(first) \in Nat
      BY <1>0, StartNext
    <2>5. reading' => received' - Start(first) >= ReadSize
      <3>1. reading' => n = ReadSize
        BY <2>2, Zenon DEF ReadsOn
      <3> QED
        BY <1>0, <2>1, <2>4, <3>1
    <2> QED
      BY <2>3, <2>5, Zenon DEF Refilled
  <1>5. CASE NewStream /\ inLoop' = TRUE
    <2>1. PICK k \in 1 .. Count + 1 :
              first' = k /\ received' = Start(k) /\ packets' = packets
      BY <1>5, NewStreamIs, Zenon
    <2>2. \A j : Start(j)' = Start(j)
      BY <1>0, <2>1, StartSame
    <2>3. Start(first)' = Start(k)
      BY <2>1, <2>2
    <2> QED
      BY <1>5, <2>1, <2>3, Zenon DEF Refilled
  <1>6. CASE reading' = FALSE
    BY <1>6 DEF Refilled
  <1> QED
    BY <1>1, <1>2, <1>3, <1>4, <1>5, <1>6, Kinds, ZenonT(30)

\* No byte waits in the kernel for an event epoll has reported already, whatever
\* the size of the buffer and whatever the parser reads: onEvent stops reading only
\* when the socket is empty.
THEOREM UnreadIsAlwaysReported == Spec => []UnreadIsReported
  <1>1. Init => Reported
    BY DEF Init, Reported
  <1>2. Safe /\ Safe' /\ Reported /\ [Next]_vars => Reported'
    BY ReportedKeeps DEF Safe
  <1>3. Reported => UnreadIsReported
    BY DEF Reported, UnreadIsReported
  <1> QED
    BY <1>1, <1>2, <1>3, FramingSafety, PTL DEF Spec

\* A connection on which less than a buffer was received is never given up by
\* recv, unless it was opened inside onRecvData, when its predecessor ended in a
\* full buffer, and nothing of it was read yet.
THEOREM FullReadsAloneClose == Spec => []OnlyFullReadsClose
  <1>1. Init => Refilled
    BY DEF Init, Refilled
  <1>2. Safe /\ Refilled /\ [Next]_vars => Refilled'
    BY RefilledKeeps DEF Safe
  <1>3. Refilled => OnlyFullReadsClose
    BY DEF Refilled, OnlyFullReadsClose
  <1> QED
    BY <1>1, <1>2, <1>3, FramingSafety, PTL DEF Spec

-----------------------------------------------------------------------------
(* How many packets are delivered *)

\* Cardinality, written out: FiniteSetTheorems speaks of an instance of its own.
Size(S) == LET size[T \in SUBSET S] == IF T = {} THEN 0 ELSE 1 + size[T \ {CHOOSE x : x \in T}]
           IN  size[S]

\* Cardinality as PacketFraming has it.
LEMMA SizeIs ==
    ASSUME NEW S
    PROVE  Cardinality(S) = Size(S)
  BY DEF Cardinality, Size

LOCAL INSTANCE FiniteSetTheorems

\* The size of an interval.
LEMMA IntervalSize ==
    ASSUME NEW f \in Nat, NEW n \in Nat
    PROVE  Size(f .. f + n - 1) = n
  <1>1. f \in Int /\ f + n - 1 \in Int
    OBVIOUS
  <1>2. Cardinality(f .. f + n - 1) = IF f > f + n - 1 THEN 0 ELSE (f + n - 1) - f + 1
    BY <1>1, FS_Interval
  <1>3. Cardinality(f .. f + n - 1) = Size(f .. f + n - 1)
    BY DEF Cardinality, Size
  <1> QED
    BY <1>2, <1>3

\* What HasHeader sees is a header; what was delivered is what was sent; nothing
\* complete is kept back.
LEMMA InvDelivers ==
    ASSUME Inv
    PROVE  PacketsDelivered
  <1>1. HasHeader => Packet # 0
    <2> SUFFICES ASSUME HasHeader
                 PROVE  Packet # 0
      OBVIOUS
    <2>1. Packet = At /\ At \in 1 .. Count
      BY Recognised
    <2> QED
      BY <2>1
  <1>2. \A i \in 1 .. Len(delivered) : delivered[i] = BytesOf(first + i - 1)
    BY DEF Inv, InOrder
  <1>3. ASSUME cur = "idle"
        PROVE  Len(delivered) = Size(Complete)
    <2> DEFINE n == Len(delivered)
    <2>1. first \in Nat /\ n \in Nat /\ At - 1 = first + n - 1
      BY Numbers DEF Inv, At
    <2>2. Complete = first .. At - 1
      BY <1>3, CompleteDelivered
    <2> HIDE DEF n
    <2>3. Size(Complete) = n
      BY <2>1, <2>2, IntervalSize
    <2> QED
      BY <2>3, ZenonT(30) DEF n
  <1> QED
    BY <1>1, <1>2, <1>3, SizeIs, ZenonT(30) DEF PacketsDelivered

\* However recv cuts the stream, the application gets every packet exactly as the
\* server sent it, in order, as soon as its last byte is there, as long as the
\* parser was given nothing but the bytes of the connection.
THEOREM PacketsAreDelivered == Spec => []PacketsDelivered
  <1>1. Safe => PacketsDelivered
    BY InvDelivers, Zenon DEF Safe, PacketsDelivered
  <1> QED
    BY <1>1, FramingSafety, PTL
=============================================================================
