---------------------------- MODULE SendPathLemmas ----------------------------
(***************************************************************************)
(* What the operators of SendPath do: BufferStorage keeps its lists apart, *)
(* a buffer changes hands, and ByteStream cuts what is queued.  For any    *)
(* messages, buffers, free lists, lengths and sizes.                       *)
(***************************************************************************)
EXTENDS SendPath, TLAPS

-----------------------------------------------------------------------------
(* Induction *)

\* The lemmas that need induction take it as an assumption, Induction, which the last
\* section of SendPathProofs proves with the library's theorems.

\* A set of natural numbers has a least element.
HasLeast == \A T : T \subseteq Nat /\ T # {} => \E n \in T : \A m \in T : n <= m

\* Induction over an initial segment of the natural numbers.
Inducts ==
    \A n \in Nat : \A T :
        0 \in T /\ (\A i \in 0 .. n - 1 : i \in T => i + 1 \in T) => 0 .. n \subseteq T

\* The recursion of g; step takes the number and the value before.
Recurs(g, n, first, step) ==
    /\ g[0] = first
    /\ \A i \in 1 .. n : g[i] = step[<<i, g[i - 1]>>]

\* A function may be defined by recursion over an initial segment.
HasRecursive ==
    \A n \in Nat : \A V : \A first \in V : \A step \in [(1 .. n) \X V -> V] :
        \E g \in [0 .. n -> V] : Recurs(g, n, first, step)

\* The first n numbers are n.
Counts == \A n \in Nat : Cardinality(1 .. n) = n

Induction == HasLeast /\ Inducts /\ HasRecursive /\ Counts

-----------------------------------------------------------------------------
(* Sequences *)

\* Two sequences with the same elements are the same.
LEMMA SameSeq ==
    ASSUME NEW S, NEW a \in Seq(S), NEW b \in Seq(S), Len(a) = Len(b),
           \A i \in 1 .. Len(a) : a[i] = b[i]
    PROVE  a = b
  OBVIOUS

\* A sequence behind another, or behind nothing.
LEMMA ConcatIs ==
    ASSUME NEW S, NEW a \in Seq(S), NEW b \in Seq(S)
    PROVE  /\ a \o b \in Seq(S) /\ Len(a \o b) = Len(a) + Len(b)
           /\ \A i \in 1 .. Len(a) + Len(b) :
                 (a \o b)[i] = IF i <= Len(a) THEN a[i] ELSE b[i - Len(a)]
           /\ a \o <<>> = a /\ <<>> \o a = a
  OBVIOUS

\* The elements from m to n.
LEMMA SubSeqIs ==
    ASSUME NEW S, NEW a, NEW m \in Int, NEW n \in Int, \A i \in m .. n : a[i] \in S
    PROVE  /\ SubSeq(a, m, n) \in Seq(S)
           /\ Len(SubSeq(a, m, n)) = IF m <= n THEN n - m + 1 ELSE 0
           /\ \A i \in 1 .. n - m + 1 : SubSeq(a, m, n)[i] = a[m + i - 1]
  OBVIOUS

\* There are none when n is before m.
LEMMA NoSubSeq ==
    ASSUME NEW a, NEW m \in Int, NEW n \in Int, n < m
    PROVE  SubSeq(a, m, n) = <<>>
  OBVIOUS

\* What is behind the first d elements.
LEMMA Tails ==
    ASSUME NEW S, NEW q \in Seq(S), NEW d \in 0 .. Len(q)
    PROVE  /\ SubSeq(q, d + 1, Len(q)) \in Seq(S) /\ Len(SubSeq(q, d + 1, Len(q))) = Len(q) - d
           /\ \A i \in 1 .. Len(q) - d : SubSeq(q, d + 1, Len(q))[i] = q[d + 1 + i - 1]
  <1> DEFINE m == d + 1
             n == Len(q)
  <1>1. m \in 1 .. n + 1 /\ n \in m - 1 .. n /\ n - m + 1 = n - d /\ n \in Nat
    OBVIOUS
  <1>2. \A i \in 1 .. n - d : m + i - 1 = d + 1 + i - 1
    OBVIOUS
  <1> HIDE DEF m, n
  <1>3. /\ SubSeq(q, m, n) \in Seq(S)
        /\ Len(SubSeq(q, m, n)) = n - m + 1
        /\ \A i \in 1 .. n - m + 1 : SubSeq(q, m, n)[i] = q[m + i - 1]
    BY <1>1, SubSeqIs DEF n
  <1> QED
    BY <1>1, <1>2, <1>3, Zenon DEF m, n

\* Concatenation is associative.
Regroups(S) == \A s, t, u \in Seq(S) : (s \o t) \o u = s \o (t \o u)

\* It is, for sequences of any set.
LEMMA Associative ==
    ASSUME NEW S
    PROVE  Regroups(S)
  BY DEF Regroups

\* f joins the pieces of cs, one after the other.
Joins(f, cs) == f[0] = <<>> /\ \A i \in 1 .. Len(cs) : f[i] = f[i - 1] \o cs[i]

\* What Joined is: the last of them.
LEMMA JoinedDef ==
    ASSUME Induction, NEW S, NEW cs \in Seq(Seq(S))
    PROVE  \E f \in [0 .. Len(cs) -> Seq(S)] : Joins(f, cs) /\ Joined(cs) = f[Len(cs)]
  <1> DEFINE n == Len(cs)
             step == [x \in (1 .. n) \X Seq(S) |-> x[2] \o cs[x[1]]]
  <1>1. n \in Nat /\ \A i \in 1 .. n : cs[i] \in Seq(S)
    OBVIOUS
  <1>2. step \in [(1 .. n) \X Seq(S) -> Seq(S)]
    <2>1. ASSUME NEW x \in (1 .. n) \X Seq(S)
          PROVE  x[2] \o cs[x[1]] \in Seq(S)
      <3>1. x[2] \in Seq(S) /\ cs[x[1]] \in Seq(S)
        BY <1>1
      <3> QED
        BY <3>1, ConcatIs
    <2> QED
      BY <2>1
  <1>3. PICK g \in [0 .. n -> Seq(S)] : Recurs(g, n, <<>>, step)
    <2>1. <<>> \in Seq(S)
      OBVIOUS
    <2> HIDE DEF step, n
    <2> QED
      BY <1>1, <1>2, <2>1, Zenon DEF Induction, HasRecursive
  <1>4. g[0] = <<>> /\ \A i \in 1 .. n : g[i] = step[<<i, g[i - 1]>>]
    BY <1>3, Zenon DEF Recurs
  <1>5. \A i \in 1 .. n : g[i] = g[i - 1] \o cs[i]
    <2> SUFFICES ASSUME NEW i \in 1 .. n
                 PROVE  g[i] = g[i - 1] \o cs[i]
      BY Zenon
    <2>1. i - 1 \in 0 .. n
      BY <1>1
    <2>2. <<i, g[i - 1]>> \in (1 .. n) \X Seq(S)
      BY <1>3, <2>1, Zenon
    <2> HIDE DEF n
    <2> QED
      BY <1>4, <2>2, Zenon
  <1> DEFINE Def(f) == [i \in 0 .. n |-> IF i = 0 THEN <<>> ELSE f[i - 1] \o cs[i]]
             F == CHOOSE f : f = Def(f)
  <1>6. Joined(cs) = F[n]
    BY DEF Joined
  <1> HIDE DEF n
  <1>7. g = Def(g)
    <2>1. ASSUME NEW i \in 0 .. n
          PROVE  g[i] = IF i = 0 THEN <<>> ELSE g[i - 1] \o cs[i]
      <3>1. i # 0 => i \in 1 .. n
        BY <1>1
      <3> QED
        BY <1>4, <1>5, <3>1, Zenon
    <2>2. Def(g) \in [0 .. n -> Seq(S)]
      BY <1>3, <2>1, Zenon
    <2> QED
      BY <1>3, <2>1, <2>2, Zenon
  <1>8. F = Def(F)
    BY <1>7, Zenon
  <1> HIDE DEF F
  <1>9. \A f : f = Def(f) => \A i \in 0 .. n : f[i] = IF i = 0 THEN <<>> ELSE f[i - 1] \o cs[i]
    BY Zenon
  <1> DEFINE U == {i \in 0 .. n : F[i] = g[i]}
  <1>10. 0 \in U
    BY <1>1, <1>7, <1>8, <1>9
  <1>11. ASSUME NEW i \in 0 .. n - 1, i \in U
         PROVE  i + 1 \in U
    <2> DEFINE k == i + 1
    <2>1. k \in 0 .. n /\ k - 1 = i /\ k # 0
      BY <1>1
    <2> HIDE DEF k
    <2>2. g[k] = g[k - 1] \o cs[k] /\ F[k] = F[k - 1] \o cs[k]
      BY <1>7, <1>8, <1>9, <2>1, Zenon
    <2>3. F[k] = g[k]
      BY <1>11, <2>1, <2>2, Zenon
    <2> QED
      BY <2>1, <2>3 DEF k
  <1>12. n \in U
    <2> HIDE DEF U
    <2>1. 0 .. n \subseteq U
      BY <1>1, <1>10, <1>11, Zenon DEF Induction, Inducts
    <2> QED
      BY <1>1, <2>1
  <1> QED
    BY <1>3, <1>4, <1>5, <1>6, <1>12, Zenon DEF Joins, n

\* The next piece.
LEMMA JoinsNext ==
    ASSUME NEW S, NEW cs \in Seq(S), NEW f, Joins(f, cs), NEW i \in 0 .. Len(cs) - 1
    PROVE  f[i + 1] = f[i] \o cs[i + 1]
  <1>1. i + 1 \in 1 .. Len(cs) /\ (i + 1) - 1 = i
    OBVIOUS
  <1> QED
    BY <1>1, Zenon DEF Joins

\* A piece is appended.
LEMMA JoinedAppend ==
    ASSUME Induction, NEW S, NEW cs \in Seq(Seq(S)), NEW c \in Seq(S)
    PROVE  Joined(Append(cs, c)) = Joined(cs) \o c
  <1> DEFINE n == Len(cs)
             ds == Append(cs, c)
  <1>1. /\ n \in Nat /\ ds \in Seq(Seq(S)) /\ Len(ds) = n + 1 /\ ds[n + 1] = c
        /\ \A i \in 1 .. n : ds[i] = cs[i]
    OBVIOUS
  <1> HIDE DEF ds
  <1>2. PICK f \in [0 .. n -> Seq(S)] : Joins(f, cs) /\ Joined(cs) = f[n]
    BY JoinedDef
  <1>3. PICK g \in [0 .. n + 1 -> Seq(S)] : Joins(g, ds) /\ Joined(ds) = g[n + 1]
    <2>1. \E g \in [0 .. Len(ds) -> Seq(S)] : Joins(g, ds) /\ Joined(ds) = g[Len(ds)]
      BY <1>1, JoinedDef, Zenon
    <2> QED
      BY <1>1, <2>1, Zenon
  <1> HIDE DEF n
  <1> DEFINE U == {i \in 0 .. n : f[i] = g[i]}
  <1>4. 0 \in U
    BY <1>1, <1>2, <1>3 DEF Joins
  <1>5. ASSUME NEW i \in 0 .. n - 1, i \in U
        PROVE  i + 1 \in U
    <2>1. i + 1 \in 1 .. n /\ i + 1 \in 0 .. n /\ i \in 0 .. Len(ds) - 1
      BY <1>1
    <2>2. f[i + 1] = f[i] \o cs[i + 1]
      BY <1>2, JoinsNext, Zenon DEF n
    <2>3. g[i + 1] = g[i] \o ds[i + 1]
      BY <1>1, <1>3, <2>1, JoinsNext, Zenon
    <2> QED
      BY <1>1, <1>5, <2>1, <2>2, <2>3, Zenon
  <1>6. n \in U
    <2> HIDE DEF U
    <2>1. 0 .. n \subseteq U
      BY <1>1, <1>4, <1>5, Zenon DEF Induction, Inducts
    <2> QED
      BY <1>1, <2>1
  <1>7. n \in 0 .. Len(ds) - 1
    BY <1>1
  <1>8. g[n + 1] = g[n] \o ds[n + 1]
    BY <1>1, <1>3, <1>7, JoinsNext, Zenon
  <1>9. g[n + 1] = f[n] \o c
    BY <1>1, <1>6, <1>8, Zenon
  <1> QED
    BY <1>2, <1>3, <1>9, Zenon DEF ds

\* ds is what is behind the first d pieces of cs, without a.
Remains(cs, d, a, ds) ==
    /\ Len(ds) = Len(cs) - d
    /\ cs[d + 1] = a \o ds[1]
    /\ \A i \in 2 .. Len(ds) : ds[i] = cs[d + i]

\* f joins sequences of S.
JoinsOf(S, f, cs) == cs \in Seq(Seq(S)) /\ f \in [0 .. Len(cs) -> Seq(S)] /\ Joins(f, cs)

\* What f joined is its first d pieces, a, and ds.
Parted(f, cs, d, a, ds) == f[Len(cs)] = (f[d] \o a) \o Joined(ds)

\* The beginning is cut off, in the middle of piece d + 1 or before it.
LEMMA JoinedCut ==
    ASSUME Induction, NEW S, NEW cs, NEW f, JoinsOf(S, f, cs),
           NEW d \in 0 .. Len(cs) - 1, NEW a \in Seq(S), NEW ds \in Seq(Seq(S)),
           Remains(cs, d, a, ds)
    PROVE  Parted(f, cs, d, a, ds)
  <1>0. cs \in Seq(Seq(S)) /\ f \in [0 .. Len(cs) -> Seq(S)] /\ Joins(f, cs)
    BY Zenon DEF JoinsOf
  <1> USE <1>0
  <1> DEFINE n == Len(cs) - d
             w == f[d] \o a
  <1>1. n \in Nat /\ n # 0 /\ d \in Nat /\ d \in 0 .. Len(cs) /\ d + n = Len(cs)
    OBVIOUS
  <1>2. \A i \in 0 .. n - 1 : d + i \in 0 .. Len(cs) - 1 /\ (d + i) + 1 = d + (i + 1)
    OBVIOUS
  <1>4. Len(ds) = n
    BY Zenon DEF Remains
  <1>14. cs[d + 1] = a \o ds[1] /\ \A i \in 2 .. Len(ds) : ds[i] = cs[d + i]
    BY Zenon DEF Remains
  <1>3. PICK g \in [0 .. n -> Seq(S)] : Joins(g, ds) /\ Joined(ds) = g[n]
    <2>1. \E g \in [0 .. Len(ds) -> Seq(S)] : Joins(g, ds) /\ Joined(ds) = g[Len(ds)]
      BY JoinedDef
    <2> HIDE DEF n
    <2> QED
      BY <1>4, <2>1, Zenon
  <1>5. w \in Seq(S)
    <2>1. f[d] \in Seq(S)
      BY <1>1, Zenon
    <2> QED
      BY <2>1, ConcatIs
  <1> HIDE DEF n
  <1>6. ASSUME NEW i \in 0 .. n - 1
        PROVE  f[d + (i + 1)] = f[d + i] \o cs[d + (i + 1)]
    <2> DEFINE k == d + i
    <2>1. k \in 0 .. Len(cs) - 1 /\ k + 1 = d + (i + 1)
      BY <1>2
    <2> HIDE DEF k
    <2>2. f[k + 1] = f[k] \o cs[k + 1]
      BY <2>1, JoinsNext, Zenon
    <2> QED
      BY <2>1, <2>2, Zenon DEF k
  <1>7. g[0] = <<>> /\ \A i \in 0 .. n - 1 : g[i + 1] = g[i] \o ds[i + 1]
    <2>1. g[0] = <<>>
      BY <1>3 DEF Joins
    <2> QED
      BY <1>3, <1>4, <2>1, JoinsNext, Zenon
  <1>8. \A i \in 1 .. n : ds[i] \in Seq(S)
    BY <1>4
  <1> DEFINE U == {i \in 0 .. n : i = 0 \/ f[d + i] = w \o g[i]}
  <1>9. 0 \in U
    BY <1>1
  <1>10. ASSUME NEW i \in 0 .. n - 1, i \in U
         PROVE  i + 1 \in U
    <2>1. i + 1 \in 1 .. n /\ i + 1 \in 0 .. n /\ (i + 1) - 1 = i /\ i \in 0 .. n
      BY <1>1
    <2>2. f[d + (i + 1)] = f[d + i] \o cs[d + (i + 1)] /\ g[i + 1] = g[i] \o ds[i + 1]
      BY <1>6, <1>7, Zenon
    <2>3. ds[i + 1] \in Seq(S) /\ g[i] \in Seq(S)
      BY <1>3, <1>8, <2>1, Zenon
    <2>4. CASE i = 0
      <3>1. d + i = d /\ d + (i + 1) = d + 1 /\ i + 1 = 1
        BY <1>1, <2>4
      <3>2. f[d] \in Seq(S) /\ ds[1] \in Seq(S)
        BY <1>1, <2>3, <3>1, Zenon
      <3>3. f[d + 1] = f[d] \o (a \o ds[1])
        BY <1>14, <2>2, <3>1, Zenon
      <3>4. f[d + 1] = w \o ds[1]
        <4>1. \A p, e \in Seq(S) : (p \o a) \o e = p \o (a \o e)
          <5>1. Regroups(S)
            BY Associative, Zenon
          <5> QED
            BY <5>1, Zenon DEF Regroups
        <4> QED
          BY <3>2, <3>3, <4>1, Zenon
      <3>5. g[1] = ds[1]
        <4>1. g[1] = <<>> \o ds[1]
          BY <1>7, <2>2, <2>4, <3>1, Zenon
        <4> QED
          BY <3>2, <4>1, ConcatIs
      <3> QED
        BY <2>1, <3>1, <3>4, <3>5, Zenon
    <2>5. CASE i # 0
      <3>1. f[d + i] = w \o g[i]
        BY <1>10, <2>5, Zenon
      <3>2. ds[i + 1] = cs[d + (i + 1)]
        <4>1. i + 1 \in 2 .. Len(ds)
          BY <1>1, <1>4, <2>5
        <4> QED
          BY <1>14, <4>1, Zenon
      <3>3. f[d + (i + 1)] = (w \o g[i]) \o ds[i + 1]
        BY <2>2, <3>1, <3>2, Zenon
      <3> HIDE DEF w
      <3>4. (w \o g[i]) \o ds[i + 1] = w \o (g[i] \o ds[i + 1])
        <4>1. \A p, e \in Seq(S) : (w \o p) \o e = w \o (p \o e)
          <5>1. Regroups(S)
            BY Associative, Zenon
          <5> QED
            BY <1>5, <5>1, Zenon DEF Regroups
        <4> QED
          BY <2>3, <4>1, Zenon
      <3>5. f[d + (i + 1)] = w \o g[i + 1]
        BY <2>2, <3>3, <3>4, Zenon
      <3> QED
        BY <2>1, <3>5
    <2> QED
      BY <2>4, <2>5, Zenon
  <1>11. n \in U
    <2> HIDE DEF U
    <2>1. 0 .. n \subseteq U
      BY <1>1, <1>9, <1>10, Zenon DEF Induction, Inducts
    <2> QED
      BY <1>1, <2>1
  <1> HIDE DEF w
  <1>12. f[d + n] = w \o g[n]
    BY <1>1, <1>11, Zenon
  <1> QED
    BY <1>1, <1>3, <1>12, Zenon DEF w, Parted

\* The beginning of a concatenation.
LEMMA PrefixOfConcat ==
    ASSUME NEW S, NEW s \in Seq(S), NEW t \in Seq(S)
    PROVE  SubSeq(s \o t, 1, Len(s)) = s
  <1> DEFINE u == s \o t
             n == Len(s)
             p == SubSeq(u, 1, n)
  <1>1. /\ u \in Seq(S) /\ Len(u) = n + Len(t) /\ n \in Nat /\ Len(t) \in Nat
        /\ \A i \in 1 .. n : u[i] = s[i] /\ s[i] \in S
    BY ConcatIs
  <1> HIDE DEF u
  <1>2. p \in Seq(S) /\ Len(p) = n /\ \A i \in 1 .. n : p[i] = u[1 + i - 1]
    <2>1. \A i \in 1 .. n : u[i] \in S
      BY <1>1
    <2>2. /\ p \in Seq(S) /\ Len(p) = IF 1 <= n THEN n - 1 + 1 ELSE 0
          /\ \A i \in 1 .. n - 1 + 1 : p[i] = u[1 + i - 1]
      <3>1. 1 \in Int /\ n \in Int
        OBVIOUS
      <3> HIDE DEF n
      <3> QED
        BY <2>1, <3>1, SubSeqIs
    <2> HIDE DEF p
    <2> QED
      BY <1>1, <2>2
  <1>3. \A i \in 1 .. n : 1 + i - 1 = i
    OBVIOUS
  <1> HIDE DEF p, n
  <1>4. \A i \in 1 .. n : p[i] = s[i]
    BY <1>1, <1>2, <1>3
  <1>5. p = s
    BY <1>2, <1>4, SameSeq DEF n
  <1> QED
    BY <1>5 DEF p, n, u

\* What Joined gives is a sequence; of no pieces it is empty.
LEMMA JoinedType ==
    ASSUME Induction, NEW S, NEW cs \in Seq(Seq(S))
    PROVE  Joined(cs) \in Seq(S)
  <1>1. PICK f \in [0 .. Len(cs) -> Seq(S)] : Joins(f, cs) /\ Joined(cs) = f[Len(cs)]
    BY JoinedDef
  <1>2. Len(cs) \in 0 .. Len(cs)
    OBVIOUS
  <1> QED
    BY <1>1, <1>2

\* Nothing, joined.
LEMMA JoinedEmpty ==
    ASSUME Induction
    PROVE  Joined(<<>>) = <<>>
  <1>1. <<>> \in Seq(Seq({})) /\ Len(<<>>) = 0
    OBVIOUS
  <1>2. \E f \in [0 .. Len(<<>>) -> Seq({})] : Joins(f, <<>>) /\ Joined(<<>>) = f[Len(<<>>)]
    BY <1>1, JoinedDef, Zenon
  <1> QED
    BY <1>1, <1>2, Zenon DEF Joins

\* A function on 1 .. n is a sequence.
LEMMA FunctionIsSeq ==
    ASSUME NEW S, NEW n \in Nat, NEW f \in [1 .. n -> S]
    PROVE  f \in Seq(S) /\ Len(f) = n
  OBVIOUS

\* A function that never falls from one number to the next never falls.
LEMMA Rising ==
    ASSUME Induction, NEW n \in Nat, NEW r \in [0 .. n -> Nat], \A i \in 1 .. n : r[i - 1] <= r[i]
    PROVE  \A i, j \in 0 .. n : i <= j => r[i] <= r[j]
  <1> SUFFICES ASSUME NEW i \in 0 .. n
               PROVE  \A j \in 0 .. n : i <= j => r[i] <= r[j]
    OBVIOUS
  <1> DEFINE U == {j \in 0 .. n : i <= j => r[i] <= r[j]}
  <1>1. 0 \in U
    OBVIOUS
  <1>2. ASSUME NEW j \in 0 .. n - 1, j \in U
        PROVE  j + 1 \in U
    <2>1. j + 1 \in 1 .. n /\ j + 1 \in 0 .. n /\ (j + 1) - 1 = j /\ j \in 0 .. n
      OBVIOUS
    <2>2. r[j] <= r[j + 1] /\ r[i] \in Nat /\ r[j] \in Nat /\ r[j + 1] \in Nat
      BY <2>1
    <2> QED
      BY <1>2, <2>1, <2>2
  <1>3. 0 .. n \subseteq U
    <2> HIDE DEF U
    <2> QED
      BY <1>1, <1>2, Zenon DEF Induction, Inducts
  <1> QED
    BY <1>3

\* Where the first n bytes end, when r[i] of them are in the first i pieces: behind d
\* complete pieces, or in the next.
LEMMA CutAt ==
    ASSUME Induction, NEW N \in Nat, NEW r \in [0 .. N -> Nat], r[0] = 0,
           \A i \in 1 .. N : r[i - 1] <= r[i], NEW n \in Nat, n <= r[N]
    PROVE  \E d \in 0 .. N :
              /\ {i \in 1 .. N : r[i - 1] < n /\ r[i] <= n} = 1 .. d
              /\ r[d] <= n /\ (d < N => n <= r[d + 1])
  <1> DEFINE T == {i \in 1 .. N : r[i - 1] < n /\ r[i] <= n}
             V == (1 .. N) \ T
  <1>1. \A i, j \in 0 .. N : i <= j => r[i] <= r[j]
    BY Rising, Zenon
  <1>2. CASE V = {}
    <2>1. T = 1 .. N
      BY <1>2
    <2>2. r[N] <= n
      <3>1. CASE N = 0
        BY <3>1
      <3>2. CASE N # 0
        <4>1. N \in T
          BY <2>1, <3>2
        <4> QED
          BY <4>1
      <3> QED
        BY <3>1, <3>2
    <2> QED
      BY <2>1, <2>2
  <1>3. CASE V # {}
    <2>1. PICK k \in V : \A i \in V : k <= i
      <3>1. V \subseteq Nat
        OBVIOUS
      <3> HIDE DEF V
      <3> QED
        BY <1>3, <3>1, Zenon DEF Induction, HasLeast
    <2> DEFINE d == k - 1
    <2>2. k \in 1 .. N /\ k \notin T /\ d \in 0 .. N /\ d + 1 = k /\ d < N /\ k \in 0 .. N
      OBVIOUS
    <2>3. \A i \in 1 .. N : i < k => i \in T
      BY <2>1, <2>2
    <2>4. n <= r[k] /\ r[k] \in Nat
      BY <2>2
    <2>5. r[d] <= n
      <3>1. CASE d = 0
        BY <3>1
      <3>2. CASE d # 0
        <4>1. d \in 1 .. N /\ d < k
          BY <2>2, <3>2
        <4>2. d \in T
          BY <2>3, <4>1
        <4> QED
          BY <4>2
      <3> QED
        BY <3>1, <3>2
    <2>6. T = 1 .. d
      <3>1. ASSUME NEW i \in 1 .. d
            PROVE  i \in T
        <4>1. i \in 1 .. N /\ i < k
          BY <2>2
        <4> QED
          BY <2>3, <4>1
      <3>2. ASSUME NEW i \in T
            PROVE  i \in 1 .. d
        <4>1. i \in 1 .. N /\ i - 1 \in 0 .. N /\ r[i - 1] < n /\ r[i - 1] \in Nat
          OBVIOUS
        <4>2. ~(k <= i - 1)
          <5>1. k <= i - 1 => r[k] <= r[i - 1]
            BY <1>1, <2>2, <4>1
          <5> QED
            BY <2>4, <4>1, <5>1
        <4>3. i # k
          BY <2>2
        <4> QED
          BY <2>2, <4>1, <4>2, <4>3
      <3> HIDE DEF T
      <3> QED
        BY <3>1, <3>2, Zenon
    <2> HIDE DEF T
    <2>7. d < N => n <= r[d + 1]
      BY <2>2, <2>4
    <2> HIDE DEF d
    <2> QED
      BY <2>2, <2>5, <2>6, <2>7, Zenon DEF T
  <1> QED
    BY <1>2, <1>3, Zenon

-----------------------------------------------------------------------------
(* The storage, and who has its buffers *)

Contents == {Junk} \cup ({"header", "body", "packet"} \X Messages)

Records == [capacity : Nat, limit : Nat, content : Contents]

Stores == [free : [Capacities -> Seq(Buffers)], buffer : [Buffers -> Records]]

FreeOf(s) == UNION {Range(s.free[c]) : c \in Capacities}

\* The buffers that nobody uses.
Loose(s) == FreeOf(s) \cup Unallocated(s)

\* A buffer is in one free list at most, once, and in that of its capacity: so one
\* that is given out is never too small.
StoreOK(s) ==
    /\ s \in Stores
    /\ \A c, d \in Capacities : \A i \in DOMAIN s.free[c], j \in DOMAIN s.free[d] :
          s.free[c][i] = s.free[d][j] => <<c, i>> = <<d, j>>
    /\ \A c \in Capacities : \A i \in DOMAIN s.free[c] :
          s.buffer[s.free[c][i]].capacity = c
    /\ \A b \in Buffers :
          s.buffer[b].capacity # 0 => ListFor(s.buffer[b].capacity) = s.buffer[b].capacity

\* Each buffer is in exactly one place: loose, in the stream q, in sendBuffer x, or
\* in the hands h[m] of one message m.
Owners(loose, q, x, h) ==
    /\ q \in Seq(Buffers) /\ x \in Buffers \cup {Null} /\ h \in [Messages -> Buffers \cup {Null}]
    /\ loose \subseteq Buffers
    /\ \A i, j \in DOMAIN q : q[i] = q[j] => i = j
    /\ \A i \in DOMAIN q : q[i] \notin loose /\ q[i] # x
    /\ x \notin loose
    /\ \A m \in Messages : h[m] \notin loose /\ (h[m] # Null => h[m] # x)
    /\ \A m \in Messages : \A i \in DOMAIN q : h[m] # q[i]
    /\ \A m, n \in Messages : h[m] = h[n] /\ h[m] # Null => m = n
    /\ \A b \in Buffers :
          b \in loose \/ b = x \/ (\E i \in DOMAIN q : b = q[i]) \/ \E m \in Messages : b = h[m]

-----------------------------------------------------------------------------
(* BufferStorage *)

\* Min of a set of natural numbers is its least element.
LEMMA LeastIs ==
    ASSUME Induction, NEW T, T \subseteq Nat, T # {}
    PROVE  Min(T) \in T /\ \A n \in T : Min(T) <= n
  BY Zenon DEF Induction, HasLeast, Min

\* The free list for a size has buffers that are large enough.
LEMMA ListForFits ==
    ASSUME Induction, NEW size \in Nat
    PROVE  /\ ListFor(size) \in Nat /\ ListFor(size) # 0 /\ ListFor(size) >= size
           /\ ListFor(ListFor(size)) = ListFor(size)
  <1> DEFINE fitting(n) == {c \in Capacities : c >= n}
  <1>0. Capacities \subseteq Nat \ {0} /\ Capacities # {}
    BY SendAssumption
  <1>1. \A n : ListFor(n) = IF fitting(n) = {} THEN n ELSE Min(fitting(n))
    BY DEF ListFor
  <1>2. CASE fitting(size) = {}
    <2>1. PICK c \in Capacities : c \in Nat /\ c # 0
      BY <1>0, Zenon
    <2>2. ~(c >= size)
      BY <1>2
    <2>3. ListFor(size) = size
      BY <1>1, <1>2, Zenon
    <2> QED
      BY <2>1, <2>2, <2>3
  <1>3. CASE fitting(size) # {}
    <2> DEFINE l == ListFor(size)
    <2>1. l = Min(fitting(size)) /\ fitting(size) \subseteq Nat
      BY <1>0, <1>1, <1>3, Zenon
    <2>2. l \in fitting(size)
      <3> HIDE DEF fitting, l
      <3> QED
        BY <1>3, <2>1, LeastIs
    <2>3. l \in Capacities /\ l \in Nat /\ l # 0 /\ l >= size
      BY <1>0, <2>2, Zenon
    <2> HIDE DEF l
    <2>0. l >= l
      BY <2>3
    <2>4. l \in fitting(l) /\ fitting(l) \subseteq Nat /\ \A c \in fitting(l) : c \in Nat /\ c >= l
      BY <1>0, <2>0, <2>3, Zenon
    <2>5. ListFor(l) = Min(fitting(l))
      BY <1>1, <2>4
    <2>6. ListFor(l) \in fitting(l) /\ ListFor(l) <= l
      <3> HIDE DEF fitting
      <3> QED
        BY <2>4, <2>5, LeastIs
    <2>7. ListFor(l) = l
      BY <2>3, <2>4, <2>6
    <2> QED
      BY <2>3, <2>7 DEF l
  <1> QED
    BY <1>2, <1>3

\* A capacity is that of its own free list.
LEMMA ListForItself ==
    ASSUME Induction, NEW c \in Capacities
    PROVE  ListFor(c) = c
  <1> DEFINE fitting == {d \in Capacities : d >= c}
  <1>1. Capacities \subseteq Nat
    BY SendAssumption
  <1>0. c \in Nat /\ c >= c
    BY <1>1
  <1>2. fitting \subseteq Nat /\ c \in fitting /\ \A d \in fitting : d >= c
    BY <1>0, <1>1, Zenon
  <1>3. ListFor(c) = Min(fitting)
    BY <1>2 DEF ListFor
  <1> HIDE DEF fitting
  <1>4. Min(fitting) \in fitting /\ Min(fitting) <= c
    BY <1>2, LeastIs, Zenon
  <1>5. Min(fitting) \in Nat /\ Min(fitting) >= c
    BY <1>2, <1>4, Zenon
  <1> QED
    BY <1>0, <1>3, <1>4, <1>5

\* What is loose is a buffer.
LEMMA LooseBuffers ==
    ASSUME NEW s, StoreOK(s)
    PROVE  Loose(s) \subseteq Buffers
  BY DEF Loose, FreeOf, Unallocated, StoreOK, Stores, Records, Range

\* The free buffers, by their places.
LEMMA FreeIs ==
    ASSUME NEW s
    PROVE  \A x : x \in FreeOf(s) <=> \E c \in Capacities : \E i \in DOMAIN s.free[c] : x = s.free[c][i]
  BY DEF FreeOf, Range

\* A storage is made of its free lists and its buffers.
LEMMA StoreType ==
    ASSUME NEW f \in [Capacities -> Seq(Buffers)], NEW g \in [Buffers -> Records]
    PROVE  [free |-> f, buffer |-> g] \in Stores
  BY DEF Stores

\* A field of a buffer is set.
LEMMA FieldsSet ==
    ASSUME NEW r \in Records, NEW v
    PROVE  /\ [r EXCEPT !.limit = v] = [capacity |-> r.capacity, limit |-> v, content |-> r.content]
           /\ [r EXCEPT !.content = v] = [capacity |-> r.capacity, limit |-> r.limit, content |-> v]
  BY DEF Records

\* getBuffer gives out a loose buffer of the size, and touches no other.
LEMMA AfterGetKeeps ==
    ASSUME Induction, NEW s, StoreOK(s), NEW size \in Nat, Available(s, size),
           NEW b, b = GetBuffer(s, size), NEW t, t = AfterGet(s, size)
    PROVE  /\ StoreOK(t)
           /\ b \in Buffers /\ b \in Loose(s) /\ Loose(t) = Loose(s) \ {b}
           /\ t.buffer[b].limit = size
           /\ \A x \in Buffers \ {b} : t.buffer[x] = s.buffer[x]
  <1> DEFINE l == ListFor(size)
  <1>1. l \in Nat /\ l # 0 /\ l >= size /\ ListFor(l) = l
    BY ListForFits
  <1> HIDE DEF l
  <1>2. /\ s = [free |-> s.free, buffer |-> s.buffer]
        /\ s.free \in [Capacities -> Seq(Buffers)]
        /\ s.buffer \in [Buffers -> Records]
    BY DEF StoreOK, Stores
  <1>3. CASE Recyclable(s, size)
    <2> DEFINE f == s.free[l]
    <2>1. l \in Capacities /\ f \in Seq(Buffers) /\ f # <<>> /\ b = Head(f)
      BY <1>2, <1>3 DEF Recyclable, GetBuffer, l
    <2> HIDE DEF f
    <2>2. 1 \in DOMAIN f /\ b = f[1] /\ b \in Buffers
      BY <2>1
    <2>3. s.buffer[b].capacity = l
      BY <2>1, <2>2 DEF StoreOK, f
    <2> DEFINE v == IF size # s.buffer[b].limit THEN Junk ELSE s.buffer[b].content
    <2>4. /\ t.free = [s.free EXCEPT ![l] = Tail(f)]
          /\ t.buffer = [s.buffer EXCEPT ![b] = [capacity |-> l, limit |-> size, content |-> v]]
          /\ t = [free |-> t.free, buffer |-> t.buffer]
      <3>1. AfterGet(s, size) = [s EXCEPT !.free[l] = Tail(@), !.buffer[b].limit = size, !.buffer[b].content = v]
        <4>1. s.buffer[b].capacity >= size
          BY <1>1, <2>3
        <4> QED
          BY <1>3, <4>1, Zenon DEF AfterGet, l
      <3> DEFINE F == [s.free EXCEPT ![l] = Tail(@)]
                 B == [[s.buffer EXCEPT ![b].limit = size] EXCEPT ![b].content = v]
      <3>2. t = [free |-> F, buffer |-> B]
        BY <1>2, <3>1, ZenonT(30)
      <3>3. F = [s.free EXCEPT ![l] = Tail(f)]
        BY DEF f
      <3>4. B = [s.buffer EXCEPT ![b] = [capacity |-> l, limit |-> size, content |-> v]]
        <4> HIDE DEF v
        <4> DEFINE r == s.buffer[b]
                   k == [capacity |-> l, limit |-> size, content |-> r.content]
                   C == [s.buffer EXCEPT ![b] = k]
        <4>1. r \in Records /\ r.capacity = l
          BY <1>2, <2>2, <2>3 DEF Records
        <4>2. [r EXCEPT !.limit = size] = k
          <5> HIDE DEF r
          <5> QED
            BY <4>1, FieldsSet, Zenon
        <4>3. [s.buffer EXCEPT ![b].limit = size] = C
          BY <4>2
        <4>4. [k EXCEPT !.content = v] = [capacity |-> l, limit |-> size, content |-> v]
          OBVIOUS
        <4>5. C[b] = k
          BY <1>2, <2>2
        <4>6. [C EXCEPT ![b].content = v] = [C EXCEPT ![b] = [k EXCEPT !.content = v]]
          <5> HIDE DEF k, C
          <5> QED
            BY <4>5
        <4> QED
          BY <1>2, <2>2, <4>3, <4>4, <4>6
      <3> HIDE DEF F, B
      <3> QED
        BY <3>2, <3>3, <3>4
    <2>5. v \in Contents
      BY <1>2, <2>2 DEF Contents, Records
    <2> HIDE DEF v
    <2> DEFINE g == Tail(f)
    <2>6. /\ g \in Seq(Buffers) /\ DOMAIN g = 1 .. Len(f) - 1 /\ DOMAIN f = 1 .. Len(f) /\ Len(f) \in Nat
          /\ \A i \in DOMAIN g : i + 1 \in DOMAIN f /\ g[i] = f[i + 1] /\ i + 1 # 1
          /\ \A i \in DOMAIN f : i # 1 => i - 1 \in DOMAIN g /\ g[i - 1] = f[i]
      <3>1. g \in Seq(Buffers) /\ Len(g) = Len(f) - 1 /\ Len(f) \in Nat /\ DOMAIN f = 1 .. Len(f)
            /\ DOMAIN g = 1 .. Len(f) - 1
        BY <2>1
      <3>2. \A i \in 1 .. Len(f) - 1 : g[i] = f[i + 1]
        BY <2>1
      <3> HIDE DEF g
      <3> QED
        BY <3>1, <3>2
    <2> HIDE DEF g
    <2>7. /\ t \in Stores
          /\ \A c \in Capacities : t.free[c] = IF c = l THEN g ELSE s.free[c]
          /\ \A x \in Buffers : x # b => t.buffer[x] = s.buffer[x]
          /\ t.buffer[b] = [capacity |-> l, limit |-> size, content |-> v]
      <3>1. t.free \in [Capacities -> Seq(Buffers)]
        BY <1>2, <2>1, <2>4, <2>6 DEF g
      <3>2. t.buffer \in [Buffers -> Records]
        <4>1. [capacity |-> l, limit |-> size, content |-> v] \in Records
          BY <1>1, <2>5 DEF Records
        <4> QED
          BY <1>2, <2>2, <2>4, <4>1
      <3>3. t \in Stores
        BY <2>4, <3>1, <3>2, Zenon DEF Stores
      <3> QED
        BY <1>2, <2>1, <2>2, <2>4, <3>3 DEF g
    <2>8. /\ t.buffer[b].limit = size /\ t.buffer[b].capacity = l
          /\ \A x \in Buffers : t.buffer[x].capacity = s.buffer[x].capacity
      BY <2>3, <2>7
    <2>9. \A c \in Capacities : \A i \in DOMAIN t.free[c] :
             \E j \in DOMAIN s.free[c] : /\ t.free[c][i] = s.free[c][j] /\ (c = l => j = i + 1)
                                         /\ (c # l => j = i)
      BY <2>6, <2>7, Zenon DEF f
    <2>10. Unallocated(t) = Unallocated(s) /\ b \notin Unallocated(s)
      BY <1>1, <2>3, <2>8 DEF Unallocated
    <2>11. StoreOK(t)
      <3>1. ASSUME NEW c \in Capacities, NEW d \in Capacities, NEW i \in DOMAIN t.free[c],
                   NEW j \in DOMAIN t.free[d], t.free[c][i] = t.free[d][j]
            PROVE  <<c, i>> = <<d, j>>
        <4>1. PICK i1 \in DOMAIN s.free[c] : /\ t.free[c][i] = s.free[c][i1] /\ (c = l => i1 = i + 1)
                                             /\ (c # l => i1 = i)
          BY <2>9
        <4>2. PICK j1 \in DOMAIN s.free[d] : /\ t.free[d][j] = s.free[d][j1] /\ (d = l => j1 = j + 1)
                                             /\ (d # l => j1 = j)
          BY <2>9
        <4>3. <<c, i1>> = <<d, j1>>
          <5>1. s.free[c][i1] = s.free[d][j1]
            BY <3>1, <4>1, <4>2, Zenon
          <5> QED
            BY <5>1 DEF StoreOK
        <4>4. i \in Nat /\ j \in Nat
          <5>1. t.free[c] \in Seq(Buffers) /\ t.free[d] \in Seq(Buffers)
            BY <2>7, Zenon DEF Stores
          <5> HIDE DEF g
          <5> QED
            BY <5>1
        <4> QED
          BY <4>1, <4>2, <4>3, <4>4
      <3>2. \A c \in Capacities : \A i \in DOMAIN t.free[c] : t.buffer[t.free[c][i]].capacity = c
        <4>1. \A c \in Capacities : \A j \in DOMAIN s.free[c] :
                 s.free[c][j] \in Buffers /\ s.buffer[s.free[c][j]].capacity = c
          BY <1>2 DEF StoreOK
        <4> QED
          BY <2>8, <2>9, <4>1
      <3>3. \A x \in Buffers : t.buffer[x].capacity # 0 => ListFor(t.buffer[x].capacity) = t.buffer[x].capacity
        BY <2>8 DEF StoreOK
      <3> QED
        BY <2>7, <3>1, <3>2, <3>3, Zenon DEF StoreOK
    <2>12. FreeOf(t) = FreeOf(s) \ {b} /\ b \in FreeOf(s)
      <3>1. b \in FreeOf(s)
        BY <2>1, <2>2, FreeIs DEF f
      <3>2. ASSUME NEW x \in FreeOf(t)
            PROVE  x \in FreeOf(s) /\ x # b
        <4>1. PICK c \in Capacities : \E i \in DOMAIN t.free[c] : x = t.free[c][i]
          BY <3>2, FreeIs
        <4>2. PICK i \in DOMAIN t.free[c] : x = t.free[c][i]
          BY <4>1
        <4>3. PICK j \in DOMAIN s.free[c] : x = s.free[c][j] /\ (c = l => j = i + 1)
          BY <2>9, <4>2
        <4>4. c = l => j # 1
          BY <2>6, <2>7, <4>3, Zenon
        <4>5. x # b
          BY <2>1, <2>2, <4>3, <4>4 DEF StoreOK, f
        <4> QED
          BY <4>3, <4>5, FreeIs
      <3>3. ASSUME NEW x \in FreeOf(s), x # b
            PROVE  x \in FreeOf(t)
        <4>1. PICK c \in Capacities : \E i \in DOMAIN s.free[c] : x = s.free[c][i]
          BY <3>3, FreeIs
        <4>2. PICK i \in DOMAIN s.free[c] : x = s.free[c][i]
          BY <4>1
        <4>3. \E j \in DOMAIN t.free[c] : x = t.free[c][j]
          <5>1. CASE c = l
            <6>1. i \in DOMAIN f /\ i # 1
              BY <2>2, <3>3, <4>2, <5>1 DEF f
            <6>2. i - 1 \in DOMAIN g /\ g[i - 1] = x /\ t.free[c] = g
              BY <2>6, <2>7, <4>2, <5>1, <6>1, Zenon DEF f
            <6> QED
              BY <6>2
          <5>2. CASE c # l
            BY <2>7, <4>2, <5>2
          <5> QED
            BY <5>1, <5>2
        <4> QED
          BY <4>3, FreeIs
      <3> QED
        BY <3>1, <3>2, <3>3
    <2> QED
      BY <2>2, <2>7, <2>8, <2>10, <2>11, <2>12 DEF Loose
  <1>4. CASE ~Recyclable(s, size)
    <2>1. b \in Unallocated(s)
      <3>1. Unallocated(s) # {} /\ Unallocated(s) \subseteq Nat /\ b = Min(Unallocated(s))
        BY <1>4, SendAssumption DEF Available, GetBuffer, Unallocated, Buffers
      <3> QED
        BY <3>1, LeastIs
    <2>2. b \in Buffers /\ s.buffer[b].capacity = 0
      BY <2>1 DEF Unallocated
    <2> DEFINE r == [capacity |-> l, limit |-> size, content |-> Junk]
    <2>3. r \in Records
      BY <1>1 DEF Records, Contents
    <2>4. t = [s EXCEPT !.buffer[b] = r]
      BY <1>4 DEF AfterGet, NewBuffer, l
    <2>5. r.capacity = l /\ r.limit = size
      OBVIOUS
    <2> HIDE DEF r
    <2>6. /\ t \in Stores /\ t.free = s.free
          /\ \A x \in Buffers : x # b => t.buffer[x] = s.buffer[x]
          /\ t.buffer[b] = r
      BY <1>2, <2>2, <2>3, <2>4 DEF Stores
    <2>7. \A c \in Capacities : \A i \in DOMAIN s.free[c] : s.free[c][i] \in Buffers /\ s.free[c][i] # b
      <3>1. \A c \in Capacities : c # 0
        BY SendAssumption, Zenon
      <3>2. \A c \in Capacities : \A i \in DOMAIN s.free[c] :
               s.free[c][i] \in Buffers /\ s.buffer[s.free[c][i]].capacity = c
        BY <1>2 DEF StoreOK
      <3> QED
        BY <2>2, <3>1, <3>2
    <2>8. StoreOK(t)
      <3>1. \A c \in Capacities : \A i \in DOMAIN t.free[c] : t.buffer[t.free[c][i]].capacity = c
        BY <2>6, <2>7 DEF StoreOK
      <3>2. \A x \in Buffers : t.buffer[x].capacity # 0 => ListFor(t.buffer[x].capacity) = t.buffer[x].capacity
        BY <1>1, <2>5, <2>6 DEF StoreOK
      <3> QED
        BY <2>6, <3>1, <3>2 DEF StoreOK
    <2>9. Unallocated(t) = Unallocated(s) \ {b}
      BY <1>1, <2>2, <2>5, <2>6 DEF Unallocated
    <2>10. FreeOf(t) = FreeOf(s)
      BY <2>6 DEF FreeOf
    <2>11. b \notin FreeOf(s)
      BY <2>7, FreeIs
    <2> QED
      BY <2>1, <2>2, <2>5, <2>6, <2>8, <2>9, <2>10, <2>11 DEF Loose
  <1> QED
    BY <1>3, <1>4

\* Storage s with content v in buffer b.
Filled(s, b, v) == [s EXCEPT !.buffer[b].content = v]

\* Writing into a buffer moves none.
LEMMA ContentKeeps ==
    ASSUME NEW s, StoreOK(s), NEW b \in Buffers, NEW v \in Contents,
           NEW t, t = Filled(s, b, v)
    PROVE  /\ StoreOK(t) /\ Loose(t) = Loose(s)
           /\ t.buffer[b].limit = s.buffer[b].limit /\ t.buffer[b].content = v
           /\ \A x \in Buffers \ {b} : t.buffer[x] = s.buffer[x]
  <1>1. /\ s = [free |-> s.free, buffer |-> s.buffer]
        /\ s.free \in [Capacities -> Seq(Buffers)]
        /\ s.buffer \in [Buffers -> Records]
    BY DEF StoreOK, Stores
  <1> DEFINE r == [capacity |-> s.buffer[b].capacity, limit |-> s.buffer[b].limit, content |-> v]
  <1>2. /\ r \in Records /\ r.capacity = s.buffer[b].capacity /\ r.limit = s.buffer[b].limit
        /\ r.content = v
    BY <1>1 DEF Records
  <1>3. [s.buffer[b] EXCEPT !.content = v] = r
    BY <1>1, FieldsSet, Zenon
  <1>4. [s.buffer EXCEPT ![b].content = v] = [s.buffer EXCEPT ![b] = r]
    <2> HIDE DEF r
    <2> QED
      BY <1>3
  <1> HIDE DEF r
  <1>5. t = [free |-> s.free, buffer |-> [s.buffer EXCEPT ![b] = r]]
    BY <1>1, <1>4, Zenon DEF Filled
  <1>6. /\ t \in Stores /\ t.free = s.free
        /\ \A x \in Buffers : x # b => t.buffer[x] = s.buffer[x]
        /\ t.buffer[b] = r
    <2> DEFINE B == [s.buffer EXCEPT ![b] = r]
    <2>1. /\ B \in [Buffers -> Records] /\ B[b] = r
          /\ \A x \in Buffers : x # b => B[x] = s.buffer[x]
      BY <1>1, <1>2
    <2>2. t = [free |-> s.free, buffer |-> B]
      BY <1>5
    <2> HIDE DEF B
    <2>3. t.free = s.free /\ t.buffer = B
      BY <2>2
    <2>4. t \in Stores
      <3>1. [free |-> s.free, buffer |-> B] \in Stores
        BY <1>1, <2>1, StoreType, Zenon
      <3> QED
        BY <2>2, <3>1, Zenon
    <2> QED
      BY <2>1, <2>3, <2>4
  <1>7. \A x \in Buffers : t.buffer[x].capacity = s.buffer[x].capacity
    BY <1>2, <1>6, Zenon
  <1>8. StoreOK(t)
    <2>1. \A c \in Capacities : \A i \in DOMAIN t.free[c] : t.buffer[t.free[c][i]].capacity = c
      <3>1. \A c \in Capacities : \A i \in DOMAIN s.free[c] :
               s.free[c][i] \in Buffers /\ s.buffer[s.free[c][i]].capacity = c
        BY <1>1 DEF StoreOK
      <3> QED
        BY <1>6, <1>7, <3>1
    <2> QED
      BY <1>6, <1>7, <2>1 DEF StoreOK
  <1>9. Loose(t) = Loose(s)
    BY <1>6, <1>7 DEF Loose, FreeOf, Unallocated
  <1> QED
    BY <1>2, <1>6, <1>8, <1>9, Zenon

\* reuseFreeBuffer makes the buffer loose, and touches no other.
LEMMA ReuseKeeps ==
    ASSUME NEW s, StoreOK(s), NEW b \in Buffers, b \notin Loose(s),
           NEW t, t = Reuse(s, b)
    PROVE  /\ StoreOK(t) /\ Loose(t) = Loose(s) \cup {b}
           /\ \A x \in Buffers \ {b} : t.buffer[x] = s.buffer[x]
  <1>1. /\ s = [free |-> s.free, buffer |-> s.buffer]
        /\ s.free \in [Capacities -> Seq(Buffers)]
        /\ s.buffer \in [Buffers -> Records]
    BY DEF StoreOK, Stores
  <1> DEFINE k == s.buffer[b].capacity
  <1>2. k \in Nat /\ k # 0 /\ FreeInto(k) = k
    BY <1>1 DEF Loose, Unallocated, StoreOK, Records, FreeInto
  <1>3. \A c \in Capacities : \A i \in DOMAIN s.free[c] :
           s.free[c][i] \in Buffers /\ s.free[c][i] # b /\ s.buffer[s.free[c][i]].capacity = c
    BY <1>1, FreeIs DEF StoreOK, Loose
  <1>4. CASE k \in Capacities /\ Len(s.free[k]) < MaxPool[k]
    <2> DEFINE f == s.free[k]
               g == Append(f, b)
    <2>1. f \in Seq(Buffers)
      BY <1>1, <1>4
    <2>2. t = [free |-> [s.free EXCEPT ![k] = g], buffer |-> s.buffer]
      BY <1>1, <1>2, <1>4, Zenon DEF Reuse
    <2> HIDE DEF f
    <2>3. /\ g \in Seq(Buffers) /\ DOMAIN f = 1 .. Len(f) /\ DOMAIN g = 1 .. Len(f) + 1 /\ Len(f) \in Nat
          /\ \A i \in 1 .. Len(f) : g[i] = f[i]
          /\ g[Len(f) + 1] = b
      BY <2>1
    <2> HIDE DEF g
    <2>4. /\ t \in Stores /\ t.buffer = s.buffer
          /\ \A c \in Capacities : t.free[c] = IF c = k THEN g ELSE s.free[c]
      BY <1>1, <1>4, <2>2, <2>3 DEF Stores
    <2> HIDE DEF k
    <2>5. \A c \in Capacities : \A i \in DOMAIN t.free[c] :
             \/ i \in DOMAIN s.free[c] /\ t.free[c][i] = s.free[c][i]
             \/ c = k /\ i = Len(f) + 1 /\ t.free[c][i] = b
      BY <2>3, <2>4, SMTT(30) DEF f
    <2>6. StoreOK(t)
      <3>1. ASSUME NEW c \in Capacities, NEW d \in Capacities, NEW i \in DOMAIN t.free[c],
                   NEW j \in DOMAIN t.free[d], t.free[c][i] = t.free[d][j]
            PROVE  <<c, i>> = <<d, j>>
        <4>1. CASE i \in DOMAIN s.free[c] /\ t.free[c][i] = s.free[c][i]
                   /\ j \in DOMAIN s.free[d] /\ t.free[d][j] = s.free[d][j]
          <5>1. s.free[c][i] = s.free[d][j]
            BY <3>1, <4>1, Zenon
          <5> QED
            BY <4>1, <5>1 DEF StoreOK
        <4>2. CASE t.free[c][i] = b \/ t.free[d][j] = b
          BY <1>3, <2>5, <3>1, <4>2
        <4> QED
          BY <2>5, <4>1, <4>2, Zenon
      <3>2. \A c \in Capacities : \A i \in DOMAIN t.free[c] : t.buffer[t.free[c][i]].capacity = c
        BY <1>3, <2>4, <2>5 DEF k
      <3> QED
        BY <2>4, <3>1, <3>2 DEF StoreOK
    <2>7. FreeOf(t) = FreeOf(s) \cup {b}
      <3>1. ASSUME NEW x \in FreeOf(t)
            PROVE  x \in FreeOf(s) \cup {b}
        <4>1. PICK c \in Capacities : \E i \in DOMAIN t.free[c] : x = t.free[c][i]
          BY <3>1, FreeIs
        <4>2. x = b \/ \E i \in DOMAIN s.free[c] : x = s.free[c][i]
          BY <2>5, <4>1
        <4> QED
          BY <4>2, FreeIs
      <3>2. ASSUME NEW x \in FreeOf(s)
            PROVE  x \in FreeOf(t)
        <4>1. PICK c \in Capacities : \E i \in DOMAIN s.free[c] : x = s.free[c][i]
          BY <3>2, FreeIs
        <4>2. \E i \in DOMAIN t.free[c] : x = t.free[c][i]
          <5>1. PICK i \in DOMAIN s.free[c] : x = s.free[c][i]
            BY <4>1
          <5>2. CASE c = k
            <6>1. i \in DOMAIN f /\ x = f[i] /\ t.free[c] = g
              BY <2>4, <5>1, <5>2 DEF f
            <6>2. i \in DOMAIN g /\ x = g[i]
              BY <2>3, <6>1
            <6> QED
              BY <6>1, <6>2
          <5>3. CASE c # k
            BY <2>4, <5>1, <5>3, Zenon
          <5> QED
            BY <5>2, <5>3
        <4> QED
          BY <4>2, FreeIs
      <3>3. b \in FreeOf(t)
        <4>1. Len(f) + 1 \in DOMAIN t.free[k] /\ b = t.free[k][Len(f) + 1]
          BY <1>4, <2>3, <2>4
        <4> QED
          BY <1>4, <4>1, FreeIs
      <3> QED
        BY <3>1, <3>2, <3>3
    <2> QED
      BY <2>4, <2>6, <2>7 DEF Loose, Unallocated
  <1>5. CASE ~(k \in Capacities /\ Len(s.free[k]) < MaxPool[k])
    <2> DEFINE r == NewBuffer(0)
    <2>1. r \in Records /\ r.capacity = 0
      BY DEF NewBuffer, Records, Contents
    <2>2. t = [s EXCEPT !.buffer[b] = r]
      BY <1>2, <1>5, Zenon DEF Reuse, Deleted
    <2> HIDE DEF r
    <2>3. /\ t \in Stores /\ t.free = s.free
          /\ \A x \in Buffers : x # b => t.buffer[x] = s.buffer[x]
          /\ t.buffer[b] = r
      BY <1>1, <2>1, <2>2, Zenon DEF Stores
    <2>4. StoreOK(t)
      <3>1. \A c \in Capacities : \A i \in DOMAIN t.free[c] : t.buffer[t.free[c][i]].capacity = c
        BY <1>3, <2>3
      <3>2. \A x \in Buffers : t.buffer[x].capacity # 0 => ListFor(t.buffer[x].capacity) = t.buffer[x].capacity
        BY <2>1, <2>3 DEF StoreOK
      <3> QED
        BY <2>3, <3>1, <3>2 DEF StoreOK
    <2>5. FreeOf(t) = FreeOf(s)
      BY <2>3 DEF FreeOf
    <2>6. Unallocated(t) = Unallocated(s) \cup {b}
      BY <2>1, <2>3 DEF Unallocated
    <2> QED
      BY <2>3, <2>4, <2>5, <2>6 DEF Loose
  <1> QED
    BY <1>4, <1>5

\* reuseFreeBuffer, by type.
LEMMA ReuseType ==
    ASSUME NEW s \in Stores, NEW b \in Buffers
    PROVE  Reuse(s, b) \in Stores
  <1> DEFINE c == FreeInto(s.buffer[b].capacity)
             f == [s.free EXCEPT ![c] = Append(@, b)]
  <1>1. /\ s = [free |-> s.free, buffer |-> s.buffer]
        /\ s.free \in [Capacities -> Seq(Buffers)]
        /\ s.buffer \in [Buffers -> Records]
    BY DEF Stores
  <1>2. CASE c \in Capacities /\ Len(s.free[c]) < MaxPool[c]
    <2>1. Reuse(s, b) = [s EXCEPT !.free[c] = Append(@, b)]
      BY <1>2 DEF Reuse
    <2> HIDE DEF c
    <2>2. Reuse(s, b) = [free |-> f, buffer |-> s.buffer]
      BY <1>1, <2>1, Zenon
    <2>3. f \in [Capacities -> Seq(Buffers)]
      BY <1>1, <1>2
    <2> HIDE DEF f
    <2> QED
      BY <1>1, <2>2, <2>3 DEF Stores
  <1>3. CASE ~(c \in Capacities /\ Len(s.free[c]) < MaxPool[c])
    <2> DEFINE r == NewBuffer(0)
    <2>1. r \in Records
      BY Zenon DEF NewBuffer, Records, Contents
    <2>2. Reuse(s, b) = [s EXCEPT !.buffer[b] = r]
      BY <1>3 DEF Reuse, Deleted
    <2> HIDE DEF r
    <2> QED
      BY <1>1, <2>1, <2>2 DEF Stores
  <1> QED
    BY <1>2, <1>3

\* The storage after each of the buffers that come back.
LEMMA GiveBackDef ==
    ASSUME Induction, NEW s \in Stores, NEW bs \in Seq(Buffers)
    PROVE  \E f \in [0 .. Len(bs) -> Stores] :
              /\ f[0] = s /\ \A i \in 1 .. Len(bs) : f[i] = Reuse(f[i - 1], bs[i])
              /\ GiveBack(s, bs) = f[Len(bs)]
  <1> DEFINE n == Len(bs)
             Def(f) == [i \in 0 .. n |-> IF i = 0 THEN s ELSE Reuse(f[i - 1], bs[i])]
             f == CHOOSE g : g = Def(g)
             step == [x \in (1 .. n) \X Stores |-> Reuse(x[2], bs[x[1]])]
  <1>1. n \in Nat /\ \A i \in 1 .. n : bs[i] \in Buffers
    OBVIOUS
  <1>2. GiveBack(s, bs) = f[n]
    BY DEF GiveBack
  <1> HIDE DEF n
  <1>3. step \in [(1 .. n) \X Stores -> Stores]
    <2>1. ASSUME NEW x \in (1 .. n) \X Stores
          PROVE  Reuse(x[2], bs[x[1]]) \in Stores
      BY <1>1, ReuseType
    <2> QED
      BY <2>1
  <1>4. PICK g \in [0 .. n -> Stores] : Recurs(g, n, s, step)
    <2> HIDE DEF step
    <2> QED
      BY <1>1, <1>3, Zenon DEF Induction, HasRecursive
  <1>5. g[0] = s /\ \A i \in 1 .. n : g[i] = step[<<i, g[i - 1]>>]
    BY <1>4, Zenon DEF Recurs
  <1>6. \A i \in 1 .. n : g[i] = Reuse(g[i - 1], bs[i])
    <2> TAKE i \in 1 .. n
    <2>1. i - 1 \in 0 .. n
      BY <1>1
    <2>2. <<i, g[i - 1]>> \in (1 .. n) \X Stores
      BY <1>4, <2>1
    <2> QED
      BY <1>5, <2>2, Zenon
  <1>7. g = Def(g)
    BY <1>1, <1>4, <1>5, <1>6
  <1>8. f = Def(f)
    BY <1>7, Zenon
  <1> HIDE DEF f
  <1>9. DOMAIN f = 0 .. n /\ f[0] = s /\ \A i \in 1 .. n : f[i] = Reuse(f[i - 1], bs[i])
    BY <1>1, <1>8
  <1> DEFINE U == {i \in 0 .. n : f[i] \in Stores}
  <1>10. 0 .. n \subseteq U
    <2>1. 0 \in U
      BY <1>1, <1>9
    <2>2. ASSUME NEW i \in 0 .. n - 1, i \in U
          PROVE  i + 1 \in U
      <3>1. i + 1 \in 1 .. n /\ i + 1 \in 0 .. n /\ i + 1 - 1 = i
        BY <1>1
      <3> QED
        BY <1>1, <1>9, <2>2, <3>1, ReuseType
    <2> HIDE DEF U
    <2> QED
      BY <1>1, <2>1, <2>2, Zenon DEF Induction, Inducts
  <1>11. f \in [0 .. n -> Stores]
    BY <1>8, <1>10
  <1> QED
    BY <1>2, <1>9, <1>11 DEF n

\* Buffers that are given back are loose, and no other is touched.
LEMMA GiveBackKeeps ==
    ASSUME Induction, NEW s, StoreOK(s), NEW bs \in Seq(Buffers),
           \A i, j \in DOMAIN bs : bs[i] = bs[j] => i = j,
           \A i \in DOMAIN bs : bs[i] \notin Loose(s),
           NEW t, t = GiveBack(s, bs)
    PROVE  /\ StoreOK(t) /\ Loose(t) = Loose(s) \cup {bs[i] : i \in DOMAIN bs}
           /\ \A x \in Buffers : (\A i \in DOMAIN bs : bs[i] # x) => t.buffer[x] = s.buffer[x]
  <1> DEFINE n == Len(bs)
             given(i) == {bs[j] : j \in 1 .. i}
  <1>1. n \in Nat /\ DOMAIN bs = 1 .. n /\ \A i \in 1 .. n : bs[i] \in Buffers
    OBVIOUS
  <1>2. PICK f \in [0 .. n -> Stores] :
              /\ f[0] = s /\ \A i \in 1 .. n : f[i] = Reuse(f[i - 1], bs[i])
              /\ t = f[n]
    BY GiveBackDef DEF StoreOK
  <1> HIDE DEF n
  <1> DEFINE U == {i \in 0 .. n :
                      /\ StoreOK(f[i]) /\ Loose(f[i]) = Loose(s) \cup given(i)
                      /\ \A x \in Buffers \ given(i) : f[i].buffer[x] = s.buffer[x]}
  <1>3. 0 \in U
    <2>1. given(0) = {}
      OBVIOUS
    <2> HIDE DEF given
    <2> QED
      BY <1>1, <1>2, <2>1
  <1>4. ASSUME NEW i \in 0 .. n - 1, i \in U
        PROVE  i + 1 \in U
    <2> DEFINE b == bs[i + 1]
    <2>1. i + 1 \in 1 .. n /\ i + 1 \in 0 .. n /\ i + 1 - 1 = i /\ i \in 0 .. n
      BY <1>1
    <2>2. given(i + 1) = given(i) \cup {b}
      <3>1. 1 .. i + 1 = 1 .. i \cup {i + 1}
        OBVIOUS
      <3> QED
        BY <3>1
    <2>3. b \in Buffers /\ b \notin Loose(s) /\ b \notin given(i)
      <3>1. \A j \in 1 .. i : j \in 1 .. n /\ j # i + 1
        BY <1>1
      <3> QED
        BY <1>1, <2>1, <3>1
    <2>4. f[i + 1] = Reuse(f[i], b)
      BY <1>2, <2>1
    <2> HIDE DEF b, given
    <2>5. /\ StoreOK(f[i]) /\ Loose(f[i]) = Loose(s) \cup given(i)
          /\ \A x \in Buffers \ given(i) : f[i].buffer[x] = s.buffer[x]
      BY <1>4, Zenon
    <2>6. /\ StoreOK(f[i + 1]) /\ Loose(f[i + 1]) = Loose(f[i]) \cup {b}
          /\ \A x \in Buffers \ {b} : f[i + 1].buffer[x] = f[i].buffer[x]
      BY <2>3, <2>4, <2>5, ReuseKeeps
    <2> QED
      BY <2>1, <2>2, <2>5, <2>6
  <1>5. n \in U
    <2> HIDE DEF U
    <2>1. 0 .. n \subseteq U
      BY <1>1, <1>3, <1>4 DEF Induction, Inducts
    <2> QED
      BY <1>1, <2>1
  <1> QED
    BY <1>1, <1>2, <1>5, Zenon

\* The same for one buffer.
LEMMA GiveOneBack ==
    ASSUME Induction, NEW s, StoreOK(s), NEW b \in Buffers, b \notin Loose(s),
           NEW t, t = GiveBack(s, <<b>>)
    PROVE  /\ StoreOK(t) /\ Loose(t) = Loose(s) \cup {b}
           /\ \A x \in Buffers \ {b} : t.buffer[x] = s.buffer[x]
  <1> DEFINE bs == <<b>>
  <1>1. bs \in Seq(Buffers) /\ DOMAIN bs = {1} /\ bs[1] = b
    OBVIOUS
  <1>2. t = GiveBack(s, bs)
    OBVIOUS
  <1> HIDE DEF bs
  <1>3. /\ StoreOK(t) /\ Loose(t) = Loose(s) \cup {bs[i] : i \in DOMAIN bs}
        /\ \A x \in Buffers : (\A i \in DOMAIN bs : bs[i] # x) => t.buffer[x] = s.buffer[x]
    BY <1>1, <1>2, GiveBackKeeps
  <1> QED
    BY <1>1, <1>3

\* Nothing is given back.
LEMMA GiveNoneBack ==
    ASSUME Induction, NEW s \in Stores
    PROVE  GiveBack(s, <<>>) = s
  <1> DEFINE bs == <<>>
  <1>1. bs \in Seq(Buffers) /\ Len(bs) = 0
    OBVIOUS
  <1> HIDE DEF bs
  <1>2. \E f \in [0 .. Len(bs) -> Stores] :
            /\ f[0] = s /\ \A i \in 1 .. Len(bs) : f[i] = Reuse(f[i - 1], bs[i])
            /\ GiveBack(s, bs) = f[Len(bs)]
    BY <1>1, GiveBackDef, Zenon
  <1>3. GiveBack(s, bs) = s
    BY <1>1, <1>2, Zenon
  <1> QED
    BY <1>3 DEF bs

-----------------------------------------------------------------------------
(* The owners of the buffers *)

\* Null is no buffer.
LEMMA BuffersNotNull == Null \notin Buffers
  BY DEF Null, Buffers

\* A loose buffer becomes sendBuffer.
LEMMA Take ==
    ASSUME NEW loose, NEW q, NEW h, Owners(loose, q, Null, h), NEW b \in loose
    PROVE  Owners(loose \ {b}, q, b, h)
  BY BuffersNotNull DEF Owners

\* sendBuffer is given back.
LEMMA Drop ==
    ASSUME NEW loose, NEW q, NEW x \in Buffers, NEW h, Owners(loose, q, x, h)
    PROVE  Owners(loose \cup {x}, q, Null, h)
  BY BuffersNotNull DEF Owners

\* A loose buffer goes to a message.
LEMMA Hand ==
    ASSUME NEW loose, NEW q, NEW x, NEW h, Owners(loose, q, x, h),
           NEW m \in Messages, h[m] = Null, NEW b \in loose
    PROVE  Owners(loose \ {b}, q, x, [h EXCEPT ![m] = b])
  <1> DEFINE g == [h EXCEPT ![m] = b]
  <1>1. b \in Buffers /\ b # Null
    BY BuffersNotNull DEF Owners
  <1>2. /\ g \in [Messages -> Buffers \cup {Null}] /\ g[m] = b
        /\ \A n \in Messages : n # m => g[n] = h[n]
    BY <1>1 DEF Owners
  <1> HIDE DEF g
  <1>3. \A n \in Messages : g[n] \notin loose \ {b} /\ (g[n] # Null => g[n] # x)
    BY <1>2, Zenon DEF Owners
  <1>4. \A n \in Messages : \A i \in DOMAIN q : g[n] # q[i]
    <2>1. /\ \A n \in Messages : \A i \in DOMAIN q : h[n] # q[i]
          /\ \A i \in DOMAIN q : q[i] # b
      BY Zenon DEF Owners
    <2> QED
      BY <1>2, <2>1, Zenon
  <1>5. \A n, k \in Messages : g[n] = g[k] /\ g[n] # Null => n = k
    <2>1. /\ \A n \in Messages : h[n] # b
          /\ \A n, k \in Messages : h[n] = h[k] /\ h[n] # Null => n = k
      BY Zenon DEF Owners
    <2> QED
      BY <1>2, <2>1, Zenon
  <1>6. \A c \in Buffers : \/ c \in loose \ {b} \/ c = x \/ \E i \in DOMAIN q : c = q[i]
                          \/ \E n \in Messages : c = g[n]
    <2> TAKE c \in Buffers
    <2>1. CASE c = b
      BY <1>2, <2>1, Zenon
    <2>2. CASE c # b /\ \E n \in Messages : c = h[n]
      <3>1. PICK n \in Messages : c = h[n]
        BY <2>2, Zenon
      <3>2. n # m
        BY <3>1, BuffersNotNull, Zenon
      <3> QED
        BY <1>2, <3>1, <3>2, Zenon
    <2> QED
      BY <2>1, <2>2, Zenon DEF Owners
  <1> QED
    BY <1>2, <1>3, <1>4, <1>5, <1>6, Zenon DEF Owners, g

\* sendBuffer goes to a message.
LEMMA HandOver ==
    ASSUME NEW loose, NEW q, NEW x \in Buffers, NEW h, Owners(loose, q, x, h),
           NEW m \in Messages, h[m] = Null
    PROVE  Owners(loose, q, Null, [h EXCEPT ![m] = x])
  BY BuffersNotNull DEF Owners

\* A message gives its buffer back.
LEMMA Give ==
    ASSUME NEW loose, NEW q, NEW x, NEW h, Owners(loose, q, x, h),
           NEW m \in Messages, h[m] # Null
    PROVE  Owners(loose \cup {h[m]}, q, x, [h EXCEPT ![m] = Null])
  BY BuffersNotNull DEF Owners

\* sendBuffer goes into the stream.
LEMMA Enqueue ==
    ASSUME NEW loose, NEW q, NEW x \in Buffers, NEW h, Owners(loose, q, x, h)
    PROVE  Owners(loose, Append(q, x), Null, h)
  <1> DEFINE n == Len(q)
             p == Append(q, x)
  <1>1. q \in Seq(Buffers) /\ n \in Nat /\ DOMAIN q = 1 .. n
    BY DEF Owners
  <1>2. /\ p \in Seq(Buffers) /\ DOMAIN p = 1 .. n + 1 /\ p[n + 1] = x
        /\ \A i \in 1 .. n : p[i] = q[i]
    BY <1>1
  <1>3. \A i \in 1 .. n + 1 : i \in 1 .. n \/ i = n + 1
    BY <1>1
  <1>4. n + 1 \in 1 .. n + 1 /\ \A i \in 1 .. n : i \in 1 .. n + 1
    BY <1>1
  <1> HIDE DEF n, p
  <1>5. \A i, j \in DOMAIN p : p[i] = p[j] => i = j
    BY <1>1, <1>2, <1>3, Zenon DEF Owners
  <1>6. \A i \in DOMAIN p : p[i] \notin loose /\ p[i] # Null
    BY <1>1, <1>2, <1>3, BuffersNotNull DEF Owners
  <1>7. \A m \in Messages : \A i \in DOMAIN p : h[m] # p[i]
    BY <1>1, <1>2, <1>3, BuffersNotNull DEF Owners
  <1>8. ASSUME NEW b \in Buffers
        PROVE  b \in loose \/ b = Null \/ (\E i \in DOMAIN p : b = p[i]) \/ \E m \in Messages : b = h[m]
    <2>1. b \in loose \/ b = x \/ (\E i \in 1 .. n : b = q[i]) \/ \E m \in Messages : b = h[m]
      BY <1>1, Zenon DEF Owners
    <2> QED
      BY <1>2, <1>4, <2>1
  <1>9. Owners(loose, p, Null, h)
    BY <1>2, <1>5, <1>6, <1>7, <1>8, BuffersNotNull, Zenon DEF Owners
  <1> QED
    BY <1>9 DEF p

\* The first buffers of the stream are given back.
LEMMA Dequeue ==
    ASSUME NEW loose, NEW q, NEW x, NEW h, Owners(loose, q, x, h), NEW d \in 0 .. Len(q)
    PROVE  Owners(loose \cup {q[i] : i \in 1 .. d}, SubSeq(q, d + 1, Len(q)), x, h)
  <1> DEFINE n == Len(q)
             p == SubSeq(q, d + 1, n)
             back == {q[i] : i \in 1 .. d}
  <1>1. q \in Seq(Buffers) /\ n \in Nat /\ DOMAIN q = 1 .. n /\ d \in Nat /\ d <= n
    BY DEF Owners
  <1>2. /\ p \in Seq(Buffers) /\ Len(p) = n - d
        /\ \A i \in 1 .. n - d : p[i] = q[d + 1 + i - 1]
    BY <1>1, Tails, Zenon
  <1>3. DOMAIN p = 1 .. n - d
    BY <1>2
  <1>4. \A i \in 1 .. n - d : p[i] = q[d + 1 + i - 1]
    BY <1>2
  <1>5. \A i \in 1 .. n - d : d + 1 + i - 1 = d + i /\ d + i \in 1 .. n /\ d + i \notin 1 .. d
    BY <1>1
  <1> HIDE DEF n, p
  <1>6. \A i \in 1 .. n - d : p[i] = q[d + i]
    BY <1>4, <1>5, Zenon
  <1>7. \A i \in 1 .. d : i \in 1 .. n
    BY <1>1
  <1>8. \A i \in 1 .. n : i \in 1 .. d \/ (i - d \in 1 .. n - d /\ d + (i - d) = i)
    BY <1>1
  <1>9. \A b : b \in back <=> \E i \in 1 .. d : b = q[i]
    OBVIOUS
  <1> HIDE DEF back
  <1>10. back \subseteq Buffers
    BY <1>1, <1>7, <1>9
  <1>11. \A i, j \in DOMAIN p : p[i] = p[j] => i = j
    <2> SUFFICES ASSUME NEW i \in 1 .. n - d, NEW j \in 1 .. n - d, p[i] = p[j]
                 PROVE  i = j
      BY <1>3
    <2>1. q[d + i] = q[d + j] /\ d + i \in DOMAIN q /\ d + j \in DOMAIN q
      BY <1>1, <1>5, <1>6
    <2>2. d + i = d + j
      BY <2>1, Zenon DEF Owners
    <2> QED
      BY <1>1, <2>2
  <1>12. \A i \in DOMAIN p : p[i] \notin loose \cup back /\ p[i] # x
    <2> SUFFICES ASSUME NEW i \in 1 .. n - d
                 PROVE  p[i] \notin loose \cup back /\ p[i] # x
      BY <1>3
    <2>1. p[i] = q[d + i] /\ d + i \in DOMAIN q /\ d + i \notin 1 .. d
      BY <1>1, <1>5, <1>6
    <2>2. ASSUME NEW j \in 1 .. d, p[i] = q[j]
          PROVE  FALSE
      <3>1. j \in DOMAIN q /\ d + i = j
        BY <1>1, <1>7, <2>1, <2>2, Zenon DEF Owners
      <3> QED
        BY <2>1, <3>1
    <2> QED
      BY <1>9, <2>1, <2>2 DEF Owners
  <1>13. x \notin back /\ \A m \in Messages : h[m] \notin back
    BY <1>1, <1>7, <1>9 DEF Owners
  <1>14. \A m \in Messages : \A i \in DOMAIN p : h[m] # p[i]
    <2>1. \A m \in Messages : \A i \in 1 .. n : h[m] # q[i]
      BY <1>1, Zenon DEF Owners
    <2> QED
      BY <1>3, <1>5, <1>6, <2>1
  <1>15. ASSUME NEW b \in Buffers
         PROVE  b \in loose \cup back \/ b = x \/ (\E i \in DOMAIN p : b = p[i])
                \/ \E m \in Messages : b = h[m]
    <2>1. ASSUME NEW i \in 1 .. n, b = q[i]
          PROVE  b \in back \/ \E j \in DOMAIN p : b = p[j]
      <3>1. CASE i \in 1 .. d
        BY <1>9, <2>1, <3>1
      <3>2. CASE i - d \in 1 .. n - d /\ d + (i - d) = i
        BY <1>3, <1>6, <2>1, <3>2, Zenon
      <3> QED
        BY <1>8, <3>1, <3>2
    <2> QED
      BY <1>1, <2>1 DEF Owners
  <1>16. Owners(loose \cup back, p, x, h)
    BY <1>2, <1>10, <1>11, <1>12, <1>13, <1>14, <1>15, Zenon DEF Owners
  <1> QED
    BY <1>16 DEF back, p, n

-----------------------------------------------------------------------------
(* The stream of bytes *)

Entries == [buffer : Buffers, sent : Nat]

Bytes == Contents \X Nat

\* What appended says of a buffer: its message, its content and its length.
Appends == Messages \X Contents \X Nat

\* The bytes that are left of entry e of the stream.
Piece(s, e) ==
    [k \in 1 .. s.buffer[e.buffer].limit - e.sent |-> <<s.buffer[e.buffer].content, e.sent + k>>]

Pieces(s, q) == [i \in DOMAIN q |-> Piece(s, q[i])]

\* The bytes of what was queued.
Chunk(a) == [k \in 1 .. a[3] |-> <<a[2], k>>]

Chunks(added) == [i \in DOMAIN added |-> Chunk(added[i])]

\* No more of a buffer has been sent than there is, and all that is missing is on the
\* wire.
Inside(s, q) == \A i \in DOMAIN q : q[i].sent <= s.buffer[q[i].buffer].limit

Stream(s, q, w, added) ==
    Inside(s, q) /\ w \o Joined(Pieces(s, q)) = Joined(Chunks(added))

\* The bytes left of an entry.
LEMMA PieceIs ==
    ASSUME NEW s \in Stores, NEW e \in Entries, e.sent <= s.buffer[e.buffer].limit
    PROVE  Piece(s, e) \in Seq(Bytes) /\ Len(Piece(s, e)) = s.buffer[e.buffer].limit - e.sent
  <1> DEFINE l == s.buffer[e.buffer].limit
             c == s.buffer[e.buffer].content
             a == e.sent
             f == [k \in 1 .. l - a |-> <<c, a + k>>]
  <1>1. l \in Nat /\ c \in Contents /\ a \in Nat /\ a <= l
    BY DEF Stores, Records, Entries
  <1>2. Piece(s, e) = f
    BY DEF Piece
  <1> HIDE DEF l, c, a
  <1>3. l - a \in Nat /\ \A k \in 1 .. l - a : a + k \in Nat
    BY <1>1
  <1>4. f \in [1 .. l - a -> Bytes]
    BY <1>1, <1>3 DEF Bytes
  <1> HIDE DEF f
  <1>5. f \in Seq(Bytes) /\ Len(f) = l - a
    BY <1>3, <1>4, FunctionIsSeq
  <1> QED
    BY <1>2, <1>5 DEF l, a

\* Those of all entries.
LEMMA PiecesAre ==
    ASSUME NEW s \in Stores, NEW q \in Seq(Entries), Inside(s, q)
    PROVE  /\ Pieces(s, q) \in Seq(Seq(Bytes)) /\ Len(Pieces(s, q)) = Len(q)
           /\ \A i \in 1 .. Len(q) : Pieces(s, q)[i] = Piece(s, q[i])
  <1> DEFINE n == Len(q)
             f == [i \in 1 .. n |-> Piece(s, q[i])]
  <1>1. n \in Nat /\ DOMAIN q = 1 .. n /\ \A i \in 1 .. n : q[i] \in Entries
    OBVIOUS
  <1>2. Pieces(s, q) = f
    BY <1>1 DEF Pieces
  <1> HIDE DEF n
  <1>3. \A i \in 1 .. n : Piece(s, q[i]) \in Seq(Bytes)
    BY <1>1, PieceIs DEF Inside
  <1>4. f \in [1 .. n -> Seq(Bytes)] /\ \A i \in 1 .. n : f[i] = Piece(s, q[i])
    BY <1>3
  <1> HIDE DEF f
  <1>5. f \in Seq(Seq(Bytes)) /\ Len(f) = n
    BY <1>1, <1>4, FunctionIsSeq
  <1> QED
    BY <1>2, <1>4, <1>5 DEF n

\* Other buffers do not matter.
LEMMA StreamFrame ==
    ASSUME NEW s, NEW t, NEW q, NEW w, NEW added, Stream(s, q, w, added),
           \A i \in DOMAIN q : t.buffer[q[i].buffer] = s.buffer[q[i].buffer]
    PROVE  Stream(t, q, w, added)
  <1>1. \A i \in DOMAIN q : Piece(t, q[i]) = Piece(s, q[i])
    BY DEF Piece
  <1>2. Pieces(t, q) = Pieces(s, q)
    BY <1>1 DEF Pieces
  <1>3. Inside(t, q)
    BY DEF Stream, Inside
  <1> QED
    BY <1>2, <1>3, Zenon DEF Stream

\* The stream of a new connection.
LEMMA StreamEmpty ==
    ASSUME Induction, NEW s
    PROVE  Stream(s, <<>>, <<>>, <<>>)
  <1>1. Pieces(s, <<>>) = <<>> /\ Chunks(<<>>) = <<>> /\ Inside(s, <<>>)
    BY DEF Pieces, Chunks, Inside
  <1>2. <<>> \o <<>> = <<>>
    OBVIOUS
  <1> QED
    BY <1>1, <1>2, JoinedEmpty, Zenon DEF Stream

\* The bytes of what was queued.
LEMMA ChunksAre ==
    ASSUME NEW added \in Seq(Appends)
    PROVE  /\ Chunks(added) \in Seq(Seq(Bytes)) /\ Len(Chunks(added)) = Len(added)
           /\ \A i \in 1 .. Len(added) : Chunks(added)[i] = Chunk(added[i])
  <1> DEFINE n == Len(added)
             f == [i \in 1 .. n |-> Chunk(added[i])]
  <1>1. /\ n \in Nat /\ DOMAIN added = 1 .. n
        /\ \A i \in 1 .. n : added[i] \in Appends
    OBVIOUS
  <1>2. Chunks(added) = f
    BY <1>1 DEF Chunks
  <1> HIDE DEF n
  <1>3. ASSUME NEW a \in Appends
        PROVE  Chunk(a) \in Seq(Bytes)
    <2>1. a[2] \in Contents /\ a[3] \in Nat
      BY DEF Appends
    <2>2. Chunk(a) \in [1 .. a[3] -> Bytes]
      BY <2>1 DEF Chunk, Bytes
    <2> QED
      BY <2>1, <2>2, FunctionIsSeq
  <1>4. f \in [1 .. n -> Seq(Bytes)] /\ \A i \in 1 .. n : f[i] = Chunk(added[i])
    BY <1>1, <1>3
  <1> HIDE DEF f
  <1>5. f \in Seq(Seq(Bytes)) /\ Len(f) = n
    BY <1>1, <1>4, FunctionIsSeq
  <1> QED
    BY <1>2, <1>4, <1>5 DEF n

\* A buffer is appended to the stream.
LEMMA StreamAppend ==
    ASSUME Induction, NEW s \in Stores, NEW q \in Seq(Entries), NEW w \in Seq(Bytes),
           NEW added \in Seq(Appends), Stream(s, q, w, added),
           NEW b \in Buffers, NEW m \in Messages, NEW p, p = Append(q, [buffer |-> b, sent |-> 0]),
           NEW bs, bs = Append(added, <<m, s.buffer[b].content, s.buffer[b].limit>>)
    PROVE  /\ p \in Seq(Entries) /\ bs \in Seq(Appends)
           /\ Stream(s, p, w, bs)
  <1> DEFINE e == [buffer |-> b, sent |-> 0]
             a == <<m, s.buffer[b].content, s.buffer[b].limit>>
             c == Chunk(a)
             n == Len(q)
             k == Len(added)
  <1>1. /\ e \in Entries /\ a \in Appends
        /\ s.buffer[b].limit \in Nat /\ s.buffer[b].content \in Contents
    BY Zenon DEF Entries, Stores, Records, Appends
  <1>2. Piece(s, e) = c
    <2>1. s.buffer[b].limit - 0 = s.buffer[b].limit /\ \A i \in 1 .. s.buffer[b].limit : 0 + i = i
      BY <1>1
    <2> QED
      BY <2>1, Zenon DEF Piece, Chunk
  <1>3. e.sent <= s.buffer[e.buffer].limit
    BY <1>1
  <1>4. c \in Seq(Bytes)
    <2> HIDE DEF c, e
    <2> QED
      BY <1>1, <1>2, <1>3, PieceIs, Zenon
  <1> HIDE DEF c, e, a
  <1>5. /\ p \in Seq(Entries) /\ Len(p) = n + 1 /\ n \in Nat /\ DOMAIN p = 1 .. n + 1
        /\ DOMAIN q = 1 .. n /\ p[n + 1] = e /\ \A i \in 1 .. n : p[i] = q[i]
    BY <1>1 DEF e
  <1>6. /\ bs \in Seq(Appends) /\ Len(bs) = k + 1 /\ k \in Nat
        /\ DOMAIN bs = 1 .. k + 1 /\ DOMAIN added = 1 .. k
        /\ bs[k + 1] = a /\ \A i \in 1 .. k : bs[i] = added[i]
    BY <1>1 DEF a
  <1>7. Inside(s, p)
    <2>1. \A i \in 1 .. n + 1 : i \in 1 .. n \/ i = n + 1
      BY <1>5
    <2> QED
      BY <1>3, <1>5, <2>1, Zenon DEF Inside, Stream
  <1>8. /\ Pieces(s, q) \in Seq(Seq(Bytes)) /\ Len(Pieces(s, q)) = n
        /\ \A i \in 1 .. n : Pieces(s, q)[i] = Piece(s, q[i])
    BY PiecesAre DEF Stream
  <1>9. Pieces(s, p) = Append(Pieces(s, q), c)
    <2> DEFINE x == Pieces(s, p)
               y == Pieces(s, q)
    <2>1. /\ x \in Seq(Seq(Bytes)) /\ Len(x) = n + 1
          /\ \A i \in 1 .. n + 1 : x[i] = Piece(s, p[i])
      BY <1>5, <1>7, PiecesAre, Zenon
    <2> HIDE DEF x, y, n
    <2>2. y \in Seq(Seq(Bytes)) /\ Len(y) = n /\ \A i \in 1 .. n : y[i] = Piece(s, q[i])
      BY <1>8, Zenon DEF y
    <2> DEFINE z == Append(y, c)
    <2>3. z \in Seq(Seq(Bytes)) /\ Len(z) = n + 1 /\ z[n + 1] = c /\ \A i \in 1 .. n : z[i] = y[i]
      BY <1>4, <2>2
    <2> HIDE DEF z
    <2>4. \A i \in 1 .. n + 1 : i \in 1 .. n \/ i = n + 1
      BY <1>5
    <2>5. n + 1 \in 1 .. n + 1 /\ \A i \in 1 .. n : i \in 1 .. n + 1
      BY <1>5
    <2>6. \A i \in 1 .. n + 1 : x[i] = z[i]
      <3> TAKE i \in 1 .. n + 1
      <3>1. CASE i \in 1 .. n
        <4>1. x[i] = Piece(s, q[i]) /\ z[i] = Piece(s, q[i])
          BY <1>5, <2>1, <2>2, <2>3, <3>1, Zenon
        <4> QED
          BY <4>1, Zenon
      <3>2. CASE i = n + 1
        <4>1. x[n + 1] = Piece(s, p[n + 1]) /\ p[n + 1] = e /\ z[n + 1] = c
          BY <1>5, <2>1, <2>3, <2>5, Zenon
        <4> QED
          BY <1>2, <3>2, <4>1, Zenon
      <3> QED
        BY <2>4, <3>1, <3>2, Zenon
    <2>7. x = z
      BY <2>1, <2>3, <2>6, SameSeq, Zenon
    <2> QED
      BY <2>7 DEF x, y, z
  <1>10. /\ Chunks(added) \in Seq(Seq(Bytes)) /\ Len(Chunks(added)) = k
         /\ \A i \in 1 .. k : Chunks(added)[i] = Chunk(added[i])
    BY ChunksAre
  <1>11. Chunks(bs) = Append(Chunks(added), c)
    <2> DEFINE x == Chunks(bs)
               y == Chunks(added)
    <2>1. /\ x \in Seq(Seq(Bytes)) /\ Len(x) = k + 1
          /\ \A i \in 1 .. k + 1 : x[i] = Chunk(bs[i])
      BY <1>6, ChunksAre, Zenon
    <2> HIDE DEF x, y, k
    <2>2. y \in Seq(Seq(Bytes)) /\ Len(y) = k /\ \A i \in 1 .. k : y[i] = Chunk(added[i])
      BY <1>10, Zenon DEF y
    <2> DEFINE z == Append(y, c)
    <2>3. z \in Seq(Seq(Bytes)) /\ Len(z) = k + 1 /\ z[k + 1] = c /\ \A i \in 1 .. k : z[i] = y[i]
      BY <1>4, <2>2
    <2> HIDE DEF z
    <2>4. \A i \in 1 .. k + 1 : i \in 1 .. k \/ i = k + 1
      BY <1>6
    <2>5. k + 1 \in 1 .. k + 1 /\ \A i \in 1 .. k : i \in 1 .. k + 1
      BY <1>6
    <2>6. \A i \in 1 .. k + 1 : x[i] = z[i]
      <3> TAKE i \in 1 .. k + 1
      <3>1. CASE i \in 1 .. k
        <4>1. x[i] = Chunk(added[i]) /\ z[i] = Chunk(added[i])
          BY <1>6, <2>1, <2>2, <2>3, <3>1, Zenon
        <4> QED
          BY <4>1, Zenon
      <3>2. CASE i = k + 1
        <4>1. x[k + 1] = Chunk(bs[k + 1]) /\ bs[k + 1] = a /\ z[k + 1] = c
          BY <1>6, <2>1, <2>3, <2>5, ZenonT(30)
        <4> QED
          BY <3>2, <4>1, Zenon DEF c
      <3> QED
        BY <2>4, <3>1, <3>2, Zenon
    <2>7. x = z
      BY <2>1, <2>3, <2>6, SameSeq
    <2> QED
      BY <2>7, Zenon DEF x, y, z
  <1>12. Joined(Pieces(s, p)) = Joined(Pieces(s, q)) \o c
    BY <1>4, <1>8, <1>9, JoinedAppend, Zenon
  <1>13. Joined(Chunks(bs)) = Joined(Chunks(added)) \o c
    BY <1>4, <1>10, <1>11, JoinedAppend, Zenon
  <1>14. Joined(Pieces(s, q)) \in Seq(Bytes)
    BY <1>8, JoinedType
  <1>15. \A x \in Seq(Bytes) : (w \o x) \o c = w \o (x \o c)
    <2>1. Regroups(Bytes)
      BY Associative, Zenon
    <2> QED
      BY <1>4, <2>1, Zenon DEF Regroups
  <1>16. w \o Joined(Pieces(s, q)) = Joined(Chunks(added))
    BY DEF Stream
  <1>17. w \o Joined(Pieces(s, p)) = Joined(Chunks(bs))
    BY <1>12, <1>13, <1>14, <1>15, <1>16, Zenon
  <1> QED
    BY <1>5, <1>6, <1>7, <1>17, Zenon DEF Stream

\* RemainingOf adds up.
LEMMA RemainingIs ==
    ASSUME Induction, NEW n \in Nat, NEW g, g[0] = 0, \A i \in 1 .. n : g[i] = g[i - 1] + Remaining(i)
    PROVE  RemainingOf(n) = g[n]
  <1> DEFINE Def(f) == [i \in 0 .. n |-> IF i = 0 THEN 0 ELSE f[i - 1] + Remaining(i)]
             F == CHOOSE f : f = Def(f)
             h == [i \in 0 .. n |-> g[i]]
  <1>1. RemainingOf(n) = F[n]
    BY DEF RemainingOf
  <1>2. h = Def(h)
    <2>1. ASSUME NEW i \in 0 .. n
          PROVE  g[i] = IF i = 0 THEN 0 ELSE h[i - 1] + Remaining(i)
      <3>1. i # 0 => i \in 1 .. n /\ i - 1 \in 0 .. n
        OBVIOUS
      <3> QED
        BY <3>1
    <2> QED
      BY <2>1
  <1>3. F = Def(F)
    BY <1>2, Zenon
  <1> HIDE DEF F
  <1>4. \A i \in 0 .. n : F[i] = IF i = 0 THEN 0 ELSE F[i - 1] + Remaining(i)
    BY <1>3
  <1> DEFINE U == {i \in 0 .. n : F[i] = g[i]}
  <1>5. 0 \in U
    BY <1>4
  <1>6. ASSUME NEW i \in 0 .. n - 1, i \in U
        PROVE  i + 1 \in U
    <2> DEFINE k == i + 1
    <2>1. k \in 1 .. n /\ k \in 0 .. n /\ k - 1 = i /\ k # 0
      OBVIOUS
    <2> HIDE DEF k
    <2>2. F[k] = F[k - 1] + Remaining(k) /\ g[k] = g[k - 1] + Remaining(k)
      BY <1>4, <2>1
    <2>3. F[k] = g[k]
      BY <1>6, <2>1, <2>2, Zenon
    <2> QED
      BY <2>1, <2>3 DEF k
  <1>7. 0 .. n \subseteq U
    <2> HIDE DEF U
    <2> QED
      BY <1>5, <1>6 DEF Induction, Inducts
  <1>8. n \in 0 .. n
    OBVIOUS
  <1> QED
    BY <1>1, <1>7, <1>8

\* d is e after k more bytes, a.
Sent(s, e, d, k) == \E a \in Seq(Bytes) : Len(a) = k /\ Piece(s, e) = a \o Piece(s, d)

\* k more bytes of an entry are sent.
LEMMA PieceCut ==
    ASSUME NEW s \in Stores, NEW e \in Entries, NEW k \in Nat,
           e.sent + k <= s.buffer[e.buffer].limit,
           NEW d \in Entries, d.buffer = e.buffer, d.sent = e.sent + k
    PROVE  Sent(s, e, d, k)
  <1> DEFINE l == s.buffer[e.buffer].limit
             c == s.buffer[e.buffer].content
             v == e.sent
             a == [j \in 1 .. k |-> <<c, v + j>>]
             x == Piece(s, e)
             y == Piece(s, d)
  <1>1. l \in Nat /\ c \in Contents /\ v \in Nat /\ v + k <= l /\ v <= l /\ d.sent <= s.buffer[d.buffer].limit
    BY DEF Stores, Records, Entries
  <1>2. x \in Seq(Bytes) /\ Len(x) = l - v
    BY <1>1, PieceIs, Zenon
  <1>3. y \in Seq(Bytes) /\ Len(y) = l - (v + k)
    BY <1>1, PieceIs, Zenon
  <1>4. \A j \in 1 .. l - v : x[j] = <<c, v + j>>
    BY Zenon DEF Piece
  <1>5. \A j \in 1 .. l - (v + k) : y[j] = <<c, (v + k) + j>>
    BY DEF Piece
  <1> HIDE DEF l, c, v, x, y
  <1>6. a \in [1 .. k -> Bytes] /\ \A j \in 1 .. k : a[j] = <<c, v + j>>
    BY <1>1 DEF Bytes
  <1> HIDE DEF a
  <1>7. a \in Seq(Bytes) /\ Len(a) = k
    BY <1>6, FunctionIsSeq
  <1> DEFINE z == a \o y
  <1>8. /\ z \in Seq(Bytes) /\ Len(z) = k + (l - (v + k))
        /\ \A j \in 1 .. k + (l - (v + k)) : z[j] = IF j <= k THEN a[j] ELSE y[j - k]
    <2>1. /\ z \in Seq(Bytes) /\ Len(z) = Len(a) + Len(y)
          /\ \A j \in 1 .. Len(a) + Len(y) : z[j] = IF j <= Len(a) THEN a[j] ELSE y[j - Len(a)]
      <3>1. a \in Seq(Bytes) /\ y \in Seq(Bytes)
        BY <1>3, <1>7
      <3> QED
        BY <3>1, ConcatIs, Zenon
    <2> HIDE DEF z
    <2> QED
      BY <1>3, <1>7, <2>1, Zenon
  <1> HIDE DEF z
  <1>9. k + (l - (v + k)) = l - v
    BY <1>1
  <1>10. ASSUME NEW j \in 1 .. l - v
         PROVE  x[j] = z[j]
    <2>1. z[j] = IF j <= k THEN a[j] ELSE y[j - k]
      BY <1>8, <1>9
    <2>2. j <= k => j \in 1 .. k
      BY <1>1
    <2>3. ~(j <= k) => j - k \in 1 .. l - (v + k) /\ (v + k) + (j - k) = v + j
      BY <1>1
    <2> QED
      BY <1>4, <1>5, <1>6, <2>1, <2>2, <2>3, Zenon
  <1>11. x = z
    BY <1>2, <1>8, <1>9, <1>10, SameSeq, Zenon
  <1> QED
    BY <1>7, <1>11 DEF x, y, z, Sent

\* p is what is behind the first d entries of q, k more bytes of the next being sent.
Advanced(q, d, k, p) ==
    /\ p \in Seq(Entries) /\ Len(p) = Len(q) - d
    /\ p[1].sent = q[d + 1].sent + k
    /\ \A i \in 1 .. Len(q) - d : p[i].buffer = q[d + i].buffer
    /\ \A i \in 2 .. Len(q) - d : p[i] = q[d + i]

\* The queue when d buffers are given back and the next advances to n bytes.
LEMMA QueueAfterIs ==
    ASSUME queue \in Seq(Entries), NEW n \in Nat, NEW d \in 0 .. Len(queue) - 1,
           NEW r \in Nat, RemainingOf(d) = r, r <= n, NEW p, p = QueueAfter(n, d)
    PROVE  Advanced(queue, d, n - r, p)
  <1> DEFINE N == Len(queue)
             rest == SubSeq(queue, d + 1, N)
             e == rest[1]
             x == [buffer |-> e.buffer, sent |-> e.sent + (n - r)]
  <1>1. N \in Nat /\ N - d \in Nat /\ 1 \in 1 .. N - d /\ d \in 0 .. N
    OBVIOUS
  <1>2. /\ rest \in Seq(Entries) /\ Len(rest) = N - d
        /\ \A i \in 1 .. N - d : rest[i] = queue[d + 1 + i - 1]
    BY <1>1, Tails
  <1>3. \A i \in 1 .. N - d : d + 1 + i - 1 = d + i
    BY <1>1
  <1>4. \A i \in 1 .. N - d : rest[i] = queue[d + i]
    BY <1>2, <1>3, Zenon
  <1>5. rest # <<>> /\ e \in Entries
    BY <1>1, <1>2
  <1>6. p = [rest EXCEPT ![1].sent = @ + n - r]
    BY <1>5, Zenon DEF QueueAfter
  <1> HIDE DEF N, rest
  <1>7. e.sent \in Nat /\ e.buffer \in Buffers /\ e = [buffer |-> e.buffer, sent |-> e.sent]
    BY <1>5, Zenon DEF Entries
  <1>8. e.sent + n - r = e.sent + (n - r) /\ e.sent + (n - r) \in Nat
    BY <1>7
  <1>9. x \in Entries
    BY <1>7, <1>8 DEF Entries
  <1>10. p = [rest EXCEPT ![1] = x]
    <2>1. [e EXCEPT !.sent = e.sent + n - r] = x
      BY <1>7, <1>8
    <2> QED
      BY <1>6, <2>1, Zenon
  <1> HIDE DEF x
  <1>11. /\ p \in Seq(Entries) /\ Len(p) = N - d /\ p[1] = x
         /\ \A i \in 1 .. N - d : i # 1 => p[i] = rest[i]
    BY <1>1, <1>2, <1>9, <1>10
  <1>12. x.buffer = queue[d + 1].buffer /\ x.sent = queue[d + 1].sent + (n - r)
    BY <1>1, <1>4 DEF x
  <1>13. \A i \in 2 .. N - d : p[i] = queue[d + i]
    BY <1>4, <1>11, SMTT(30)
  <1>14. \A i \in 1 .. N - d : p[i].buffer = queue[d + i].buffer
    <2>1. \A i \in 1 .. N - d : i = 1 \/ i \in 2 .. N - d
      BY <1>1
    <2> QED
      BY <1>11, <1>12, <1>13, <2>1, Zenon
  <1> QED
    BY <1>11, <1>12, <1>13, <1>14 DEF N, Advanced

\* What is queued, joined piece by piece: RemainingOf is its length.
LEMMA QueuedIs ==
    ASSUME Induction, store \in Stores, queue \in Seq(Entries), Inside(store, queue)
    PROVE  \E f \in [0 .. Len(queue) -> Seq(Bytes)] :
              /\ Joins(f, Pieces(store, queue)) /\ Queued = f[Len(queue)]
              /\ \A i \in 0 .. Len(queue) : RemainingOf(i) = Len(f[i])
              /\ \A i \in 1 .. Len(queue) : /\ Remaining(i) \in Nat
                                            /\ Len(f[i]) = Len(f[i - 1]) + Remaining(i)
  <1> DEFINE N == Len(queue)
             cs == Pieces(store, queue)
  <1>1. N \in Nat /\ DOMAIN queue = 1 .. N /\ \A i \in 1 .. N : queue[i] \in Entries
    OBVIOUS
  <1>2. /\ cs \in Seq(Seq(Bytes)) /\ Len(cs) = N
        /\ \A i \in 1 .. N : cs[i] = Piece(store, queue[i])
    BY PiecesAre, Zenon
  <1>3. Queued = Joined(cs)
    BY DEF Queued, Remaining, Pieces, Piece
  <1> HIDE DEF cs
  <1>4. PICK f \in [0 .. N -> Seq(Bytes)] : Joins(f, cs) /\ Joined(cs) = f[N]
    <2>1. \E f \in [0 .. Len(cs) -> Seq(Bytes)] : Joins(f, cs) /\ Joined(cs) = f[Len(cs)]
      BY <1>2, JoinedDef
    <2> HIDE DEF N
    <2> QED
      BY <1>2, <2>1, Zenon
  <1> DEFINE r == [i \in 0 .. N |-> Len(f[i])]
  <1>5. ASSUME NEW i \in 1 .. N
        PROVE  r[i] = r[i - 1] + Remaining(i) /\ Remaining(i) \in Nat
    <2>1. i \in 0 .. N /\ i - 1 \in 0 .. N
      BY <1>1
    <2>2. f[i] = f[i - 1] \o cs[i]
      BY <1>2, <1>4, Zenon DEF Joins
    <2>3. queue[i].sent <= store.buffer[queue[i].buffer].limit
      BY <1>1, Zenon DEF Inside
    <2>4. cs[i] \in Seq(Bytes) /\ Len(cs[i]) = Remaining(i)
      <3> DEFINE e == queue[i]
      <3>1. Piece(store, e) \in Seq(Bytes) /\ Len(Piece(store, e)) = store.buffer[e.buffer].limit - e.sent
        <4>1. e \in Entries /\ e.sent <= store.buffer[e.buffer].limit
          BY <1>1, <2>3
        <4> HIDE DEF e
        <4> QED
          BY <4>1, PieceIs, Zenon
      <3> QED
        BY <1>2, <3>1, Zenon DEF Remaining
    <2>5. Remaining(i) \in Nat
      BY <2>4
    <2>6. Len(f[i]) = Len(f[i - 1]) + Len(cs[i])
      <3>1. f[i - 1] \in Seq(Bytes)
        BY <1>4, <2>1
      <3> QED
        BY <2>2, <2>4, <3>1, ConcatIs, ZenonT(30)
    <2> QED
      BY <2>1, <2>4, <2>5, <2>6
  <1>6. r \in [0 .. N -> Nat] /\ r[0] = 0
    <2>1. 0 \in 0 .. N /\ f[0] = <<>>
      BY <1>1, <1>4 DEF Joins
    <2> QED
      BY <1>4, <2>1
  <1>7. \A i \in 0 .. N : r[i] = Len(f[i])
    OBVIOUS
  <1> HIDE DEF r, N
  <1>8. ASSUME NEW i \in 0 .. N
        PROVE  RemainingOf(i) = r[i]
    <2>1. i \in Nat /\ \A j \in 1 .. i : j \in 1 .. N
      BY <1>1
    <2>2. \A j \in 1 .. i : r[j] = r[j - 1] + Remaining(j)
      BY <1>5, <2>1
    <2> QED
      BY <1>6, <2>1, <2>2, RemainingIs, Zenon
  <1>9. \A i \in 1 .. N : Remaining(i) \in Nat /\ Len(f[i]) = Len(f[i - 1]) + Remaining(i)
    <2> TAKE i \in 1 .. N
    <2>1. i \in 0 .. N /\ i - 1 \in 0 .. N
      BY <1>1
    <2> QED
      BY <1>5, <1>7, <2>1
  <1>10. \A i \in 0 .. N : RemainingOf(i) = Len(f[i])
    BY <1>7, <1>8
  <1>11. Queued = f[N]
    BY <1>3, <1>4, Zenon
  <1> QED
    BY <1>4, <1>9, <1>10, <1>11, Zenon DEF N, cs

\* send() takes n bytes: they are the beginning of what is queued, and discard(n)
\* leaves the rest.
LEMMA Cut ==
    ASSUME Induction, store \in Stores, queue \in Seq(Entries), Inside(store, queue),
           NEW n \in Nat, n <= RemainingOf(Len(queue)),
           NEW d, d = Discarded(n), NEW p, p = QueueAfter(n, d)
    PROVE  /\ d \in 0 .. Len(queue) /\ p \in Seq(Entries) /\ Len(p) = Len(queue) - d
           /\ \A i \in 1 .. Len(queue) - d : p[i].buffer = queue[d + i].buffer
           /\ Inside(store, p)
           /\ SubSeq(Queued, 1, n) \in Seq(Bytes)
           /\ SubSeq(Queued, 1, n) \o Joined(Pieces(store, p)) = Queued
  <1> DEFINE N == Len(queue)
             cs == Pieces(store, queue)
  <1>1. N \in Nat /\ DOMAIN queue = 1 .. N /\ \A i \in 1 .. N : queue[i] \in Entries
    OBVIOUS
  <1>2. /\ cs \in Seq(Seq(Bytes)) /\ Len(cs) = N
        /\ \A i \in 1 .. N : cs[i] = Piece(store, queue[i])
    BY PiecesAre
  <1>4. PICK f \in [0 .. N -> Seq(Bytes)] :
            /\ Joins(f, cs) /\ Queued = f[N]
            /\ \A i \in 0 .. N : RemainingOf(i) = Len(f[i])
            /\ \A i \in 1 .. N : Remaining(i) \in Nat /\ Len(f[i]) = Len(f[i - 1]) + Remaining(i)
    BY QueuedIs
  <1> DEFINE r == [i \in 0 .. N |-> Len(f[i])]
  <1> HIDE DEF cs, N
  <1>3. \A i \in 0 .. N : f[i] \in Seq(Bytes) /\ Len(f[i]) \in Nat
    BY <1>4
  <1>5. ASSUME NEW i \in 1 .. N
        PROVE  r[i] = r[i - 1] + Remaining(i) /\ Remaining(i) \in Nat
    <2>1. i \in 0 .. N /\ i - 1 \in 0 .. N
      BY <1>1
    <2> QED
      BY <1>4, <2>1
  <1>6. r \in [0 .. N -> Nat] /\ r[0] = 0
    <2>1. 0 \in 0 .. N /\ f[0] = <<>>
      BY <1>1, <1>4 DEF Joins
    <2> QED
      BY <1>3, <2>1
  <1>7. \A i \in 0 .. N : r[i] = Len(f[i])
    OBVIOUS
  <1> HIDE DEF r
  <1>8. \A i \in 0 .. N : RemainingOf(i) = r[i]
    BY <1>4, <1>7
  <1>9. \A i \in 1 .. N : r[i - 1] <= r[i] /\ i \in 0 .. N /\ i - 1 \in 0 .. N
    <2> TAKE i \in 1 .. N
    <2>1. i \in 0 .. N /\ i - 1 \in 0 .. N
      BY <1>1
    <2> QED
      BY <1>5, <1>6, <2>1
  <1>10. N \in 0 .. N /\ n <= r[N]
    <2>1. N \in 0 .. N
      BY <1>1
    <2> QED
      BY <1>8, <2>1 DEF N
  <1>11. /\ d \in 0 .. N /\ r[d] <= n /\ (d < N => n <= r[d + 1])
    <2> DEFINE T == {i \in 1 .. N : r[i - 1] < n /\ r[i] <= n}
    <2>1. PICK c \in 0 .. N : T = 1 .. c /\ r[c] <= n /\ (c < N => n <= r[c + 1])
      BY <1>1, <1>6, <1>9, <1>10, CutAt, Zenon
    <2>2. Discarded(n) = Cardinality(T)
      <3>1. Discarded(n) = Cardinality({i \in 1 .. N : RemainingOf(i - 1) < n /\ RemainingOf(i) <= n})
        BY <1>1 DEF Discarded
      <3>2. {i \in 1 .. N : RemainingOf(i - 1) < n /\ RemainingOf(i) <= n} = T
        BY <1>8, <1>9
      <3> QED
        BY <3>1, <3>2, Zenon
    <2> HIDE DEF T
    <2>3. Cardinality(1 .. c) = c
      <3>1. c \in Nat
        BY <1>1
      <3> QED
        BY <3>1 DEF Induction, Counts
    <2>4. d = c
      BY <2>1, <2>2, <2>3
    <2> QED
      BY <2>1, <2>4
  <1>12. CASE d = N
    <2>1. p = <<>>
      <3>1. SubSeq(queue, d + 1, N) = <<>>
        <4>1. N + 1 > N
          BY <1>1
        <4> QED
          BY <1>1, <1>12, <4>1, NoSubSeq DEF N
      <3> QED
        BY <3>1 DEF QueueAfter, N
    <2>2. Pieces(store, p) = <<>> /\ Inside(store, p)
      BY <2>1 DEF Pieces, Inside
    <2>3. f[N] \in Seq(Bytes) /\ Len(f[N]) = n
      BY <1>4, <1>6, <1>7, <1>10, <1>11, <1>12
    <2>4. f[N] \o <<>> = f[N]
      BY <2>3, ConcatIs
    <2>5. SubSeq(f[N], 1, n) = f[N]
      <3>1. <<>> \in Seq(Bytes)
        OBVIOUS
      <3>2. SubSeq(f[N] \o <<>>, 1, Len(f[N])) = f[N]
        BY <2>3, <3>1, PrefixOfConcat
      <3> QED
        BY <2>3, <2>4, <3>2, Zenon
    <2>6. SubSeq(Queued, 1, n) \in Seq(Bytes) /\ SubSeq(Queued, 1, n) \o Joined(Pieces(store, p)) = Queued
      BY <1>4, <2>2, <2>3, <2>4, <2>5, JoinedEmpty, ZenonT(30)
    <2>7. p \in Seq(Entries) /\ Len(p) = N - d /\ \A i \in 1 .. N - d : p[i].buffer = queue[d + i].buffer
      BY <1>1, <1>12, <2>1
    <2> QED
      BY <1>11, <2>2, <2>6, <2>7 DEF N
  <1>13. CASE d < N
    <2> DEFINE e == queue[d + 1]
               R == r[d]
               k == n - R
               ds == Pieces(store, p)
    <2>1. /\ d \in 0 .. N - 1 /\ d \in Nat /\ d + 1 \in 1 .. N /\ (d + 1) - 1 = d /\ d + 1 \in 0 .. N
          /\ 1 \in 1 .. N - d /\ N - d \in Nat
      BY <1>1, <1>11, <1>13
    <2>2. R \in Nat /\ RemainingOf(d) = R /\ R <= n /\ n <= r[d + 1]
      BY <1>6, <1>8, <1>11, <1>13, <2>1
    <2>3. /\ p \in Seq(Entries) /\ Len(p) = N - d
          /\ p[1].sent = queue[d + 1].sent + k
          /\ \A i \in 1 .. N - d : p[i].buffer = queue[d + i].buffer
          /\ \A i \in 2 .. N - d : p[i] = queue[d + i]
      <3>1. d \in 0 .. Len(queue) - 1
        BY <2>1 DEF N
      <3> HIDE DEF R
      <3>2. Advanced(queue, d, n - R, p)
        BY <2>2, <3>1, QueueAfterIs
      <3> QED
        BY <3>2, Zenon DEF N, Advanced
    <2>4. r[d + 1] = R + Remaining(d + 1) /\ Remaining(d + 1) \in Nat
      <3> DEFINE j == d + 1
      <3>1. j \in 1 .. N /\ j - 1 = d
        BY <2>1
      <3> HIDE DEF j
      <3>2. r[j] = r[j - 1] + Remaining(j) /\ Remaining(j) \in Nat
        BY <1>5, <3>1
      <3> QED
        BY <3>1, <3>2, Zenon DEF j
    <2> HIDE DEF R
    <2>5. e \in Entries /\ e.sent \in Nat /\ store.buffer[e.buffer].limit \in Nat
      BY <1>1, <2>1, Zenon DEF Stores, Records, Entries
    <2>6. k \in Nat /\ e.sent + k <= store.buffer[e.buffer].limit
      <3>1. Remaining(d + 1) = store.buffer[e.buffer].limit - e.sent
        BY Zenon DEF Remaining
      <3> HIDE DEF e
      <3>2. n - R <= store.buffer[e.buffer].limit - e.sent
        BY <2>2, <2>4, <2>5, <3>1
      <3> QED
        BY <2>2, <2>5, <3>2
    <2>7. p[1] \in Entries /\ p[1].buffer = e.buffer /\ p[1].sent = e.sent + k
      <3>1. p[1] \in Entries
        BY <2>1, <2>3
      <3>2. p[1].buffer = e.buffer
        BY <2>1, <2>3, Zenon
      <3> QED
        BY <2>3, <3>1, <3>2, Zenon
    <2> HIDE DEF e, k
    <2>8. PICK a \in Seq(Bytes) : Len(a) = k /\ Piece(store, e) = a \o Piece(store, p[1])
      <3> DEFINE h == p[1]
      <3>1. h \in Entries /\ h.buffer = e.buffer /\ h.sent = e.sent + k
        BY <2>7, Zenon
      <3> HIDE DEF h
      <3>2. Sent(store, e, h, k)
        BY <2>5, <2>6, <3>1, PieceCut, Zenon
      <3> QED
        BY <3>2, Zenon DEF Sent, h
    <2>9. Inside(store, p)
      <3> SUFFICES ASSUME NEW i \in 1 .. N - d
                   PROVE  p[i].sent <= store.buffer[p[i].buffer].limit
        BY <2>3 DEF Inside
      <3>1. CASE i = 1
        BY <2>6, <2>7, <3>1, Zenon
      <3>2. CASE i # 1
        <4>1. i \in 2 .. N - d /\ d + i \in 1 .. N
          BY ONLY <1>1, <2>1, <3>2, i \in 1 .. N - d
        <4> QED
          BY <1>1, <2>3, <4>1 DEF Inside
      <3> QED
        BY <3>1, <3>2, Zenon
    <2>10. /\ ds \in Seq(Seq(Bytes)) /\ Len(ds) = N - d
           /\ \A i \in 1 .. N - d : ds[i] = Piece(store, p[i])
      BY <2>3, <2>9, PiecesAre
    <2> HIDE DEF ds
    <2>11. cs[d + 1] = a \o ds[1]
      <3>1. cs[d + 1] = Piece(store, e) /\ ds[1] = Piece(store, p[1])
        BY <1>2, <2>1, <2>10, Zenon DEF e
      <3> QED
        BY <2>8, <3>1, Zenon
    <2>12. \A i \in 2 .. N - d : ds[i] = cs[d + i]
      <3> TAKE i \in 2 .. N - d
      <3>1. i \in 1 .. N - d /\ d + i \in 1 .. N
        BY ONLY <1>1, <2>1, i \in 2 .. N - d
      <3>2. ds[i] = Piece(store, p[i]) /\ p[i] = queue[d + i]
        BY <2>3, <2>10, <3>1, Zenon
      <3>3. cs[d + i] = Piece(store, queue[d + i])
        BY <1>2, <3>1, Zenon
      <3> QED
        BY <3>2, <3>3, Zenon
    <2>13. f[N] = (f[d] \o a) \o Joined(ds)
      <3>1. Len(cs) = N /\ Len(ds) = Len(cs) - d /\ d \in 0 .. Len(cs) - 1
        BY <1>2, <2>1, <2>10
      <3>2. f \in [0 .. Len(cs) -> Seq(Bytes)] /\ Joins(f, cs)
        BY <1>4, <3>1
      <3>3. Remains(cs, d, a, ds)
        BY <2>10, <2>11, <2>12, <3>1, Zenon DEF Remains
      <3>4. f[Len(cs)] = (f[d] \o a) \o Joined(ds)
        <4>1. JoinsOf(Bytes, f, cs) /\ ds \in Seq(Seq(Bytes)) /\ d \in 0 .. Len(cs) - 1
          BY <1>2, <2>10, <3>1, <3>2, Zenon DEF JoinsOf
        <4>2. Parted(f, cs, d, a, ds)
          BY <3>3, <4>1, JoinedCut, Zenon
        <4> QED
          BY <4>2, Zenon DEF Parted
      <3> QED
        BY <3>1, <3>4, Zenon
    <2> DEFINE w == f[d] \o a
    <2>14. w \in Seq(Bytes) /\ Len(w) = n
      <3>1. f[d] \in Seq(Bytes) /\ Len(f[d]) = R
        BY <1>4, <1>7, <1>11 DEF R
      <3>2. w \in Seq(Bytes) /\ Len(w) = Len(f[d]) + Len(a)
        BY <3>1, ConcatIs, ZenonT(30)
      <3>3. Len(w) = R + k
        BY <2>8, <3>1, <3>2, Zenon
      <3> HIDE DEF w
      <3> QED
        BY <2>2, <3>2, <3>3 DEF k
    <2> HIDE DEF w
    <2>15. Joined(ds) \in Seq(Bytes) /\ f[N] = w \o Joined(ds)
      <3>1. Joined(ds) \in Seq(Bytes)
        BY <2>10, JoinedType
      <3> QED
        BY <2>13, <3>1 DEF w
    <2>16. SubSeq(w \o Joined(ds), 1, Len(w)) = w
      BY <2>14, <2>15, PrefixOfConcat
    <2>17. SubSeq(Queued, 1, n) = w
      BY <1>4, <2>14, <2>15, <2>16, Zenon
    <2>18. SubSeq(Queued, 1, n) \in Seq(Bytes) /\ SubSeq(Queued, 1, n) \o Joined(Pieces(store, p)) = Queued
      BY <1>4, <2>14, <2>15, <2>17, Zenon DEF ds
    <2> QED
      BY <1>11, <2>3, <2>9, <2>18, Zenon DEF N
  <1> QED
    BY <1>1, <1>11, <1>12, <1>13

-----------------------------------------------------------------------------
(* What the operations do, each under a name *)

\* Buffer b was taken from s, which is t then, for size bytes.
Taken(s, t, b, size) ==
    /\ StoreOK(t)
    /\ b \in Buffers /\ b \in Loose(s) /\ Loose(t) = Loose(s) \ {b}
    /\ t.buffer[b].limit = size
    /\ \A x \in Buffers \ {b} : t.buffer[x] = s.buffer[x]

\* Content v was written into buffer b.
Rewritten(s, t, b, v) ==
    /\ StoreOK(t) /\ Loose(t) = Loose(s)
    /\ t.buffer[b].limit = s.buffer[b].limit /\ t.buffer[b].content = v
    /\ \A x \in Buffers \ {b} : t.buffer[x] = s.buffer[x]

\* Buffer b was given back.
Returned(s, t, b) ==
    /\ StoreOK(t) /\ Loose(t) = Loose(s) \cup {b}
    /\ \A x \in Buffers \ {b} : t.buffer[x] = s.buffer[x]

\* The buffers of bs were given back.
ReturnedAll(s, t, bs) ==
    /\ StoreOK(t) /\ Loose(t) = Loose(s) \cup {bs[i] : i \in DOMAIN bs}
    /\ \A x \in Buffers : (\A i \in DOMAIN bs : bs[i] # x) => t.buffer[x] = s.buffer[x]

\* Nothing in the stream was changed.
Same(s, t, q) == \A i \in DOMAIN q : t.buffer[q[i].buffer] = s.buffer[q[i].buffer]

\* getBuffer takes.
LEMMA GetTakes ==
    ASSUME Induction, NEW s, StoreOK(s), NEW size \in Nat, Available(s, size),
           NEW b, b = GetBuffer(s, size), NEW t, t = AfterGet(s, size)
    PROVE  Taken(s, t, b, size)
  BY AfterGetKeeps DEF Taken

\* A write rewrites.
LEMMA WriteRewrites ==
    ASSUME NEW s, StoreOK(s), NEW b \in Buffers, NEW v \in Contents, NEW t, t = Filled(s, b, v)
    PROVE  Rewritten(s, t, b, v)
  BY ContentKeeps DEF Rewritten

\* reuseFreeBuffer returns.
LEMMA GiveReturns ==
    ASSUME Induction, NEW s, StoreOK(s), NEW b \in Buffers, b \notin Loose(s),
           NEW t, t = GiveBack(s, <<b>>)
    PROVE  Returned(s, t, b)
  BY GiveOneBack DEF Returned

\* And so does one that gives several buffers back.
LEMMA GiveReturnsAll ==
    ASSUME Induction, NEW s, StoreOK(s), NEW bs \in Seq(Buffers),
           \A i, j \in DOMAIN bs : bs[i] = bs[j] => i = j,
           \A i \in DOMAIN bs : bs[i] \notin Loose(s),
           NEW t, t = GiveBack(s, bs)
    PROVE  ReturnedAll(s, t, bs)
  BY GiveBackKeeps DEF ReturnedAll

\* Where nothing in the stream changes it stays whole.
LEMMA StreamSame ==
    ASSUME NEW s, NEW t, NEW q, NEW w, NEW added, Stream(s, q, w, added), Same(s, t, q)
    PROVE  Stream(t, q, w, added)
  BY StreamFrame DEF Same

\* The elements of a sequence, and those of the empty one.
LEMMA Elements ==
    /\ \A S : \A q \in Seq(S) : \A i \in DOMAIN q : q[i] \in S
    /\ DOMAIN <<>> = {} /\ \A S : <<>> \in Seq(S)
  OBVIOUS

\* A header has a length, and so has a capacity.
LEMMA SomeLength ==
    /\ 0 \notin Capacities
    /\ \A n \in Nat : HeadLength + n # 0 /\ ~(n < n) /\ n <= n
  BY SendAssumption

\* The buffers of the queue, when one more is queued.
LEMMA ClearedAppend ==
    ASSUME queue \in Seq(Entries), NEW b \in Buffers,
           queue' = Append(queue, [buffer |-> b, sent |-> 0])
    PROVE  Cleared' = Append(Cleared, b)
  <1> DEFINE n == Len(queue)
             e == [buffer |-> b, sent |-> 0]
  <1>1. /\ n \in Nat /\ DOMAIN queue = 1 .. n /\ DOMAIN queue' = 1 .. n + 1
        /\ queue'[n + 1].buffer = b /\ \A i \in 1 .. n : queue'[i] = queue[i]
    <2>1. e \in Entries /\ e.buffer = b
      BY DEF Entries
    <2>2. queue' = Append(queue, e)
      OBVIOUS
    <2> HIDE DEF e
    <2> QED
      BY <2>1, <2>2
  <1>2. Cleared' = [i \in 1 .. n + 1 |-> queue'[i].buffer]
    BY <1>1, Zenon DEF Cleared
  <1>3. Cleared = [i \in 1 .. n |-> queue[i].buffer]
    BY <1>1, Zenon DEF Cleared
  <1>4. \A i \in 1 .. n : queue[i].buffer \in Buffers
    <2>1. \A i \in 1 .. n : queue[i] \in Entries
      BY <1>1
    <2> QED
      BY <2>1, Zenon DEF Entries
  <1> HIDE DEF n
  <1>5. \A i \in 1 .. n + 1 : i \in 1 .. n \/ i = n + 1
    BY <1>1
  <1>6. Cleared \in [1 .. n -> Buffers] /\ \A i \in 1 .. n : Cleared[i] = queue[i].buffer
    BY <1>3, <1>4, Zenon
  <1> DEFINE x == Cleared'
             y == Append(Cleared, b)
             z == Cleared
  <1>7. x \in [1 .. n + 1 -> Buffers] /\ \A i \in 1 .. n + 1 : x[i] = queue'[i].buffer
    <2>1. \A i \in 1 .. n + 1 : queue'[i].buffer \in Buffers
      BY <1>1, <1>4, <1>5, Zenon
    <2> QED
      BY <1>2, <2>1, Zenon
  <1>8. y \in Seq(Buffers) /\ Len(y) = n + 1 /\ y[n + 1] = b /\ \A i \in 1 .. n : y[i] = queue[i].buffer
    <2>1. z \in [1 .. n -> Buffers] /\ \A i \in 1 .. n : z[i] = queue[i].buffer
      BY <1>6, Zenon
    <2>2. y = Append(z, b)
      BY Zenon
    <2> HIDE DEF y, z
    <2>3. z \in Seq(Buffers) /\ Len(z) = n
      BY <1>1, <2>1, FunctionIsSeq, Zenon
    <2> QED
      BY <1>1, <2>1, <2>2, <2>3
  <1> HIDE DEF x, y, z
  <1>9. n + 1 \in Nat
    BY <1>1
  <1>10. x \in Seq(Buffers) /\ Len(x) = n + 1
    BY <1>7, <1>9, FunctionIsSeq, Zenon
  <1>11. \A i \in 1 .. n + 1 : x[i] = y[i]
    BY <1>1, <1>5, <1>7, <1>8, Zenon
  <1>12. x = y
    BY <1>8, <1>10, <1>11, SameSeq, Zenon
  <1> QED
    BY <1>12, Zenon DEF x, y
===============================================================================
