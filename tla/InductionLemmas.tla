--------------------------- MODULE InductionLemmas ---------------------------
(***************************************************************************)
(* Induction and recursion over the natural numbers with sets and          *)
(* functions in the place of predicates and operators.                     *)
(***************************************************************************)
EXTENDS Integers, Sequences, WellFoundedInduction, TLAPS

\* A set of natural numbers has a least element.
LEMMA LeastNat ==
    ASSUME NEW T, T \subseteq Nat, T # {}
    PROVE  \E n \in T : \A m \in T : n <= m
  <1> DEFINE R == OpToRel(<, Nat)
  <1>1. IsWellFoundedOn(R, Nat)
    BY NatLessThanWellFounded, Zenon
  <1>2. R = {ss \in Nat \X Nat : ss[1] < ss[2]}
    BY DEF OpToRel
  <1> HIDE DEF R
  <1>3. PICK n \in T : \A m \in T : ~(<<m, n>> \in R)
    BY <1>1, WFMin, Zenon
  <1>4. ASSUME NEW m \in T
        PROVE  n <= m
    <2>1. <<m, n>> \in Nat \X Nat /\ <<m, n>> \notin R
      BY <1>3
    <2> QED
      BY <1>2, <2>1
  <1> QED
    BY <1>3, <1>4

\* Induction over an initial segment.
LEMMA Induct ==
    ASSUME NEW n \in Nat, NEW T, 0 \in T,
           \A i \in 0 .. n - 1 : i \in T => i + 1 \in T
    PROVE  0 .. n \subseteq T
  <1> SUFFICES ASSUME (0 .. n) \ T # {}
               PROVE  FALSE
    OBVIOUS
  <1> DEFINE U == (0 .. n) \ T
  <1>0. U \subseteq Nat /\ U # {}
    OBVIOUS
  <1>1. PICK i \in U : \A m \in U : i <= m
    <2> HIDE DEF U
    <2> QED
      BY <1>0, LeastNat, Zenon
  <1>2. i # 0 /\ i - 1 \in 0 .. n - 1 /\ i - 1 \in T
    BY <1>1
  <1> QED
    BY <1>1, <1>2

\* A function may be defined by recursion over an initial segment; step takes the
\* number and the value before.
Recursive(g, n, first, step) ==
    /\ g[0] = first
    /\ \A i \in 1 .. n : g[i] = step[<<i, g[i - 1]>>]

LEMMA Recursion ==
    ASSUME NEW n \in Nat, NEW V, NEW first \in V, NEW step \in [(1 .. n) \X V -> V]
    PROVE  \E g \in [0 .. n -> V] : Recursive(g, n, first, step)
  <1> DEFINE T == {k \in 0 .. n : \E g \in [0 .. k -> V] : Recursive(g, k, first, step)}
  <1>1. 0 \in T
    <2> DEFINE g == [i \in 0 .. 0 |-> first]
    <2>1. g \in [0 .. 0 -> V] /\ Recursive(g, 0, first, step)
      BY DEF Recursive
    <2> QED
      BY <2>1
  <1>2. ASSUME NEW k \in 0 .. n - 1, k \in T
        PROVE  k + 1 \in T
    <2>1. PICK g \in [0 .. k -> V] : Recursive(g, k, first, step)
      BY <1>2
    <2> DEFINE v == step[<<k + 1, g[k]>>]
               h == [i \in 0 .. k + 1 |-> IF i = k + 1 THEN v ELSE g[i]]
    <2>2. g[k] \in V /\ <<k + 1, g[k]>> \in (1 .. n) \X V
      OBVIOUS
    <2>3. v \in V
      BY <2>2
    <2> HIDE DEF v
    <2>4. h \in [0 .. k + 1 -> V]
      BY <2>3
    <2>5. h[0] = first
      BY <2>1 DEF Recursive
    <2>6. ASSUME NEW i \in 1 .. k + 1
          PROVE  h[i] = step[<<i, h[i - 1]>>]
      <3>1. CASE i = k + 1
        <4>1. h[i] = v /\ h[i - 1] = g[k]
          BY <3>1
        <4> QED
          BY <3>1, <4>1, Zenon DEF v
      <3>2. CASE i # k + 1
        BY <2>1, <3>2 DEF Recursive
      <3> QED
        BY <3>1, <3>2
    <2>7. Recursive(h, k + 1, first, step)
      BY <2>5, <2>6, Zenon DEF Recursive
    <2> QED
      BY <2>4, <2>7
  <1>3. n \in T
    <2> HIDE DEF T
    <2> QED
      BY <1>1, <1>2, Induct
  <1> QED
    BY <1>3
===============================================================================
