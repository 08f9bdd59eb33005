---------------------------- MODULE NatRecursion ----------------------------
(***************************************************************************)
(* Induction on the naturals, and functions defined by recursion on an     *)
(* interval of them, in terms of sets and functions alone: the provers     *)
(* instantiate these with a set or a function of their own, which they     *)
(* cannot do with an operator.                                             *)
(*                                                                         *)
(* Induction comes from the pigeonhole principle.  If m is in no inductive *)
(* set S that has 0, the numbers up to m that are not in S each have their *)
(* predecessor among them, and m is no predecessor: more pigeons than      *)
(* holes, and none share.                                                  *)
(***************************************************************************)
EXTENDS Integers, FiniteSetTheorems, TLAPS

\* A set with 0 and with the successor of each of its numbers has all of them.
LEMMA NatSetInduction ==
    ASSUME NEW S, 0 \in S, \A n \in Nat : n \in S => n + 1 \in S
    PROVE  Nat \subseteq S
<1> SUFFICES ASSUME NEW m \in Nat, m \notin S
             PROVE  FALSE
  OBVIOUS
<1> DEFINE Missing == {n \in 0 .. m : n \notin S}
           Holes == Missing \ {m}
           Predecessor == [n \in Missing |-> n - 1]
<1>1. IsFiniteSet(Missing) /\ IsFiniteSet(Holes)
  <2>1. IsFiniteSet(0 .. m)
    BY FS_Interval
  <2> QED BY <2>1, FS_Subset
<1>2. Cardinality(Holes) < Cardinality(Missing)
  <2>1. Holes \subseteq Missing /\ Holes # Missing
    OBVIOUS
  <2>2. Cardinality(Holes) <= Cardinality(Missing) /\ Cardinality(Missing) # Cardinality(Holes)
    BY <1>1, <2>1, FS_Subset
  <2>3. Cardinality(Missing) \in Nat /\ Cardinality(Holes) \in Nat
    BY <1>1, FS_CardinalityType
  <2> QED BY <2>2, <2>3
<1>3. Predecessor \in [Missing -> Holes]
  OBVIOUS
<1>4. PICK x \in Missing, y \in Missing : x # y /\ Predecessor[x] = Predecessor[y]
  <2> HIDE DEF Missing, Holes, Predecessor
  <2> QED BY <1>1, <1>2, <1>3, FS_PigeonHole
<1> QED BY <1>4

\* The same, up to a bound.
LEMMA IntervalInduction ==
    ASSUME NEW n \in Nat, NEW S, 0 \in S, \A k \in 1 .. n : k - 1 \in S => k \in S
    PROVE  0 .. n \subseteq S
<1> DEFINE T == {k \in Nat : k <= n => k \in S}
<1>1. 0 \in T
  OBVIOUS
<1>2. ASSUME NEW k \in Nat, k \in T PROVE k + 1 \in T
  <2>1. CASE k + 1 <= n
    <3>1. k + 1 \in 1 .. n /\ (k + 1) - 1 = k /\ k \in S
      BY <1>2, <2>1
    <3> QED BY <3>1
  <2>2. CASE ~(k + 1 <= n)
    BY <2>2
  <2> QED BY <2>1, <2>2
<1>3. Nat \subseteq T
  <2> HIDE DEF T
  <2> QED BY <1>1, <1>2, NatSetInduction
<1> QED BY <1>3

\* g has a first value, and a step from each value to the next.
Follows(g, n, base, step) ==
    g[0] = base /\ \A k \in 1 .. n : g[k] = step[k][g[k - 1]]

\* There is such a function, whatever the steps.
LEMMA RecursionOnInterval ==
    ASSUME NEW n \in Nat, NEW X, NEW base \in X, NEW step \in [1 .. n -> [X -> X]]
    PROVE  \E g \in [0 .. n -> X] : Follows(g, n, base, step)
<1> DEFINE S == {m \in 0 .. n : \E g \in [0 .. m -> X] : Follows(g, m, base, step)}
<1>1. 0 \in S
  <2> DEFINE g == [k \in 0 .. 0 |-> base]
  <2>1. g \in [0 .. 0 -> X] /\ Follows(g, 0, base, step)
    BY DEF Follows
  <2>2. 0 \in 0 .. n
    OBVIOUS
  <2> HIDE DEF g
  <2> QED BY <2>1, <2>2
<1>2. ASSUME NEW m \in 1 .. n, m - 1 \in S PROVE m \in S
  <2>1. PICK g \in [0 .. m - 1 -> X] : Follows(g, m - 1, base, step)
    BY <1>2
  <2>2. g[m - 1] \in X /\ step[m][g[m - 1]] \in X
    BY <2>1
  <2> DEFINE h == [k \in 0 .. m |-> IF k = m THEN step[m][g[m - 1]] ELSE g[k]]
  <2>3. h \in [0 .. m -> X]
    BY <2>1, <2>2
  <2>4. h[0] = base
    BY <2>1 DEF Follows
  <2>5. ASSUME NEW k \in 1 .. m PROVE h[k] = step[k][h[k - 1]]
    <3>1. h[k - 1] = g[k - 1]
      OBVIOUS
    <3>2. CASE k = m
      <4>1. h[k] = step[k][g[k - 1]]
        BY <3>2
      <4> QED BY <3>1, <4>1
    <3>3. CASE k # m
      <4>1. k \in 1 .. m - 1 /\ h[k] = g[k]
        BY <3>3
      <4> QED BY <2>1, <3>1, <4>1 DEF Follows
    <3> QED BY <3>2, <3>3
  <2> HIDE DEF h
  <2> QED BY <2>3, <2>4, <2>5 DEF Follows
<1>3. n \in S
  <2>1. 0 .. n \subseteq S
    <3> HIDE DEF S
    <3> QED BY <1>1, <1>2, IntervalInduction
  <2> HIDE DEF S
  <2> QED BY <2>1
<1> QED BY <1>3

\* And each of its values is one, whatever other recursion has them.
LEMMA RecursionStaysIn ==
    ASSUME NEW n \in Nat, NEW X, NEW base \in X, NEW step \in [1 .. n -> [X -> X]],
           NEW g, Follows(g, n, base, step)
    PROVE  \A k \in 0 .. n : g[k] \in X
<1> DEFINE S == {k \in 0 .. n : g[k] \in X}
<1>1. 0 \in S
  BY DEF Follows
<1>2. ASSUME NEW k \in 1 .. n, k - 1 \in S PROVE k \in S
  BY <1>2 DEF Follows
<1>3. 0 .. n \subseteq S
  <2> HIDE DEF S
  <2> QED BY <1>1, <1>2, IntervalInduction
<1> QED BY <1>3

===========================================================================
