-------------------------- MODULE RecursionLemmas --------------------------
(***************************************************************************)
(* Induction and recursion in a form that can be cited: over sets and         *)
(* functions instead of operators.                                           *)
(***************************************************************************)
EXTENDS FiniteSetTheorems, TLAPS

\* A longer interval holds a shorter one.
LEMMA IntervalStep ==
  ASSUME NEW x \in Nat, NEW y \in Nat, x < y
  PROVE  0 .. x \subseteq 0 .. y /\ 0 .. x # 0 .. y
<1>1. y \in 0 .. y /\ y \notin 0 .. x OBVIOUS
<1>2. 0 .. x \subseteq 0 .. y OBVIOUS
<1> QED BY <1>1, <1>2

\* Induction over the naturals, for a set: intervals are finite sets, and of the intervals that end
\* outside S one would be the smallest.
LEMMA NatSetInduction ==
  ASSUME NEW S, 0 \in S, \A n \in Nat : n \in S => n + 1 \in S
  PROVE  Nat \subseteq S
<1>1. SUFFICES ASSUME NEW z \in Nat, z \notin S PROVE FALSE OBVIOUS
<1> DEFINE T == {0 .. x : x \in Nat \ S}
           R == StrictSubsetOrdering(Nat)
           F == FiniteSubsetsOf(Nat)
<1>2. IsWellFoundedOn(R, F)
  BY FS_StrictSubsetOrderingWellFounded
<1>3. T \subseteq F
  <2> SUFFICES ASSUME NEW x \in Nat PROVE 0 .. x \in F OBVIOUS
  <2>1. IsFiniteSet(0 .. x) BY FS_Interval
  <2> QED BY <2>1 DEF FiniteSubsetsOf
<1>4. T # {} BY <1>1
<1>5. \E t \in T : \A u \in T : ~ (<<u, t>> \in R)
  <2> HIDE DEF T, R, F
  <2> QED BY <1>2, <1>3, <1>4, WFMin
<1>6. PICK x \in Nat \ S : \A u \in T : ~ (<<u, 0 .. x>> \in R)
  BY <1>5
<1>7. x - 1 \in Nat \ S
  <2>1. x # 0 OBVIOUS
  <2>2. x - 1 \in Nat /\ (x - 1) + 1 = x BY <2>1
  <2> QED BY <2>2
<1>8. 0 .. (x - 1) \subseteq 0 .. x /\ 0 .. (x - 1) # 0 .. x
  BY <1>7, IntervalStep
<1>9. <<0 .. (x - 1), 0 .. x>> \in R
  BY <1>8 DEF StrictSubsetOrdering
<1>10. 0 .. (x - 1) \in T BY <1>7
<1> QED BY <1>6, <1>9, <1>10

\* Induction over an interval.
LEMMA IntervalInduction ==
  ASSUME NEW n \in Nat, NEW S, 0 \in S, \A i \in 1 .. n : i - 1 \in S => i \in S
  PROVE  0 .. n \subseteq S
<1> DEFINE T == {m \in Nat : m <= n => m \in S}
<1>1. 0 \in T OBVIOUS
<1>2. ASSUME NEW m \in Nat, m \in T PROVE m + 1 \in T
  <2>1. CASE m + 1 <= n
    <3>1. m + 1 \in 1 .. n /\ (m + 1) - 1 = m /\ m \in S BY <1>2, <2>1
    <3>2. m + 1 \in S BY <3>1
    <3> QED BY <3>2
  <2> QED BY <2>1
<1>3. Nat \subseteq T
  <2> HIDE DEF T
  <2> QED BY <1>1, <1>2, NatSetInduction
<1> QED BY <1>3

\* Of natural numbers there is a smallest.
LEMMA SmallestExists ==
  ASSUME NEW I \in SUBSET Nat, I # {}
  PROVE  \E x \in I : \A y \in I : x <= y
<1> SUFFICES ASSUME \A x \in I : \E y \in I : y < x PROVE FALSE
  OBVIOUS
<1> DEFINE S == {n \in Nat : \A x \in I : n < x}
<1>1. 0 \in S
  <2> SUFFICES ASSUME NEW x \in I PROVE 0 < x OBVIOUS
  <2> PICK y \in I : y < x OBVIOUS
  <2> QED OBVIOUS
<1>2. ASSUME NEW n \in Nat, n \in S PROVE n + 1 \in S
  <2> SUFFICES ASSUME NEW x \in I PROVE n + 1 < x OBVIOUS
  <2> PICK y \in I : y < x OBVIOUS
  <2>1. n < y BY <1>2
  <2> QED BY <2>1
<1>3. Nat \subseteq S
  <2> HIDE DEF S
  <2> QED BY <1>1, <1>2, NatSetInduction
<1>4. PICK x \in I : TRUE OBVIOUS
<1>5. x \in S BY <1>3, <1>4
<1> QED BY <1>5

\* g starts with b and follows the steps St.
Recursion(g, n, b, St) == g[0] = b /\ \A i \in 1 .. n : g[i] = St[i][g[i-1]]

\* A recursive function over an interval exists: St holds its steps.
LEMMA RecursionExists ==
  ASSUME NEW n \in Nat, NEW X, NEW b \in X, NEW St \in [1 .. n -> [X -> X]]
  PROVE  \E g \in [0 .. n -> X] : Recursion(g, n, b, St)
<1> DEFINE Good(m) == \E g \in [0 .. m -> X] : g[0] = b /\ \A i \in 1 .. m : g[i] = St[i][g[i-1]]
           S == {m \in Nat : m <= n => Good(m)}
<1>1. 0 \in S
  <2> DEFINE g == [i \in 0 .. 0 |-> b]
  <2>1. g \in [0 .. 0 -> X] /\ g[0] = b /\ \A i \in 1 .. 0 : g[i] = St[i][g[i-1]]
    OBVIOUS
  <2> QED BY <2>1
<1>2. ASSUME NEW m \in Nat, m \in S PROVE m + 1 \in S
  <2>1. CASE ~(m + 1 <= n) BY <2>1
  <2>2. CASE m + 1 <= n
    <3>1. PICK g \in [0 .. m -> X] : g[0] = b /\ \A i \in 1 .. m : g[i] = St[i][g[i-1]]
      BY <1>2, <2>2
    <3> DEFINE h == [i \in 0 .. (m + 1) |-> IF i = m + 1 THEN St[m + 1][g[m]] ELSE g[i]]
    <3>2. St[m + 1][g[m]] \in X
      <4>1. m + 1 \in 1 .. n /\ g[m] \in X BY <3>1, <2>2
      <4> QED BY <4>1
    <3>3. \A i \in 0 .. m : i \in 0 .. (m + 1) /\ i # m + 1 OBVIOUS
    <3>4. h \in [0 .. (m + 1) -> X]
      <4> SUFFICES ASSUME NEW i \in 0 .. (m + 1) PROVE h[i] \in X OBVIOUS
      <4>1. CASE i = m + 1 BY <4>1, <3>2
      <4>2. CASE i # m + 1
        <5>1. i \in 0 .. m BY <4>2
        <5> QED BY <5>1, <4>2
      <4> QED BY <4>1, <4>2
    <3>5. h[0] = b BY <3>1, <3>3
    <3>6. \A i \in 1 .. (m + 1) : h[i] = St[i][h[i-1]]
      <4> SUFFICES ASSUME NEW i \in 1 .. (m + 1) PROVE h[i] = St[i][h[i-1]] OBVIOUS
      <4>0. i - 1 \in 0 .. m /\ h[i-1] = g[i-1] BY <3>3
      <4>1. CASE i = m + 1 BY <4>1, <4>0
      <4>2. CASE i # m + 1
        <5>1. i \in 1 .. m BY <4>2
        <5>2. h[i] = g[i] BY <5>1
        <5> QED BY <5>1, <5>2, <3>1, <4>0
      <4> QED BY <4>1, <4>2
    <3> HIDE DEF h
    <3>7. Good(m + 1) BY <3>4, <3>5, <3>6
    <3> QED BY <3>7
  <2> QED BY <2>1, <2>2
<1>3. Nat \subseteq S
  <2> HIDE DEF S
  <2> QED BY <1>1, <1>2, NatSetInduction
<1>4. Good(n) BY <1>3
<1> QED BY <1>4 DEF Recursion
=============================================================================
