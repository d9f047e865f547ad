------------------------------ MODULE Extremes ------------------------------
(***************************************************************************)
(* Facts about naturals the other proofs rest on: least and greatest       *)
(* elements of sets, for the store's queries (ORDER BY ... LIMIT 1) and    *)
(* counters; what Min and Max of the community modules return; and, from   *)
(* the least element, counting up: induction and recursion along 0..n.     *)
(***************************************************************************)
EXTENDS Integers, FiniteSets, FiniteSetsExt, FiniteSetTheorems,
        WellFoundedInduction, TLAPS

\* A set of naturals that is not empty has a least element.
LEMMA LeastExists ==
  ASSUME NEW S \in SUBSET Nat, S # {}
  PROVE  \E x \in S : \A y \in S : x <= y
<1> DEFINE R == OpToRel(<, Nat)
<1>1. IsWellFoundedOn(R, Nat)
  BY NatLessThanWellFounded
<1> HIDE DEF R
<1>2. PICK x \in S : \A y \in S : <<y, x>> \notin R
  BY <1>1, WFMin, Zenon
<1>3. ASSUME NEW y \in S, y < x PROVE FALSE
  <2>1. y \in Nat /\ x \in Nat
    OBVIOUS
  <2>2. <<y, x>> \in R
    BY <1>3, <2>1 DEF R, OpToRel
  <2> QED BY <1>2, <2>2
<1>4. \A y \in S : y \in Nat /\ x \in Nat
  OBVIOUS
<1> QED BY <1>3, <1>4

\* A finite one has a greatest element too: one with the fewest above it.
LEMMA GreatestExists ==
  ASSUME NEW S \in SUBSET Nat, S # {}, IsFiniteSet(S)
  PROVE  \E x \in S : \A y \in S : y <= x
<1> DEFINE R == StrictSubsetOrdering(S)
           Above(x) == {y \in S : y > x}
           T == {Above(x) : x \in S}
<1>1. IsWellFoundedOn(R, FiniteSubsetsOf(S))
  BY FS_StrictSubsetOrderingWellFounded
<1>2. FiniteSubsetsOf(S) = SUBSET S
  BY FS_FiniteSubsetsOfFinite
<1>3. T \subseteq FiniteSubsetsOf(S)
  <2>1. \A x \in S : Above(x) \in SUBSET S
    OBVIOUS
  <2> QED BY <2>1, <1>2
<1>4. T # {}
  OBVIOUS
<1>5. PICK B \in T : \A C \in T : <<C, B>> \notin R
  <2> HIDE DEF T, R
  <2> QED BY <1>1, <1>3, <1>4, WFMin, Zenon
<1>6. PICK x \in S : B = Above(x)
  OBVIOUS
<1>7. \A y \in S : y \in Nat
  OBVIOUS
<1>8. ASSUME NEW y \in S, y > x PROVE FALSE
  <2>1. Above(y) \in T
    OBVIOUS
  <2>2. \A z \in Above(y) : z \in Above(x)
    BY <1>7, <1>8
  <2>3. y \in Above(x) /\ y \notin Above(y)
    BY <1>7, <1>8
  <2>4. Above(y) \in SUBSET S /\ Above(x) \in SUBSET S
    OBVIOUS
  <2> HIDE DEF Above
  <2>5. <<Above(y), Above(x)>> \in R
    BY <2>2, <2>3, <2>4 DEF StrictSubsetOrdering
  <2> HIDE DEF R, T
  <2> QED BY <2>1, <2>5, <1>5, <1>6
<1> QED BY <1>7, <1>8

\* Min returns the least element, ...
LEMMA MinIsLeast ==
  ASSUME NEW S \in SUBSET Nat, S # {}
  PROVE  Min(S) \in S /\ \A y \in S : Min(S) <= y
<1>1. PICK x \in S : \A y \in S : x <= y
  BY LeastExists
<1> QED BY <1>1 DEF Min

\* ... and Max the greatest, if there is one.
LEMMA MaxIsGreatest ==
  ASSUME NEW S \in SUBSET Nat, S # {}, IsFiniteSet(S)
  PROVE  Max(S) \in S /\ \A y \in S : y <= Max(S)
<1>1. PICK x \in S : \A y \in S : x >= y
  <2>1. PICK x \in S : \A y \in S : y <= x
    BY GreatestExists
  <2>2. \A y \in S : y \in Nat
    OBVIOUS
  <2> QED BY <2>1, <2>2
<1>2. Max(S) \in S /\ \A y \in S : Max(S) >= y
  BY <1>1 DEF Max
<1>3. \A y \in S : y \in Nat
  OBVIOUS
<1> QED BY <1>2, <1>3

-----------------------------------------------------------------------------
(* Counting up: induction and recursion along 0..n. *)

\* What holds of 0 and goes from each number to the next holds up to n.
LEMMA UpTo ==
  ASSUME NEW n \in Nat, NEW T, 0 \in T, \A i \in 1..n : i - 1 \in T => i \in T
  PROVE  0..n \subseteq T
<1> DEFINE Bad == {i \in 0..n : i \notin T}
<1>1. ASSUME Bad # {} PROVE FALSE
  <2>1. Bad \in SUBSET Nat
    OBVIOUS
  <2>2. PICK i \in Bad : \A j \in Bad : i <= j
    <3> HIDE DEF Bad
    <3> QED BY <1>1, <2>1, LeastExists
  <2>3. i \in 1..n /\ i - 1 \in 0..n
    OBVIOUS
  <2>4. i - 1 \in T
    BY <2>2, <2>3
  <2> QED BY <2>3, <2>4
<1> QED BY <1>1

\* f follows, from x on, the steps 1..n of the function G on the values S.
Follows(f, S, x, n, G) ==
  /\ f \in [0..n -> S]
  /\ f[0] = x /\ \A i \in 1..n : f[i] = G[<<i, f[i - 1]>>]

\* Such a recursion has a solution.
LEMMA StepwiseExists ==
  ASSUME NEW S, NEW x \in S, NEW n \in Nat, NEW G \in [(1..n) \X S -> S]
  PROVE  \E f : Follows(f, S, x, n, G)
<1> DEFINE Solves(f, m) ==
             /\ f \in [0..m -> S]
             /\ f[0] = x /\ \A i \in 1..m : f[i] = G[<<i, f[i - 1]>>]
           T == {m \in Nat : m <= n => \E f : Solves(f, m)}
<1>1. 0 \in T
  <2>1. Solves([i \in 0..0 |-> x], 0)
    OBVIOUS
  <2> QED BY <2>1
<1>2. ASSUME NEW m \in 1..n, m - 1 \in T PROVE m \in T
  <2>1. PICK f : Solves(f, m - 1)
    BY <1>2
  <2> DEFINE y == G[<<m, f[m - 1]>>]
             g == [i \in 0..m |-> IF i < m THEN f[i] ELSE y]
  <2>2. f[m - 1] \in S
    BY <2>1
  <2>3. y \in S
    BY <2>2
  <2>4. g \in [0..m -> S]
    <3> HIDE DEF y
    <3> QED BY <2>1, <2>3
  <2>5. g[0] = x
    BY <2>1
  <2>6. ASSUME NEW i \in 1..m PROVE g[i] = G[<<i, g[i - 1]>>]
    <3>1. CASE i < m
      <4>1. i \in 1..(m - 1) /\ i \in 0..m /\ i - 1 \in 0..m /\ i - 1 < m
        BY <3>1
      <4>2. g[i] = f[i] /\ g[i - 1] = f[i - 1]
        <5> HIDE DEF y
        <5> QED BY <3>1, <4>1
      <4> HIDE DEF g
      <4> QED BY <2>1, <4>1, <4>2
    <3>2. CASE i = m
      <4>1. m \in 0..m /\ m - 1 \in 0..m /\ m - 1 < m
        OBVIOUS
      <4>2. g[m] = y /\ g[m - 1] = f[m - 1]
        <5> HIDE DEF y
        <5> QED BY <4>1
      <4> HIDE DEF g
      <4> QED BY <3>2, <4>2
    <3> QED BY <3>1, <3>2
  <2>7. Solves(g, m)
    <3> HIDE DEF g
    <3> QED BY <2>4, <2>5, <2>6
  <2> HIDE DEF Solves
  <2> QED BY <2>7
<1>3. 0..n \subseteq T
  <2> HIDE DEF T
  <2> QED BY <1>1, <1>2, UpTo
<1>4. \E f : Solves(f, n)
  <2> HIDE DEF Solves
  <2>1. n \in 0..n
    OBVIOUS
  <2> QED BY <1>3, <2>1
<1> QED BY <1>4 DEF Follows
=============================================================================
