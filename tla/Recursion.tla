------------------------------ MODULE Recursion ------------------------------
(***************************************************************************)
(* Induction and recursion over the naturals up to n in a form that the    *)
(* first-order provers can use: about sets and functions instead of        *)
(* operators.                                                              *)
(***************************************************************************)
EXTENDS Integers, WellFoundedInduction, TLAPS

(* The least number principle. *)
LEMMA LeastOf ==
  ASSUME NEW T \in SUBSET Nat, T # {}
  PROVE  \E x \in T : \A y \in T : x <= y
<1> DEFINE R == OpToRel(<, Nat)
<1>1. IsWellFoundedOn(R, Nat)
  BY NatLessThanWellFounded
<1>2. \A x, y \in Nat : x < y => <<x, y>> \in R
  BY DEF OpToRel
<1> HIDE DEF R
<1>3. PICK x \in T : \A y \in T : ~ (<<y, x>> \in R)
  BY <1>1, WFMin
<1>4. \A y \in T : x \in Nat /\ y \in Nat /\ ~ (y < x)
  BY <1>2, <1>3
<1>5. \A y \in T : x <= y
  BY <1>4
<1> QED BY <1>5

(* A set that has 0 and, with each number below n, the next one.           *)
LEMMA StepsReach ==
  ASSUME NEW n \in Nat, NEW T, 0 \in T,
         \A k \in 1 .. n : k - 1 \in T => k \in T
  PROVE  0 .. n \subseteq T
<1> DEFINE Out == (0 .. n) \ T
<1>1. CASE Out = {}
  BY <1>1
<1>2. CASE Out # {}
  <2>1. PICK k \in Out : \A y \in Out : k <= y
    <3>1. Out \in SUBSET Nat
      OBVIOUS
    <3> HIDE DEF Out
    <3> QED BY <1>2, <3>1, LeastOf
  <2>2. k \in 1 .. n /\ k - 1 \in 0 .. n /\ ~ (k <= k - 1)
    OBVIOUS
  <2>3. k - 1 \in T
    BY <2>1, <2>2
  <2> QED BY <2>2, <2>3
<1> QED BY <1>1, <1>2

(* A function defined step by step has a value at every step.              *)
LEMMA StepsExist ==
  ASSUME NEW S, NEW s \in S, NEW n \in Nat, NEW F \in [1 .. n -> [S -> S]]
  PROVE  \E a \in [0 .. n -> S] : a[0] = s /\ \A k \in 1 .. n : a[k] = F[k][a[k - 1]]
<1> DEFINE Good(a, m) == a[0] = s /\ \A k \in 1 .. m : a[k] = F[k][a[k - 1]]
           T == {m \in 0 .. n : \E a \in [0 .. m -> S] : Good(a, m)}
<1>1. 0 \in T
  <2> DEFINE one == [k \in 0 .. 0 |-> s]
  <2>1. one \in [0 .. 0 -> S] /\ Good(one, 0)
    OBVIOUS
  <2> HIDE DEF one, Good
  <2> QED BY <2>1
<1>2. ASSUME NEW m \in 1 .. n, m - 1 \in T  PROVE m \in T
  <2>1. PICK a \in [0 .. m - 1 -> S] : Good(a, m - 1)
    BY <1>2
  <2> HIDE DEF Good
  <2> DEFINE b == [i \in 0 .. m |-> IF i = m THEN F[m][a[m - 1]] ELSE a[i]]
  <2>2. /\ m \in Nat /\ m # 0 /\ m - 1 \in 0 .. m - 1 /\ m - 1 # m /\ 0 \in 0 .. m - 1
        /\ 0 .. m = (0 .. m - 1) \cup {m} /\ m \notin 0 .. m - 1
        /\ \A i \in 1 .. m : i # m => i \in 1 .. m - 1 /\ i - 1 \in 0 .. m - 1
    OBVIOUS
  <2>3. F[m][a[m - 1]] \in S
    BY <2>2
  <2>4. b \in [0 .. m -> S] /\ b[m] = F[m][a[m - 1]] /\ \A i \in 0 .. m - 1 : b[i] = a[i]
    BY <2>2, <2>3
  <2> HIDE DEF b
  <2>5. Good(b, m)
    <3>1. b[0] = s
      BY <2>1, <2>2, <2>4 DEF Good
    <3>2. ASSUME NEW i \in 1 .. m PROVE b[i] = F[i][b[i - 1]]
      <4>1. CASE i = m
        BY <2>2, <2>4, <4>1
      <4>2. CASE i # m
        <5>1. i \in 1 .. m - 1 /\ i - 1 \in 0 .. m - 1 /\ i \in 0 .. m - 1
          BY <2>2, <4>2
        <5>2. a[i] = F[i][a[i - 1]]
          BY <2>1, <5>1 DEF Good
        <5> QED BY <2>4, <5>1, <5>2
      <4> QED BY <4>1, <4>2
    <3> QED BY <3>1, <3>2 DEF Good
  <2> QED BY <2>2, <2>4, <2>5
<1> HIDE DEF T
<1>3. n \in T
  <2>1. n \in 0 .. n
    OBVIOUS
  <2> QED BY <1>1, <1>2, <2>1, StepsReach
<1> QED BY <1>3 DEF T
=============================================================================
