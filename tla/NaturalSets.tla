----------------------------- MODULE NaturalSets -----------------------------
(***************************************************************************)
(* What the proofs need of the order of the natural numbers.               *)
(***************************************************************************)
EXTENDS Integers, FiniteSets, FiniteSetTheorems, TLAPS

(* A set of naturals has a least element: the least in a set of intervals  *)
(* is that of its bound.                                                   *)
LEMMA Least ==
    ASSUME NEW S, S \subseteq Nat, S # {}
    PROVE  \E x \in S : \A y \in S : x <= y
<1> DEFINE T == {0..n : n \in S}
<1>1. T \subseteq FiniteSubsetsOf(Nat)
  <2>1. ASSUME NEW n \in S PROVE 0..n \in SUBSET Nat /\ IsFiniteSet(0..n)
    <3>1. IsFiniteSet(0..n)
      BY FS_Interval
    <3> QED BY <3>1
  <2> QED BY <2>1 DEF FiniteSubsetsOf
<1>2. T # {}
  OBVIOUS
<1>3. PICK t \in T : \A u \in T : <<u, t>> \notin StrictSubsetOrdering(Nat)
  <2> HIDE DEF T
  <2> QED BY <1>1, <1>2, FS_StrictSubsetOrderingWellFounded, WFMin
<1>4. PICK x \in S : t = 0..x
  OBVIOUS
<1>5. ASSUME NEW y \in S, ~(x <= y) PROVE FALSE
  <2>1. 0..y \in T
    OBVIOUS
  <2>2. x \in Nat /\ y \in Nat /\ y < x
    BY <1>5
  <2>3. 0..y \in SUBSET Nat /\ 0..x \in SUBSET Nat /\ 0..y \subseteq 0..x
    BY <2>2
  <2>4. x \in 0..x /\ x \notin 0..y
    BY <2>2
  <2>5. <<0..y, 0..x>> \in StrictSubsetOrdering(Nat)
    <3> DEFINE a == 0..y
               b == 0..x
    <3>1. a \in SUBSET Nat /\ b \in SUBSET Nat /\ a \subseteq b /\ a # b
      BY <2>3, <2>4
    <3> HIDE DEF a, b
    <3>2. <<a, b>> \in StrictSubsetOrdering(Nat)
      BY <3>1 DEF StrictSubsetOrdering
    <3> QED BY <3>2 DEF a, b
  <2> QED BY <1>3, <1>4, <2>1, <2>5
<1> QED BY <1>5

(* Induction, over a set in the place of a predicate.                      *)
LEMMA InductiveSet ==
    ASSUME NEW S, 0 \in S, \A n \in Nat : n \in S => n + 1 \in S
    PROVE  \A n \in Nat : n \in S
<1>1. ASSUME NEW m \in Nat, m \notin S PROVE FALSE
  <2> DEFINE T == {n \in Nat : n \notin S}
  <2>1. T \subseteq Nat /\ T # {}
    BY <1>1
  <2>2. \E x \in T : \A y \in T : x <= y
    <3> HIDE DEF T
    <3> QED BY <2>1, Least
  <2>3. PICK x \in T : \A y \in T : x <= y
    BY <2>2
  <2>4. x # 0 /\ x - 1 \in Nat
    OBVIOUS
  <2>5. x - 1 \in S
    BY <2>3, <2>4
  <2> QED BY <2>4, <2>5
<1> QED BY <1>1
==============================================================================
