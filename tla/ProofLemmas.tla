---------------------------- MODULE ProofLemmas -----------------------------
(***************************************************************************)
(* Facts that the proofs about several components need and that have       *)
(* nothing to do with ag.                                                  *)
(***************************************************************************)
EXTENDS Integers, FiniteSetsExt, WellFoundedInduction, TLAPS

(* Induction: a set that holds 0, and with every number the next one,      *)
(* holds all the numbers.                                                  *)
LEMMA NatSetInduction ==
    ASSUME NEW S, 0 \in S, \A n \in Nat : n \in S => n + 1 \in S
    PROVE  Nat \subseteq S
<1> DEFINE less == {ss \in Nat \X Nat : ss[1] < ss[2]}
<1>1. IsWellFoundedOn(less, Nat)
  BY NatLessThanWellFounded DEF OpToRel
<1>2. SUFFICES ASSUME Nat \ S # {} PROVE FALSE
  OBVIOUS
<1>3. PICK x \in Nat \ S : \A y \in Nat \ S : <<y, x>> \notin less
  <2> HIDE DEF less
  <2>1. Nat \ S \subseteq Nat
    OBVIOUS
  <2> QED
    BY ONLY <1>1, <1>2, <2>1, WFMin, Zenon
<1>4. x # 0 /\ x - 1 \in Nat /\ x - 1 < x
  BY <1>3
<1>5. x - 1 \in S
  BY <1>3, <1>4
<1> QED
  BY <1>3, <1>4, <1>5

(* A set of numbers that is not empty has a least one.                     *)
LEMMA Least ==
    ASSUME NEW S \in SUBSET Nat, S # {}
    PROVE  \E x \in S : \A y \in S : x <= y
<1> DEFINE T == {n \in Nat : \A x \in S : n <= x}
<1>1. SUFFICES ASSUME \A x \in S : \E y \in S : y < x PROVE FALSE
  OBVIOUS
<1>2. 0 \in T
  OBVIOUS
<1>3. ASSUME NEW n \in Nat, n \in T PROVE n + 1 \in T
  <2>1. ASSUME NEW x \in S PROVE n + 1 <= x
    BY <1>1, <1>3
  <2> QED
    BY <2>1
<1> HIDE DEF T
<1>4. Nat \subseteq T
  BY <1>2, <1>3, NatSetInduction
<1>5. PICK x \in S : TRUE
  OBVIOUS
<1>6. x + 1 \in T
  BY <1>4
<1> QED
  BY <1>5, <1>6 DEF T

(* What is least and what is greatest of two.                              *)
LEMMA MinMax ==
    ASSUME NEW a \in Int, NEW b \in Int
    PROVE  /\ Min({a, b}) = IF a <= b THEN a ELSE b
           /\ Max({a, b}) = IF a <= b THEN b ELSE a
<1>1. ASSUME NEW x \in {a, b}, \A y \in {a, b} : x <= y
      PROVE  x = IF a <= b THEN a ELSE b
  BY <1>1
<1>2. ASSUME NEW x \in {a, b}, \A y \in {a, b} : x >= y
      PROVE  x = IF a <= b THEN b ELSE a
  BY <1>2
<1>3. /\ \E x \in {a, b} : \A y \in {a, b} : x <= y
      /\ \E x \in {a, b} : \A y \in {a, b} : x >= y
  OBVIOUS
<1>4. Min({a, b}) \in {a, b} /\ \A y \in {a, b} : Min({a, b}) <= y
  BY <1>3, Zenon DEF Min
<1>5. Max({a, b}) \in {a, b} /\ \A y \in {a, b} : Max({a, b}) >= y
  BY <1>3, Zenon DEF Max
<1> QED
  BY <1>1, <1>2, <1>4, <1>5

(* The least of some numbers, if they have a bound.                        *)
LEMMA LeastOf ==
    ASSUME NEW a \in Int, NEW S, S # {}, \A x \in S : x \in Int /\ x >= a
    PROVE  Min(S) \in S /\ \A x \in S : Min(S) <= x
<1> DEFINE T == {x - a : x \in S}
<1>1. T \in SUBSET Nat /\ T # {}
  OBVIOUS
<1>2. PICK t \in T : \A y \in T : t <= y
  BY <1>1, Least
<1>3. t + a \in S /\ \A x \in S : t + a <= x
  BY <1>2
<1> QED
  BY <1>3, Zenon DEF Min

(* The greatest of some numbers, if they have a bound.                     *)
LEMMA GreatestOf ==
    ASSUME NEW a \in Int, NEW S, S # {}, \A x \in S : x \in Int /\ x <= a
    PROVE  Max(S) \in S /\ \A x \in S : Max(S) >= x
<1> DEFINE T == {a - x : x \in S}
<1>1. T \in SUBSET Nat /\ T # {}
  OBVIOUS
<1>2. PICK t \in T : \A y \in T : t <= y
  BY <1>1, Least
<1>3. PICK z \in S : t = a - z
  OBVIOUS
<1>4. z \in S /\ \A x \in S : z >= x
  <2>1. \A x \in S : a - z <= a - x /\ x \in Int
    BY <1>2, <1>3
  <2> QED
    BY <2>1
<1> QED
  BY <1>4, Zenon DEF Max
=============================================================================
