------------------------------ MODULE WellOrder ------------------------------
(***************************************************************************)
(* The least and the greatest element of a set of natural numbers, and     *)
(* induction over a set instead of a predicate.  They follow from the      *)
(* library's theorem that a well-founded relation has minimal elements.    *)
(***************************************************************************)
EXTENDS Integers, WellFoundedInduction, TLAPS

\* Whatever positions a search of the code matches, one is the first.
LEMMA LeastNat ==
  ASSUME NEW T \in SUBSET Nat, T # {} PROVE \E m \in T : \A x \in T : m <= x
<1> DEFINE R == OpToRel(<, Nat)
<1>1. IsWellFoundedOn(R, Nat)
  BY NatLessThanWellFounded
<1>2. \A x, y \in T : y < x => <<y, x>> \in R
  BY DEF OpToRel
<1> HIDE DEF R
<1>3. PICK m \in T : \A x \in T : <<x, m>> \notin R
  BY <1>1, WFMin
<1>4. \A x \in T : ~ (x < m)
  BY <1>2, <1>3
<1>5. m \in Nat /\ \A x \in T : x \in Nat
  OBVIOUS
<1>6. \A x \in T : m <= x
  BY <1>4, <1>5
<1> QED
  BY <1>6

\* Whatever numbers below a bound there are (of attempts, say), one is the last.
LEMMA GreatestNat ==
  ASSUME NEW T \in SUBSET Nat, T # {}, NEW b \in Nat, \A x \in T : x <= b
  PROVE  \E m \in T : \A x \in T : x <= m
<1> DEFINE D == {d \in Nat : b - d \in T}
<1>1. \A x \in T : b - x \in D
  <2> SUFFICES ASSUME NEW x \in T PROVE b - x \in D
    OBVIOUS
  <2>1. x \in Nat /\ x <= b
    OBVIOUS
  <2>2. b - x \in Nat /\ b - (b - x) = x
    BY <2>1
  <2> QED
    BY <2>2
<1>2. D # {} /\ D \in SUBSET Nat
  BY <1>1
<1>3. PICK d \in D : \A e \in D : d <= e
  BY <1>2, LeastNat
<1>4. b - d \in T /\ d \in Nat
  OBVIOUS
<1>5. \A x \in T : d <= b - x /\ x \in Nat
  BY <1>1, <1>3
<1>6. \A x \in T : x <= b - d
  BY <1>4, <1>5
<1> QED
  BY <1>4, <1>6

\* What holds of 0 and is handed on to the next number holds of every number.
LEMMA SetInduction ==
  ASSUME NEW T, 0 \in T, \A n \in Nat : n \in T => n + 1 \in T PROVE Nat \subseteq T
<1> SUFFICES ASSUME Nat \ T # {} PROVE FALSE
  OBVIOUS
<1>1. PICK m \in Nat \ T : \A x \in Nat \ T : m <= x
  BY LeastNat
<1>2. m # 0 /\ m - 1 \in Nat
  BY <1>1
<1>3. m - 1 \in T
  BY <1>1, <1>2
<1> QED
  BY <1>2, <1>3
=============================================================================
