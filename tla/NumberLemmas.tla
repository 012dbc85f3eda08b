---------------------------- MODULE NumberLemmas ----------------------------
(***************************************************************************)
(* A least and a greatest number, which the other proofs pick: the last    *)
(* week, version, row or press.                                            *)
(***************************************************************************)
EXTENDS Integers, WellFoundedInduction, TLAPS

\* The order of the natural numbers as a set of pairs.
Smaller == {p \in Nat \X Nat : p[1] < p[2]}

LEMMA LeastExists ==
  ASSUME NEW S \in SUBSET Nat, S # {}
  PROVE  \E m \in S : \A n \in S : m <= n
<1>1. IsWellFoundedOn(Smaller, Nat)
  BY NatLessThanWellFounded DEF OpToRel, Smaller
<1>2. PICK m \in S : \A n \in S : <<n, m>> \notin Smaller
  BY <1>1, WFMin
<1>3. ASSUME NEW n \in S PROVE m <= n
  <2>1. m \in Nat /\ n \in Nat /\ <<n, m>> \notin Smaller
    BY <1>2
  <2>2. <<n, m>> \in Nat \X Nat /\ <<n, m>>[1] = n /\ <<n, m>>[2] = m
    BY <2>1
  <2>3. ~ (n < m)
    BY <2>1, <2>2 DEF Smaller
  <2> QED
    BY <2>1, <2>3
<1> QED
  BY <1>3

LEMMA GreatestExists ==
  ASSUME NEW b \in Nat, NEW S \in SUBSET (0..b), S # {}
  PROVE  \E m \in S : \A n \in S : n <= m
<1> DEFINE T == {b - n : n \in S}
<1>1. T \in SUBSET Nat /\ T # {}
  <2>1. T \subseteq Nat
    OBVIOUS
  <2> QED
    BY <2>1
<1>2. PICK least \in T : \A t \in T : least <= t
  <2> HIDE DEF T
  <2> QED
    BY <1>1, LeastExists
<1>3. PICK m \in S : least = b - m
  OBVIOUS
<1>4. ASSUME NEW n \in S PROVE n <= m
  <2>1. least <= b - n
    BY <1>2
  <2> QED
    BY <1>3, <2>1
<1> QED
  BY <1>4
=============================================================================
