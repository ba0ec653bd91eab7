----------------------------- MODULE Induction -----------------------------
(***************************************************************************)
(* Induction over the naturals, in the form the proofs of this project use *)
(* it: what fails for some natural fails for a least one.                  *)
(***************************************************************************)
EXTENDS Integers, FiniteSets, FiniteSetTheorems, TLAPS

(* A set of naturals that is not empty has a least element: the finite      *)
(* subsets of Nat are well founded, and 1..m grows with m.                  *)
LEMMA LeastNat ==
    ASSUME NEW T, T \subseteq Nat, T # {}
    PROVE  \E m \in T : \A n \in T : m <= n
<1> DEFINE Initials == {1..n : n \in T}
<1>1. Initials \subseteq FiniteSubsetsOf(Nat)
  <2>1. \A n \in T : 1..n \subseteq Nat /\ IsFiniteSet(1..n)
    BY FS_Interval
  <2> QED BY <2>1 DEF FiniteSubsetsOf
<1>2. Initials # {}
  OBVIOUS
<1> HIDE DEF Initials
<1>3. PICK V \in Initials : \A W \in Initials : ~(<<W, V>> \in StrictSubsetOrdering(Nat))
  BY <1>1, <1>2, FS_StrictSubsetOrderingWellFounded, WFMin
<1>4. \A W \in Initials : ~(W \subseteq V /\ W # V)
  BY <1>1, <1>3 DEF StrictSubsetOrdering, FiniteSubsetsOf
<1>5. PICK m \in T : V = 1..m
  BY DEF Initials
<1>6. ASSUME NEW n \in T, n < m PROVE FALSE
  <2>1. 1..n \in Initials
    BY DEF Initials
  <2>2. 1..n \subseteq 1..m /\ m \in 1..m /\ m \notin 1..n
    BY <1>6
  <2> QED BY <2>1, <2>2, <1>4, <1>5
<1> QED BY <1>6

=============================================================================
