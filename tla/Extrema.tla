------------------------------ MODULE Extrema ------------------------------
(***************************************************************************)
(* Least and greatest elements of sets of numbers, as Min and Max pick     *)
(* them: the versions, LSNs, slots and ids of the specifications.          *)
(***************************************************************************)
EXTENDS Integers, FiniteSetsExt, WellFoundedInduction, TLAPS

\* A nonempty set of naturals has a least element, and Min picks it.
LEMMA LeastNat ==
  ASSUME NEW S, S \subseteq Nat, S # {}
  PROVE  Min(S) \in S /\ \A y \in S : Min(S) <= y
<1>1. PICK m \in S : \A y \in S : ~ (<<y, m>> \in OpToRel(<, Nat))
  BY NatLessThanWellFounded, WFMin
<1>2. \A y \in S : ~ (y < m)
  BY <1>1 DEF OpToRel
<1>3. \A y \in S : m <= y
  BY <1>2
<1> QED BY <1>3 DEF Min

\* A nonempty set of naturals with an upper bound has a greatest element, and
\* Max picks it.
LEMMA BoundedMax ==
  ASSUME NEW n \in Nat, NEW S, S \subseteq 0..n, S # {}
  PROVE  Max(S) \in S /\ \A y \in S : y <= Max(S)
PROOF
<1> DEFINE T == {n - x : x \in S}
<1>1. T \subseteq Nat /\ T # {}
  OBVIOUS
<1>2. PICK m \in T : \A y \in T : ~ (<<y, m>> \in OpToRel(<, Nat))
  <2> HIDE DEF T
  <2> QED BY <1>1, NatLessThanWellFounded, WFMin
<1>3. \A y \in T : ~ (y < m)
  BY <1>1, <1>2 DEF OpToRel
<1>4. PICK x \in S : m = n - x
  OBVIOUS
<1>5. \A y \in S : y <= x
  <2> SUFFICES ASSUME NEW y \in S PROVE y <= x
    OBVIOUS
  <2>1. n - y \in T
    OBVIOUS
  <2>2. ~ (n - y < n - x)
    BY <2>1, <1>3, <1>4
  <2>3. x \in 0..n /\ y \in 0..n
    OBVIOUS
  <2> HIDE DEF T
  <2> QED BY <2>2, <2>3
<1>6. \E z \in S : \A y \in S : z >= y
  BY <1>5
<1> QED BY <1>6 DEF Max
=============================================================================
