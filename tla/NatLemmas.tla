------------------------------ MODULE NatLemmas ------------------------------
(* Least and greatest elements, which the models' CHOOSE expressions take.   *)
EXTENDS Integers, FiniteSetTheorems, WellFoundedInduction, TLAPS

(* A nonempty set of naturals has a least element: the intervals 0..n are    *)
(* well-founded under inclusion.                                             *)
LEMMA Least ==
    ASSUME NEW T \in SUBSET Nat, T # {}
    PROVE  \E x \in T : \A y \in T : x <= y
<1> DEFINE R == StrictSubsetOrdering(Nat)
           D == {0..n : n \in T}
<1>1. IsWellFoundedOn(R, FiniteSubsetsOf(Nat))
  BY FS_StrictSubsetOrderingWellFounded
<1>2. D \subseteq FiniteSubsetsOf(Nat) /\ D # {}
  <2>1. \A n \in Nat : IsFiniteSet(0..n) /\ 0..n \subseteq Nat
    BY FS_Interval
  <2> QED  BY <2>1 DEF FiniteSubsetsOf
<1> HIDE DEF R, D
<1>3. PICK d \in D : \A e \in D : <<e, d>> \notin R
  BY <1>1, <1>2, WFMin
<1>4. PICK x \in T : d = 0..x
  BY DEF D
<1>5. ASSUME NEW y \in T, y < x PROVE FALSE
  <2>1. x \in 0..x /\ x \notin 0..y /\ 0..y \subseteq 0..x
    BY <1>5
  <2>2. 0..y \in D /\ <<0..y, d>> \in R
    BY <1>4, <2>1 DEF D, R, StrictSubsetOrdering
  <2> QED  BY <1>3, <2>2
<1> QED  BY <1>5

(* A nonempty finite set of naturals has a greatest element: a smallest set  *)
(* without one would not be one after losing any element.                    *)
LEMMA Greatest ==
    ASSUME NEW T \in SUBSET Nat, T # {}, IsFiniteSet(T)
    PROVE  \E x \in T : \A y \in T : y <= x
<1> DEFINE Has(S) == \E x \in S : \A y \in S : y <= x
           R == StrictSubsetOrdering(Nat)
           D == {S \in FiniteSubsetsOf(Nat) : S # {} /\ ~Has(S)}
<1> SUFFICES ASSUME ~Has(T) PROVE FALSE
  OBVIOUS
<1>1. IsWellFoundedOn(R, FiniteSubsetsOf(Nat))
  BY FS_StrictSubsetOrderingWellFounded
<1>2. D \subseteq FiniteSubsetsOf(Nat) /\ T \in D
  BY DEF FiniteSubsetsOf
<1>3. PICK d \in D : \A e \in D : <<e, d>> \notin R
  <2> HIDE DEF D, R
  <2> QED  BY <1>1, <1>2, WFMin
<1>4. d \in SUBSET Nat /\ IsFiniteSet(d) /\ d # {} /\ ~Has(d)
  BY DEF FiniteSubsetsOf
<1>5. PICK x \in d : TRUE
  BY <1>4
<1>6. IsFiniteSet(d \ {x}) /\ d \ {x} \in FiniteSubsetsOf(Nat)
  BY <1>4, FS_RemoveElement DEF FiniteSubsetsOf
<1>7. <<d \ {x}, d>> \in R
  BY <1>4, <1>5 DEF StrictSubsetOrdering
<1>8. d \ {x} = {} \/ Has(d \ {x})
  BY <1>3, <1>6, <1>7
<1>9. Has(d)
  <2>1. CASE d \ {x} = {}
    BY <1>4, <1>5, <2>1
  <2>2. CASE Has(d \ {x})
    <3>1. PICK m \in d \ {x} : \A y \in d \ {x} : y <= m
      BY <2>2
    <3>2. CASE x <= m
      BY <1>4, <3>1, <3>2
    <3>3. CASE m < x
      BY <1>4, <1>5, <3>1, <3>3
    <3> QED  BY <1>4, <1>5, <3>1, <3>2, <3>3
  <2> QED  BY <1>8, <2>1, <2>2
<1> QED  BY <1>4, <1>9

(* The values of a function on a finite set are finitely many.               *)
LEMMA FiniteImage ==
    ASSUME NEW S, IsFiniteSet(S), NEW V, NEW f \in [S -> V]
    PROVE  IsFiniteSet({f[x] : x \in S})
<1> DEFINE T == {f[x] : x \in S}
<1>1. f \in Surjection(S, T)
  BY DEF Surjection
<1> QED  BY <1>1, FS_Surjection
=============================================================================
