----------------------------- MODULE OrderLemmas -----------------------------
(***************************************************************************)
(* Facts about sets of natural numbers that the proofs of several          *)
(* components rest on.                                                     *)
(***************************************************************************)
EXTENDS Integers, FiniteSetTheorems, WellFoundedInduction, TLAPS

(* A non-empty set of naturals has a smallest element, from the             *)
(* well-foundedness of < and without an induction rule.                     *)
LEMMA SmallestExists ==
  ASSUME NEW S \in SUBSET Nat, S # {}
  PROVE  \E i \in S : \A j \in S : i <= j
  <1>. DEFINE R == OpToRel(<, Nat)
  <1>1. \A x, y \in Nat : x < y => <<x, y>> \in R
    BY DEF OpToRel
  <1>2. IsWellFoundedOn(R, Nat)  BY NatLessThanWellFounded
  <1>. HIDE DEF R
  <1>3. PICK i \in S : \A j \in S : ~(<<j, i>> \in R)
    BY <1>2, WFMin
  <1>4. \A j \in S : ~(j < i)  BY <1>1, <1>3
  <1>. QED  BY <1>4

(* A non-empty set of numbers up to n has a largest element.                *)
LEMMA LargestExists ==
  ASSUME NEW n \in Nat, NEW S \in SUBSET (1..n), S # {}
  PROVE  \E i \in S : \A j \in S : j <= i
  <1>. DEFINE T == {n - i : i \in S}
  <1>1. T \in SUBSET Nat
    <2>1. \A i \in 1..n : n - i \in Nat  OBVIOUS
    <2>. QED  BY <2>1
  <1>2. T # {}  OBVIOUS
  <1>3. PICK k \in T : \A m \in T : k <= m
    BY <1>1, <1>2, SmallestExists
  <1>4. PICK i \in S : k = n - i
    OBVIOUS
  <1>5. \A j \in S : n - i <= n - j
    BY <1>3, <1>4
  <1>. QED  BY <1>5

(* A page of a table: the elements of S with fewer than limit elements      *)
(* before them are at most limit.                                           *)
LEMMA PageIsLimited ==
  ASSUME NEW n \in Nat, NEW S \in SUBSET (1..n), NEW limit \in Nat \ {0}
  PROVE  LET page == {d \in S : Cardinality({e \in S : e < d}) < limit}
         IN  IsFiniteSet(page) /\ Cardinality(page) <= limit
  <1>. DEFINE before(d) == {e \in S : e < d}
              page == {d \in S : Cardinality(before(d)) < limit}
  <1>1. IsFiniteSet(1..n)  BY FS_Interval
  <1>2. \A T \in SUBSET S : IsFiniteSet(T) /\ Cardinality(T) \in Nat
    BY <1>1, FS_Subset, FS_CardinalityType
  <1>3. \A d \in page : d \in 1..n /\ d \in S  OBVIOUS
  <1>4. IsFiniteSet(page) /\ Cardinality(page) <= limit
    <2>1. CASE page = {}
      <3>. HIDE DEF page
      <3>. QED  BY <2>1, FS_EmptySet
    <2>2. CASE page # {}
      <3>1. PICK m \in page : \A d \in page : d <= m
        <4>1. page \in SUBSET (1..n)  OBVIOUS
        <4>. HIDE DEF page
        <4>. QED  BY <2>2, <4>1, LargestExists
      <3>2. m \in 1..n /\ before(m) \in SUBSET S /\ m \notin before(m)
        BY <1>3
      <3>3. page \subseteq before(m) \cup {m}
        <4>1. \A d \in page : d # m => d < m
          <5>. HIDE DEF page
          <5>. QED  BY <1>3, <3>1
        <4>. QED  BY <1>3, <4>1
      <3>4. Cardinality(before(m)) < limit  OBVIOUS
      <3>. HIDE DEF before, page
      <3>5. IsFiniteSet(before(m)) /\ Cardinality(before(m)) \in Nat
        BY <1>2, <3>2
      <3>6. /\ IsFiniteSet(before(m) \cup {m})
            /\ Cardinality(before(m) \cup {m}) = Cardinality(before(m)) + 1
        BY <3>2, <3>5, FS_AddElement
      <3>7. /\ IsFiniteSet(page)
            /\ Cardinality(page) <= Cardinality(before(m) \cup {m})
        BY <3>3, <3>6, FS_Subset
      <3>8. Cardinality(page) \in Nat  BY <3>7, FS_CardinalityType
      <3>. QED  BY <3>4, <3>5, <3>6, <3>7, <3>8
    <2>. QED  BY <2>1, <2>2
  <1>. QED  BY <1>4
=============================================================================
