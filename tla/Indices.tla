------------------------------ MODULE Indices ------------------------------
(***************************************************************************)
(* Least elements, for the places where the code takes the first of a list *)
(* or of a table, or the oldest of some pages.                             *)
(***************************************************************************)
EXTENDS Integers, FiniteSets, TLAPS, FiniteSetTheorems

(* Strict inclusion of sets of indices is well-founded. *)
LEMMA SubsetsWellFounded ==
  ASSUME NEW n \in Nat
  PROVE  IsWellFoundedOn(StrictSubsetOrdering(1 .. n), SUBSET (1 .. n))
<1>1. IsFiniteSet(1 .. n)
  BY FS_Interval
<1> QED
  BY <1>1, FS_FiniteSubsetsOfFinite, FS_StrictSubsetOrderingWellFounded

(* A set of indices has a least element: of the intervals 1 .. x with x in *)
(* the set, one is minimal for inclusion.                                  *)
LEMMA LeastIndex ==
  ASSUME NEW n \in Nat, NEW S \in SUBSET (1 .. n), S # {}
  PROVE  \E m \in S : \A x \in S : m <= x
<1> DEFINE U == 1 .. n
           R == StrictSubsetOrdering(U)
           T == {1 .. x : x \in S}
<1>1. IsWellFoundedOn(R, SUBSET U)
  BY SubsetsWellFounded
<1>2. T \subseteq SUBSET U /\ T # {}
  <2>1. ASSUME NEW x \in S PROVE 1 .. x \in SUBSET U
    OBVIOUS
  <2>2. PICK x \in S : TRUE
    OBVIOUS
  <2>3. 1 .. x \in T
    OBVIOUS
  <2> QED
    BY <2>1, <2>3
<1> HIDE DEF R, T
<1>3. PICK t \in T : \A y \in T : ~ (<<y, t>> \in R)
  BY <1>1, <1>2, WFMin
<1> USE DEF T
<1>4. PICK m \in S : t = 1 .. m
  OBVIOUS
<1>5. ASSUME NEW x \in S, x < m PROVE FALSE
  <2>1. 1 .. x \in T /\ 1 .. x \in SUBSET U /\ 1 .. m \in SUBSET U
    OBVIOUS
  <2>2. 1 .. x \subseteq 1 .. m /\ 1 .. x # 1 .. m
    <3>1. m \in 1 .. m /\ m \notin 1 .. x
      BY <1>5
    <3>2. 1 .. x \subseteq 1 .. m
      BY <1>5
    <3> QED
      BY <3>1, <3>2
  <2>3. <<1 .. x, 1 .. m>> \in R
    BY <2>1, <2>2 DEF R, StrictSubsetOrdering
  <2> QED
    BY <1>3, <1>4, <2>1, <2>3
<1> QED
  BY <1>5

(* A set of indices has a least element in any order in which none is      *)
(* below itself: of the sets of those below, one is minimal for inclusion. *)
LEMMA FirstInOrder ==
  ASSUME NEW n \in Nat, NEW S \in SUBSET (1 .. n), S # {}, NEW below,
         \A x \in S : <<x, x>> \notin below,
         \A x, y, z \in S : <<x, y>> \in below /\ <<y, z>> \in below => <<x, z>> \in below
  PROVE  \E m \in S : \A x \in S : <<x, m>> \notin below
<1> DEFINE U == 1 .. n
           R == StrictSubsetOrdering(U)
           Below(x) == {y \in S : <<y, x>> \in below}
           T == {Below(x) : x \in S}
<1>1. \A x : Below(x) \in SUBSET U
  OBVIOUS
<1>2. \A x, y : y \in Below(x) <=> y \in S /\ <<y, x>> \in below
  OBVIOUS
<1> HIDE DEF Below
<1>3. T \subseteq SUBSET U /\ T # {}
  <2>1. ASSUME NEW t \in T PROVE t \in SUBSET U
    <3>1. PICK x \in S : t = Below(x)
      BY <2>1
    <3> QED
      BY <1>1, <3>1
  <2>2. PICK x \in S : TRUE
    OBVIOUS
  <2>3. Below(x) \in T
    OBVIOUS
  <2> QED
    BY <2>1, <2>3
<1> HIDE DEF T
<1>4. IsWellFoundedOn(R, SUBSET U)
  BY SubsetsWellFounded
<1> HIDE DEF R
<1>5. PICK t \in T : \A y \in T : ~ (<<y, t>> \in R)
  BY <1>4, <1>3, WFMin
<1>6. PICK m \in S : t = Below(m)
  BY DEF T
<1>7. ASSUME NEW x \in S, <<x, m>> \in below PROVE FALSE
  <2>1. Below(x) \in T /\ Below(x) \in SUBSET U /\ Below(m) \in SUBSET U
    BY <1>1 DEF T
  <2>2. Below(x) \subseteq Below(m)
    BY <1>7, <1>2
  <2>3. x \in Below(m) /\ x \notin Below(x)
    BY <1>7, <1>2
  <2>4. <<Below(x), Below(m)>> \in R
    <3>1. Below(x) # Below(m)
      BY <2>3
    <3> QED
      BY <2>1, <2>2, <3>1 DEF R, StrictSubsetOrdering
  <2> QED
    BY <1>5, <1>6, <2>1, <2>4
<1> QED
  BY <1>7
=============================================================================
