---------------------------- MODULE LeastElement ----------------------------
(***************************************************************************)
(* A finite set has a least element of a strict total order, without       *)
(* induction: for the proofs about pages of points, about attempts at      *)
(* pages, about the oldest result of the processor's cache and about what  *)
(* is missing above a path.                                                *)
(***************************************************************************)
EXTENDS Naturals, FiniteSetsExt, FiniteSetTheorems, WellFoundedInduction, TLAPS

\* The smaller numbers of a set.
Preceding(S, p) == {r \in S : r < p}

\* A finite set of numbers that is not empty has a least one: the sets of the
\* smaller ones are well-founded by inclusion.
LEMMA LeastExists ==
  ASSUME NEW S \in SUBSET Nat, IsFiniteSet(S), S # {}
  PROVE  Min(S) \in S /\ \A x \in S : Min(S) <= x
<1> DEFINE T == {Preceding(S, p) : p \in S}
<1>1. T \subseteq FiniteSubsetsOf(S) /\ T # {}
  <2>1. FiniteSubsetsOf(S) = SUBSET S
    BY FS_FiniteSubsetsOfFinite
  <2>2. \A p \in S : Preceding(S, p) \in SUBSET S
    BY DEF Preceding
  <2>3. T \subseteq FiniteSubsetsOf(S)
    BY <2>1, <2>2
  <2>4. \A p \in S : Preceding(S, p) \in T
    OBVIOUS
  <2>5. QED
    BY <2>3, <2>4
<1>2. \E B \in T : \A C \in T : ~(<<C, B>> \in StrictSubsetOrdering(S))
  <2> HIDE DEF T
  <2> QED BY <1>1, FS_StrictSubsetOrderingWellFounded, WFMin
<1>3. PICK x \in S : \A y \in S : ~(<<Preceding(S, y), Preceding(S, x)>> \in StrictSubsetOrdering(S))
  BY <1>2
<1>4. ASSUME NEW y \in S PROVE x <= y
  <2>1. x \in Nat /\ y \in Nat
    OBVIOUS
  <2>2. SUFFICES ASSUME y < x PROVE FALSE
    BY <2>1
  <2>3. \A r \in S : r < y => r < x
    BY <2>1, <2>2
  <2>4. /\ Preceding(S, y) \in SUBSET S /\ Preceding(S, x) \in SUBSET S
        /\ Preceding(S, y) \subseteq Preceding(S, x)
    BY <2>3 DEF Preceding
  <2>5. y \in Preceding(S, x) /\ y \notin Preceding(S, y)
    BY <2>1, <2>2 DEF Preceding
  <2>6. <<Preceding(S, y), Preceding(S, x)>> \in StrictSubsetOrdering(S)
    BY <2>4, <2>5 DEF StrictSubsetOrdering
  <2>7. QED
    BY <1>3, <2>6
<1>5. QED
  BY <1>4 DEF Min

\* The elements that R puts before x.
Before(R, S, x) == {y \in S : <<y, x>> \in R}

\* So has a finite set that is ordered in any other way.
LEMMA FirstExists ==
  ASSUME NEW S, IsFiniteSet(S), S # {}, NEW R,
         \A x \in S : <<x, x>> \notin R,
         \A x, y \in S : x # y => <<x, y>> \in R \/ <<y, x>> \in R,
         \A x, y, z \in S : <<x, y>> \in R /\ <<y, z>> \in R => <<x, z>> \in R
  PROVE  \E x \in S : \A y \in S \ {x} : <<x, y>> \in R
<1> DEFINE T == {Before(R, S, x) : x \in S}
<1>1. T \subseteq FiniteSubsetsOf(S) /\ T # {}
  <2>1. FiniteSubsetsOf(S) = SUBSET S
    BY FS_FiniteSubsetsOfFinite
  <2>2. \A x \in S : Before(R, S, x) \in SUBSET S
    BY DEF Before
  <2>3. T \subseteq FiniteSubsetsOf(S)
    BY <2>1, <2>2
  <2>4. \A x \in S : Before(R, S, x) \in T
    OBVIOUS
  <2>5. QED
    BY <2>3, <2>4
<1>2. \E B \in T : \A C \in T : ~(<<C, B>> \in StrictSubsetOrdering(S))
  <2> HIDE DEF T
  <2> QED BY <1>1, FS_StrictSubsetOrderingWellFounded, WFMin
<1>3. PICK x \in S : \A y \in S :
        ~(<<Before(R, S, y), Before(R, S, x)>> \in StrictSubsetOrdering(S))
  BY <1>2
<1>4. ASSUME NEW y \in S \ {x} PROVE <<x, y>> \in R
  <2>1. SUFFICES ASSUME <<y, x>> \in R PROVE FALSE
    OBVIOUS
  <2>2. /\ Before(R, S, y) \in SUBSET S /\ Before(R, S, x) \in SUBSET S
        /\ Before(R, S, y) \subseteq Before(R, S, x)
    BY <2>1 DEF Before
  <2>3. y \in Before(R, S, x) /\ y \notin Before(R, S, y)
    BY <2>1 DEF Before
  <2>4. <<Before(R, S, y), Before(R, S, x)>> \in StrictSubsetOrdering(S)
    BY <2>2, <2>3 DEF StrictSubsetOrdering
  <2>5. QED
    BY <1>3, <2>4
<1>5. QED
  BY <1>4
=============================================================================
