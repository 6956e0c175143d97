---------------------------- MODULE LogInduction ----------------------------
(***************************************************************************)
(* Induction over the positions of a log, as a statement about a set of    *)
(* numbers. It follows from the well-foundedness of strict inclusion on    *)
(* finite sets, instantiated to the initial segments 0..k.                 *)
(***************************************************************************)
EXTENDS Integers, WellFoundedInduction, FiniteSetsExt, FiniteSetTheorems, TLAPS

\* A nonempty set of numbers up to n has a least element.
LEMMA LeastOfSegment ==
    ASSUME NEW n \in Nat, NEW T \in SUBSET (0..n), T # {}
    PROVE  \E x \in T : \A y \in T : x <= y
<1> DEFINE Segments == {0..k : k \in T}
<1>1. IsWellFoundedOn(StrictSubsetOrdering(0..n), SUBSET (0..n))
  <2>1. IsFiniteSet(0..n)
    BY FS_Interval
  <2> QED
    BY <2>1, FS_StrictSubsetOrderingWellFounded, FS_FiniteSubsetsOfFinite, Zenon
<1>2. Segments \subseteq SUBSET (0..n) /\ Segments # {}
  <2>1. \A k \in T : 0..k \subseteq 0..n
    OBVIOUS
  <2>2. PICK k \in T : TRUE
    OBVIOUS
  <2>3. 0..k \in Segments
    BY Zenon
  <2> QED
    BY <2>1, <2>3, Zenon
<1>3. \E x \in Segments : \A y \in Segments : <<y, x>> \notin StrictSubsetOrdering(0..n)
  <2> HIDE DEF Segments
  <2> QED
    BY <1>1, <1>2, WFMin
<1>4. PICK m \in T : \A y \in Segments : <<y, 0..m>> \notin StrictSubsetOrdering(0..n)
  BY <1>3
<1>5. ASSUME NEW y \in T, y < m PROVE FALSE
  <2>1. 0..y \in Segments /\ 0..y \subseteq 0..m /\ m \in 0..m /\ m \notin 0..y
    BY <1>5
  <2>2. <<0..y, 0..m>> \in StrictSubsetOrdering(0..n)
    BY <2>1 DEF StrictSubsetOrdering
  <2> QED
    BY <1>4, <2>1, <2>2
<1> QED
  BY <1>5

\* The least-number principle.
LEMMA LeastNatural ==
    ASSUME NEW T \in SUBSET Nat, T # {}
    PROVE  \E x \in T : \A y \in T : x <= y
<1> PICK n \in T : TRUE
  OBVIOUS
<1> DEFINE Low == T \cap (0..n)
<1>1. Low \in SUBSET (0..n) /\ n \in Low
  OBVIOUS
<1>2. \E m \in Low : \A y \in Low : m <= y
  <2> HIDE DEF Low
  <2> QED
    BY LeastOfSegment, <1>1
<1> QED
  BY <1>2

\* A set of numbers that holds 0 and the successor of each member holds them all.
LEMMA Induction ==
    ASSUME NEW S \in SUBSET Nat, 0 \in S, \A n \in S : n + 1 \in S
    PROVE  S = Nat
<1> SUFFICES ASSUME Nat \ S # {} PROVE FALSE
  OBVIOUS
<1>1. PICK m \in Nat \ S : \A y \in Nat \ S : m <= y
  BY LeastNatural
<1>2. m # 0 /\ m - 1 \in Nat /\ m - 1 \notin Nat \ S
  BY <1>1
<1> QED
  BY <1>2

\* The same up to a bound.
LEMMA SegmentInduction ==
    ASSUME NEW m \in Nat, NEW S, 0 \in S,
           \A n \in 0..m : n \in S /\ n < m => n + 1 \in S
    PROVE  0..m \subseteq S
<1> DEFINE T == {n \in Nat : n <= m => n \in S}
<1>1. T \in SUBSET Nat /\ 0 \in T
  OBVIOUS
<1>2. \A n \in T : n + 1 \in T
  OBVIOUS
<1>3. T = Nat
  <2> HIDE DEF T
  <2> QED BY <1>1, <1>2, Induction
<1> QED
  BY <1>3

\* A finite nonempty set of numbers has a greatest element: among the sets of
\* members from some member on, a least one by inclusion starts at it.
LEMMA MaxOfFinite ==
    ASSUME NEW N \in SUBSET Nat, IsFiniteSet(N), N # {}
    PROVE  Max(N) \in N /\ \A y \in N : Max(N) >= y
<1> DEFINE From(k) == {y \in N : y >= k}
           Tails == {From(k) : k \in N}
<1>1. IsWellFoundedOn(StrictSubsetOrdering(N), SUBSET N)
  BY FS_StrictSubsetOrderingWellFounded, FS_FiniteSubsetsOfFinite, Zenon
<1>2. Tails \subseteq SUBSET N /\ Tails # {}
  OBVIOUS
<1>3. \E x \in Tails : \A y \in Tails : <<y, x>> \notin StrictSubsetOrdering(N)
  <2> HIDE DEF Tails
  <2> QED
    BY <1>1, <1>2, WFMin
<1>4. PICK m \in N : \A y \in Tails : <<y, From(m)>> \notin StrictSubsetOrdering(N)
  BY <1>3
<1>5. ASSUME NEW y \in N, y > m PROVE FALSE
  <2>1. From(y) \in Tails
    BY Zenon
  <2>2. /\ From(y) \subseteq From(m) /\ From(m) \subseteq N
        /\ m \in From(m) /\ m \notin From(y)
    <3>1. N \subseteq Nat /\ m \in Nat /\ y \in Nat
      OBVIOUS
    <3>2. \A z \in Nat : z >= y => z >= m
      BY <1>5, <3>1
    <3>3. m >= m /\ ~ m >= y
      BY <1>5, <3>1
    <3> QED BY <3>1, <3>2, <3>3
  <2>3. <<From(y), From(m)>> \in StrictSubsetOrdering(N)
    BY <2>2 DEF StrictSubsetOrdering
  <2> QED
    BY <1>4, <2>1, <2>3
<1>6. \E x \in N : \A y \in N : x >= y
  BY <1>5
<1> QED
  BY <1>6 DEF Max

LEMMA GreatestIsMax ==
    ASSUME NEW N \in SUBSET Int, NEW m \in N, \A n \in N : n <= m
    PROVE  Max(N) = m
<1>1. \E x \in N : \A y \in N : x >= y
  OBVIOUS
<1>2. Max(N) \in N /\ \A y \in N : Max(N) >= y
  BY <1>1 DEF Max
<1> HIDE DEF Max
<1>3. m <= Max(N) /\ Max(N) <= m /\ Max(N) \in Int /\ m \in Int
  BY <1>2
<1> QED BY <1>3

=============================================================================
