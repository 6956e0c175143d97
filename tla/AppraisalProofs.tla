--------------------------- MODULE AppraisalProofs --------------------------
(***************************************************************************)
(* What holds of every valuation: for any item, any market, any answers of *)
(* the auction history, any saved values and rules and any thresholds, the *)
(* search keeps the best modifiers the sales support, its queries only     *)
(* widen, what the rungs say covers the costs, and no rung breaks a rule   *)
(* that spoke.                                                             *)
(*                                                                         *)
(* The loops of the code are recursive functions: their unfolding is       *)
(* proved first, then what one turn of a loop preserves, then what the     *)
(* loop has done at its end.                                               *)
(***************************************************************************)
EXTENDS Appraisal, LogInduction, SequenceTheorems

-----------------------------------------------------------------------------
(***************************************************************************)
(* Numbers.                                                                *)
(***************************************************************************)
\* A set of naturals that is not empty has a smallest member.
LEMMA SmallestIsMin ==
    ASSUME NEW T \in SUBSET Nat, T # {}
    PROVE  Min(T) \in T /\ \A n \in T : Min(T) <= n
<1>1. \E n \in T : \A m \in T : n <= m
  BY LeastNatural
<1> QED BY <1>1 DEF Min

\* The values of a function on a finite set are finitely many.
LEMMA FiniteRange ==
    ASSUME NEW D, IsFiniteSet(D), NEW values
    PROVE  IsFiniteSet({values[i] : i \in D})
<1> DEFINE T == {values[i] : i \in D}
           f == [i \in D |-> values[i]]
<1>1. f \in Surjection(D, T)
  <2>1. f \in [D -> T]
    OBVIOUS
  <2>2. \A t \in T : \E i \in D : f[i] = t
    OBVIOUS
  <2> QED BY <2>1, <2>2 DEF Surjection
<1> HIDE DEF T, f
<1>2. IsFiniteSet(T)
  BY <1>1, FS_Surjection
<1> QED BY <1>2 DEF T

\* There is a k-th smallest value as long as there are k.
LEMMA NthIsValue ==
    ASSUME NEW D, IsFiniteSet(D), NEW values \in [D -> Nat], NEW k \in 1 .. Cardinality(D)
    PROVE  /\ Nth(values, k) \in {values[i] : i \in D}
           /\ Nth(values, k) \in Nat
<1> DEFINE R == {values[i] : i \in D}
           upTo(p) == {i \in D : values[i] <= p}
           T == {p \in R : Cardinality(upTo(p)) >= k}
<1>1. Cardinality(D) \in Nat /\ Cardinality(D) # 0 /\ D # {}
  BY FS_CardinalityType, FS_EmptySet
<1>2. R \in SUBSET Nat /\ R # {}
  BY <1>1
<1>3. IsFiniteSet(R)
  BY FiniteRange
<1>4. Max(R) \in R /\ \A p \in R : Max(R) >= p
  <2> HIDE DEF R
  <2> QED BY <1>2, <1>3, MaxOfFinite
<1>5. upTo(Max(R)) = D
  <2>1. \A i \in D : values[i] \in R
    OBVIOUS
  <2> HIDE DEF R
  <2>2. \A i \in D : values[i] <= Max(R)
    BY <1>2, <1>4, <2>1
  <2> QED BY <2>2
<1>6. T \in SUBSET Nat /\ T # {}
  <2>1. PICK m \in R : upTo(m) = D
    BY <1>4, <1>5
  <2>2. Cardinality(upTo(m)) >= k
    BY <1>1, <2>1
  <2>3. m \in T
    BY <2>2
  <2> HIDE DEF R, upTo
  <2> QED BY <1>2, <2>3
<1>7. Min(T) \in T
  <2> HIDE DEF T
  <2> QED BY <1>6, SmallestIsMin
<1>8. Nth(values, k) = Min(T)
  <2>1. DOMAIN values = D
    OBVIOUS
  <2> QED BY <2>1, Zenon DEF Nth
<1>9. Min(T) \in R
  <2> HIDE DEF R, upTo
  <2> QED BY <1>7
<1> QED BY <1>2, <1>8, <1>9

\* Prices in ascending order are as many as there are, and the middle of them, if any, is one.
LEMMA AscendingPrices ==
    ASSUME NEW D, IsFiniteSet(D), NEW prices \in [D -> Nat]
    PROVE  \E n \in Nat : Ascending(prices) \in [1 .. n -> Nat]
<1>1. Cardinality(D) \in Nat /\ DOMAIN prices = D
  BY FS_CardinalityType
<1>2. Ascending(prices) = [k \in 1 .. Cardinality(D) |-> Nth(prices, k)]
  BY <1>1 DEF Ascending
<1>3. \A k \in 1 .. Cardinality(D) : Nth(prices, k) \in Nat
  BY NthIsValue
<1> QED BY <1>1, <1>2, <1>3

LEMMA MiddleIsPrice ==
    ASSUME NEW n \in Nat, NEW s \in [1 .. n -> Nat]
    PROVE  MiddleOf(s) \in Nat \cup {None}
<1>1. s \in Seq(Nat) /\ Len(s) = n
  OBVIOUS
<1>2. CASE s = <<>>
  BY <1>2 DEF MiddleOf
<1>3. CASE s # <<>> /\ n % 2 = 1
  <2>1. n \div 2 + 1 \in 1 .. n
    BY <1>3
  <2>2. MiddleOf(s) = s[n \div 2 + 1]
    BY <1>1, <1>3 DEF MiddleOf
  <2> QED BY <2>1, <2>2
<1>4. CASE s # <<>> /\ n % 2 # 1
  <2>1. n # 0
    BY <1>1, <1>4
  <2>2. n \div 2 \in 1 .. n /\ n \div 2 + 1 \in 1 .. n
    BY <1>4, <2>1
  <2>3. MiddleOf(s) = (s[n \div 2] + s[n \div 2 + 1]) \div 2
    BY <1>1, <1>4 DEF MiddleOf
  <2> QED BY <2>2, <2>3
<1> QED BY <1>2, <1>3, <1>4

\* The same of the prices that are not zero.
LEMMA SortedPrices ==
    ASSUME NEW D, IsFiniteSet(D), NEW prices \in [D -> Nat]
    PROVE  \E n \in Nat : Sorted(prices) \in [1 .. n -> Nat]
<1> DEFINE stated == {i \in D : prices[i] > 0}
           positive == [i \in stated |-> prices[i]]
<1>1. IsFiniteSet(stated) /\ Cardinality(stated) \in Nat
  <2>1. stated \in SUBSET D
    OBVIOUS
  <2> HIDE DEF stated
  <2> QED BY <2>1, FS_Subset, FS_CardinalityType
<1>2. positive \in [stated -> Nat] /\ DOMAIN positive = stated
  OBVIOUS
<1>3. Sorted(prices) = Ascending(positive)
  <2>1. DOMAIN prices = D
    OBVIOUS
  <2> QED BY <2>1, Zenon DEF Sorted
<1> HIDE DEF stated, positive
<1> QED BY <1>1, <1>2, <1>3, AscendingPrices

\* The median of some prices is one of the prices there could be, or nothing.
LEMMA MedianIsPrice ==
    ASSUME NEW D, IsFiniteSet(D), NEW prices \in [D -> Nat]
    PROVE  MedianOf(prices) \in Nat \cup {None}
<1>1. PICK n \in Nat : Sorted(prices) \in [1 .. n -> Nat]
  BY SortedPrices
<1> QED BY <1>1, MiddleIsPrice DEF MedianOf

-----------------------------------------------------------------------------
(***************************************************************************)
(* Charges.                                                                *)
(***************************************************************************)
\* What a share in basis points rounds to.
LEMMA ShareBounds ==
    ASSUME NEW a \in Int
    PROVE  /\ a \div 10000 \in Int
           /\ 10000 * (a \div 10000) <= a
           /\ a < 10000 * (a \div 10000) + 10000
BY SMT

\* What a division that rounds down leaves.
LEMMA QuotientBounds ==
    ASSUME NEW a \in Int, NEW d \in Nat \ {0}
    PROVE  /\ a \div d \in Int
           /\ d * (a \div d) <= a
           /\ a < d * (a \div d) + d
BY SMT

\* Some tier covers every price (AhTax.rate_for).
LEMMA RateIsNatural ==
    ASSUME NEW price \in Nat
    PROVE  RateBp(price) \in Nat
<1> DEFINE covers == {i \in DOMAIN Tiers : Tiers[i].upper = None \/ price <= Tiers[i].upper}
<1>1. covers \in SUBSET Nat /\ covers # {}
  BY TiersAssumption
<1>2. Min(covers) \in covers
  <2> HIDE DEF covers
  <2> QED BY <1>1, SmallestIsMin
<1>3. Tiers[Min(covers)].bp \in Nat
  <2>1. PICK i \in DOMAIN Tiers : i = Min(covers)
    <3>1. covers \subseteq DOMAIN Tiers
      OBVIOUS
    <3> HIDE DEF covers
    <3> QED BY <1>2, <3>1
  <2> HIDE DEF covers
  <2>2. Tiers[i] \in [upper : Nat \cup {None}, bp : Nat]
    <3> DEFINE tiers == [upper : Nat \cup {None}, bp : Nat]
    <3>1. Tiers \in Seq(tiers)
      BY Zenon, TiersAssumption
    <3> HIDE DEF tiers
    <3>2. i \in 1..Len(Tiers)
      BY <3>1
    <3>3. Tiers[i] \in tiers
      BY <3>1, <3>2, ElementOfSeq
    <3> QED BY <3>3 DEF tiers
  <2> QED BY <2>1, <2>2
<1>4. PICK bp \in Nat : bp = Tiers[Min(covers)].bp
  BY <1>3
<1>5. RateBp(price) = IF Derpy THEN 2 * bp ELSE bp
  BY <1>4 DEF RateBp
<1> QED BY <1>5

\* More of them cost no less.
LEMMA TimesMonotone ==
    ASSUME NEW a \in Nat, NEW b \in Nat, NEW c \in Nat, a <= b
    PROVE  a * c <= b * c
<1>1. PICK d \in Nat : b = a + d
  <2>1. b - a \in Nat /\ b = a + (b - a)
    OBVIOUS
  <2> QED BY <2>1
<1>2. b * c = a * c + d * c
  BY <1>1
<1>3. d * c \in Nat /\ a * c \in Nat
  OBVIOUS
<1> QED BY <1>2, <1>3

\* The auctions that a hold takes: the next begins when the last has run out before its end.
Runs(n, hours) == n * AuctionHours >= hours /\ (n = 1 \/ (n - 1) * AuctionHours < hours)

\* Only one number of auctions fits a hold.
LEMMA RunsOnce ==
    ASSUME NEW hours \in Nat, NEW n \in Nat, NEW m \in Nat, n > 0, n < m, Runs(n, hours)
    PROVE  ~ Runs(m, hours)
<1>1. AuctionHours \in Nat /\ m - 1 \in Nat /\ n <= m - 1 /\ m # 1
  BY PricingAssumption
<1>2. n * AuctionHours <= (m - 1) * AuctionHours
  BY <1>1, TimesMonotone
<1>3. PICK p \in Nat, q \in Nat : p = n * AuctionHours /\ q = (m - 1) * AuctionHours
  BY <1>1
<1> QED BY <1>1, <1>2, <1>3 DEF Runs

\* The ceiling of the division is the number of auctions a hold takes.
LEMMA RelistsAreRuns ==
    ASSUME NEW hours \in Nat
    PROVE  /\ RelistCount(hours) \in 1 .. (hours + 1)
           /\ Runs(RelistCount(hours), hours)
<1>1. PICK A \in Nat \ {0} : A = AuctionHours
  BY PricingAssumption
<1>2. PICK q \in Int : q = (hours + A - 1) \div A
  BY QuotientBounds
<1>3. A * q <= hours + A - 1 /\ hours + A - 1 < A * q + A
  BY <1>2, QuotientBounds
<1>4. RelistCount(hours) = Most(1, q)
  BY <1>1, <1>2 DEF RelistCount
<1>5. CASE q <= 1
  <2>1. A * q <= A
    BY <1>5, SMT
  <2>2. RelistCount(hours) = 1
    BY <1>4, <1>5 DEF Most
  <2>3. 1 * A >= hours
    BY <1>3, <2>1
  <2> QED BY <1>1, <2>2, <2>3 DEF Runs
<1>6. CASE q > 1
  <2>1. RelistCount(hours) = q /\ q \in Nat /\ q - 1 \in Nat
    BY <1>4, <1>6 DEF Most
  <2>2. q * A = A * q /\ (q - 1) * A = A * q - A /\ A * q \in Nat
    BY <2>1
  <2>3. q * A >= hours /\ (q - 1) * A < hours
    BY <1>3, <2>2
  <2>4. (q - 1) * 1 <= (q - 1) * A
    <3>1. 1 * (q - 1) <= A * (q - 1)
      BY <2>1, TimesMonotone
    <3> QED BY <2>1, <3>1
  <2>5. q <= hours
    BY <2>1, <2>3, <2>4
  <2> QED BY <1>1, <1>6, <2>1, <2>3, <2>5 DEF Runs
<1> QED BY <1>5, <1>6

\* What a seller counts is what relist_count computes.
LEMMA ListingsAreRelists ==
    ASSUME NEW hours \in Nat
    PROVE  Listings(hours) = RelistCount(hours)
<1>1. PICK m \in 1 .. (hours + 1) : m = RelistCount(hours) /\ Runs(m, hours)
  BY RelistsAreRuns
<1>2. Listings(hours) = CHOOSE n \in 1 .. (hours + 1) : Runs(n, hours)
  BY Zenon DEF Listings, Runs
<1>3. \A n \in 1 .. (hours + 1) : Runs(n, hours) => n = m
  <2> SUFFICES ASSUME NEW n \in 1 .. (hours + 1), Runs(n, hours), n # m PROVE FALSE
    OBVIOUS
  <2>1. CASE n < m
    BY <1>1, <2>1, RunsOnce
  <2>2. CASE m < n
    BY <1>1, <2>2, RunsOnce
  <2> QED BY <2>1, <2>2
<1> QED BY <1>1, <1>2, <1>3

-----------------------------------------------------------------------------
(***************************************************************************)
(* Loops, unfolded one turn at a time.                                     *)
(***************************************************************************)
\* Filters one modifier at a time.
LEMMA FiltersRecursion ==
    ASSUME NEW mods, NEW picked, Len(mods) \in Nat
    PROVE  /\ FiltersUpTo(mods, picked)[0]
                 = Only(picked.rarity # None, <<"Rarity", picked.rarity>>)
           /\ \A n \in 0 .. Len(mods) :
                  n < Len(mods) =>
                      FiltersUpTo(mods, picked)[n + 1]
                          = AddFilter(FiltersUpTo(mods, picked)[n], mods[n + 1])
<1> DEFINE start == Only(picked.rarity # None, <<"Rarity", picked.rarity>>)
           Body(f, n) == IF n = 0 THEN start ELSE AddFilter(f[n - 1], mods[n])
           S == {m \in Nat : \E f : f = [n \in 0 .. m |-> Body(f, n)]}
<1>1. 0 \in S
  <2> DEFINE f == [n \in 0 .. 0 |-> start]
  <2>1. f = [n \in 0 .. 0 |-> Body(f, n)]
    OBVIOUS
  <2> QED BY <2>1, Zenon
<1>2. ASSUME NEW m \in S PROVE m + 1 \in S
  <2>1. PICK f : f = [n \in 0 .. m |-> Body(f, n)]
    OBVIOUS
  <2> DEFINE last == AddFilter(f[m], mods[m + 1])
             g == [n \in 0 .. m + 1 |-> IF n = m + 1 THEN last ELSE f[n]]
  <2>2. g = [n \in 0 .. m + 1 |-> Body(g, n)]
    <3>1. ASSUME NEW n \in 0 .. m + 1 PROVE g[n] = Body(g, n)
      <4>1. CASE n = m + 1
        BY <4>1
      <4>2. CASE n # m + 1
        <5>1. n \in 0 .. m BY <4>2
        <5>2. f[n] = Body(f, n) BY <2>1, <5>1
        <5> QED BY <4>2, <5>1, <5>2
      <4> QED BY <4>1, <4>2
    <3> QED BY <3>1
  <2>3. m + 1 \in Nat
    OBVIOUS
  <2> HIDE DEF g
  <2> QED BY <2>2, <2>3
<1>3. S = Nat
  <2>1. S \in SUBSET Nat
    OBVIOUS
  <2> HIDE DEF S
  <2> QED BY <1>1, <1>2, <2>1, Induction
<1>4. \E f : f = [n \in 0 .. Len(mods) |-> Body(f, n)]
  BY <1>3
<1>5. FiltersUpTo(mods, picked)
         = [n \in 0 .. Len(mods) |-> Body(FiltersUpTo(mods, picked), n)]
  BY <1>4 DEF FiltersUpTo
<1>6. \A n \in 0 .. Len(mods) :
          n < Len(mods) => n + 1 \in 0 .. Len(mods) /\ n + 1 # 0 /\ (n + 1) - 1 = n
  OBVIOUS
<1>7. 0 \in 0 .. Len(mods)
  OBVIOUS
<1> QED BY <1>5, <1>6, <1>7

\* Decisions one rule at a time.
LEMMA DecisionRecursion ==
    ASSUME NEW ruleSet, NEW context, Len(ruleSet) \in Nat
    PROVE  /\ DecidedUpTo(ruleSet, context)[0] = Undecided
           /\ \A n \in 0 .. Len(ruleSet) :
                  n < Len(ruleSet) =>
                      DecidedUpTo(ruleSet, context)[n + 1]
                          = Ask(DecidedUpTo(ruleSet, context)[n], ruleSet[n + 1], n + 1, context)
<1> DEFINE Body(f, n) == IF n = 0 THEN Undecided ELSE Ask(f[n - 1], ruleSet[n], n, context)
           S == {m \in Nat : \E f : f = [n \in 0 .. m |-> Body(f, n)]}
<1>1. 0 \in S
  <2> DEFINE f == [n \in 0 .. 0 |-> Undecided]
  <2>1. f = [n \in 0 .. 0 |-> Body(f, n)]
    OBVIOUS
  <2> QED BY <2>1, Zenon
<1>2. ASSUME NEW m \in S PROVE m + 1 \in S
  <2>1. PICK f : f = [n \in 0 .. m |-> Body(f, n)]
    OBVIOUS
  <2> DEFINE last == Ask(f[m], ruleSet[m + 1], m + 1, context)
             g == [n \in 0 .. m + 1 |-> IF n = m + 1 THEN last ELSE f[n]]
  <2>2. g = [n \in 0 .. m + 1 |-> Body(g, n)]
    <3>1. ASSUME NEW n \in 0 .. m + 1 PROVE g[n] = Body(g, n)
      <4>1. CASE n = m + 1
        BY <4>1
      <4>2. CASE n # m + 1
        <5>1. n \in 0 .. m BY <4>2
        <5>2. f[n] = Body(f, n) BY <2>1, <5>1
        <5> QED BY <4>2, <5>1, <5>2
      <4> QED BY <4>1, <4>2
    <3> QED BY <3>1
  <2>3. m + 1 \in Nat
    OBVIOUS
  <2> HIDE DEF g
  <2> QED BY <2>2, <2>3
<1>3. S = Nat
  <2>1. S \in SUBSET Nat
    OBVIOUS
  <2> HIDE DEF S
  <2> QED BY <1>1, <1>2, <2>1, Induction
<1>4. \E f : f = [n \in 0 .. Len(ruleSet) |-> Body(f, n)]
  BY <1>3
<1>5. DecidedUpTo(ruleSet, context)
         = [n \in 0 .. Len(ruleSet) |-> Body(DecidedUpTo(ruleSet, context), n)]
  BY <1>4 DEF DecidedUpTo
<1>6. \A n \in 0 .. Len(ruleSet) :
          n < Len(ruleSet) => n + 1 \in 0 .. Len(ruleSet) /\ n + 1 # 0 /\ (n + 1) - 1 = n
  OBVIOUS
<1>7. 0 \in 0 .. Len(ruleSet)
  OBVIOUS
<1> QED BY <1>5, <1>6, <1>7

\* The search one modifier at a time.
LEMMA NarrowRecursion ==
    ASSUME NEW sold, Len(ranked) \in Nat
    PROVE  /\ NarrowedUpTo(sold)[0]
                 = [kept |-> <<>>, dropped |-> <<>>, matched |-> Select(sold, {}, item.rarity)]
           /\ \A n \in 0 .. Len(ranked) :
                  n < Len(ranked) =>
                      NarrowedUpTo(sold)[n + 1]
                          = Consider(NarrowedUpTo(sold)[n], ranked[n + 1], sold)
<1> DEFINE start == [kept |-> <<>>, dropped |-> <<>>, matched |-> Select(sold, {}, item.rarity)]
           Body(f, n) == IF n = 0 THEN start ELSE Consider(f[n - 1], ranked[n], sold)
           S == {m \in Nat : \E f : f = [n \in 0 .. m |-> Body(f, n)]}
<1>1. 0 \in S
  <2> DEFINE f == [n \in 0 .. 0 |-> start]
  <2>1. f = [n \in 0 .. 0 |-> Body(f, n)]
    OBVIOUS
  <2> QED BY <2>1, Zenon
<1>2. ASSUME NEW m \in S PROVE m + 1 \in S
  <2>1. PICK f : f = [n \in 0 .. m |-> Body(f, n)]
    OBVIOUS
  <2> DEFINE last == Consider(f[m], ranked[m + 1], sold)
             g == [n \in 0 .. m + 1 |-> IF n = m + 1 THEN last ELSE f[n]]
  <2>2. g = [n \in 0 .. m + 1 |-> Body(g, n)]
    <3>1. ASSUME NEW n \in 0 .. m + 1 PROVE g[n] = Body(g, n)
      <4>1. CASE n = m + 1
        BY <4>1
      <4>2. CASE n # m + 1
        <5>1. n \in 0 .. m BY <4>2
        <5>2. f[n] = Body(f, n) BY <2>1, <5>1
        <5> QED BY <4>2, <5>1, <5>2
      <4> QED BY <4>1, <4>2
    <3> QED BY <3>1
  <2>3. m + 1 \in Nat
    OBVIOUS
  <2> HIDE DEF g
  <2> QED BY <2>2, <2>3
<1>3. S = Nat
  <2>1. S \in SUBSET Nat
    OBVIOUS
  <2> HIDE DEF S
  <2> QED BY <1>1, <1>2, <2>1, Induction
<1>4. \E f : f = [n \in 0 .. Len(ranked) |-> Body(f, n)]
  BY <1>3
<1>5. NarrowedUpTo(sold) = [n \in 0 .. Len(ranked) |-> Body(NarrowedUpTo(sold), n)]
  BY <1>4 DEF NarrowedUpTo
<1>6. \A n \in 0 .. Len(ranked) :
          n < Len(ranked) => n + 1 \in 0 .. Len(ranked) /\ n + 1 # 0 /\ (n + 1) - 1 = n
  OBVIOUS
<1>7. 0 \in 0 .. Len(ranked)
  OBVIOUS
<1> QED BY <1>5, <1>6, <1>7

\* Halving one step at a time.
LEMMA HalvingRecursion ==
    ASSUME NEW size \in Nat
    PROVE  /\ Halved(size)[0] = size
           /\ \A n \in 0 .. size :
                  n < size => Halved(size)[n + 1] = Halved(size)[n] \div 2
<1> DEFINE Body(f, n) == IF n = 0 THEN size ELSE f[n - 1] \div 2
           S == {m \in Nat : \E f : f = [n \in 0 .. m |-> Body(f, n)]}
<1>1. 0 \in S
  <2> DEFINE f == [n \in 0 .. 0 |-> size]
  <2>1. f = [n \in 0 .. 0 |-> Body(f, n)]
    OBVIOUS
  <2> QED BY <2>1, Zenon
<1>2. ASSUME NEW m \in S PROVE m + 1 \in S
  <2>1. PICK f : f = [n \in 0 .. m |-> Body(f, n)]
    OBVIOUS
  <2> DEFINE last == f[m] \div 2
             g == [n \in 0 .. m + 1 |-> IF n = m + 1 THEN last ELSE f[n]]
  <2>2. g = [n \in 0 .. m + 1 |-> Body(g, n)]
    <3>1. ASSUME NEW n \in 0 .. m + 1 PROVE g[n] = Body(g, n)
      <4>1. CASE n = m + 1
        BY <4>1
      <4>2. CASE n # m + 1
        <5>1. n \in 0 .. m BY <4>2
        <5>2. f[n] = Body(f, n) BY <2>1, <5>1
        <5> QED BY <4>2, <5>1, <5>2
      <4> QED BY <4>1, <4>2
    <3> QED BY <3>1
  <2>3. m + 1 \in Nat
    OBVIOUS
  <2> HIDE DEF g
  <2> QED BY <2>2, <2>3
<1>3. S = Nat
  <2>1. S \in SUBSET Nat
    OBVIOUS
  <2> HIDE DEF S
  <2> QED BY <1>1, <1>2, <2>1, Induction
<1>4. \E f : f = [n \in 0 .. size |-> Body(f, n)]
  BY <1>3
<1>5. Halved(size) = [n \in 0 .. size |-> Body(Halved(size), n)]
  BY <1>4 DEF Halved
<1>6. \A n \in 0 .. size : n < size => n + 1 \in 0 .. size /\ n + 1 # 0 /\ (n + 1) - 1 = n
  OBVIOUS
<1>7. 0 \in 0 .. size
  OBVIOUS
<1> QED BY <1>5, <1>6, <1>7

-----------------------------------------------------------------------------
(***************************************************************************)
(* Comparables.                                                            *)
(***************************************************************************)

\* What carries many modifiers carries few of them.
LEMMA MoreMatchFewer ==
    ASSUME NEW sold, NEW few, NEW many, few \subseteq many, NEW rarity
    PROVE  Select(sold, many, rarity) \subseteq Select(sold, few, rarity)
BY DEF Select, MatchesAll

\* More sales than enough are enough.
LEMMA EnoughOfMore ==
    ASSUME NEW more, IsFiniteSet(more), NEW some \in SUBSET more, Enough(some)
    PROVE  Enough(more)
<1>1. Cardinality(some) <= Cardinality(more) /\ IsFiniteSet(some)
  BY FS_Subset
<1>2. Cardinality(some) \in Nat /\ Cardinality(more) \in Nat
  BY <1>1, FS_CardinalityType
<1> QED BY <1>1, <1>2, SettingsAssumption DEF Enough

\* The comparables are some of the sales, which are finitely many.
LEMMA SelectIsFinite ==
    ASSUME NEW sold, IsFiniteSet(DOMAIN sold), NEW mods, NEW rarity
    PROVE  /\ Select(sold, mods, rarity) \in SUBSET DOMAIN sold
           /\ IsFiniteSet(Select(sold, mods, rarity))
<1>1. Select(sold, mods, rarity) \in SUBSET DOMAIN sold
  BY DEF Select
<1> QED BY <1>1, FS_Subset

\* What the search has come to is a record of its lists and its comparables.
Search(Mods, sold) == [kept : Seq(Mods), dropped : Seq(Mods), matched : SUBSET DOMAIN sold]

\* What is in a list that grew.
LEMMA ToSetOfAppend ==
    ASSUME NEW Mods, NEW list \in Seq(Mods), NEW m \in Mods
    PROVE  ToSet(Append(list, m)) = ToSet(list) \cup {m}
<1>1. Append(list, m) \in Seq(Mods) /\ Len(Append(list, m)) = Len(list) + 1 /\ Len(list) \in Nat
  OBVIOUS
<1>2. /\ DOMAIN list = 1 .. Len(list) /\ DOMAIN Append(list, m) = 1 .. Len(list) + 1
      /\ \A i \in 1 .. Len(list) : Append(list, m)[i] = list[i]
      /\ Append(list, m)[Len(list) + 1] = m
  OBVIOUS
<1> QED BY <1>1, <1>2 DEF ToSet

\* A modifier that the sales support joins those kept; any other is given up.
LEMMA ConsiderKeeps ==
    ASSUME NEW Mods, NEW sold, NEW acc \in Search(Mods, sold), NEW m \in Mods,
           m.matching /\ Matchable(m, sold)
               /\ Enough(Select(sold, ToSet(acc.kept) \cup {m}, item.rarity))
    PROVE  LET after == Consider(acc, m, sold)
           IN  /\ after \in Search(Mods, sold)
               /\ after.kept = Append(acc.kept, m) /\ after.dropped = acc.dropped
               /\ after.matched = Select(sold, ToSet(after.kept), item.rarity)
               /\ ToSet(after.kept) = ToSet(acc.kept) \cup {m}
<1> DEFINE candidate == Select(sold, ToSet(acc.kept) \cup {m}, item.rarity)
<1>1. Consider(acc, m, sold) = [acc EXCEPT !.kept = Append(@, m), !.matched = candidate]
  BY Zenon DEF Consider
<1>2. candidate \in SUBSET DOMAIN sold
  BY DEF Select
<1>3. ToSet(Append(acc.kept, m)) = ToSet(acc.kept) \cup {m}
  BY ToSetOfAppend DEF Search
<1>4. Append(acc.kept, m) \in Seq(Mods)
  BY DEF Search
<1> HIDE DEF candidate
<1>5. Consider(acc, m, sold) \in Search(Mods, sold)
  BY <1>1, <1>2, <1>4 DEF Search
<1>6. /\ Consider(acc, m, sold).kept = Append(acc.kept, m)
      /\ Consider(acc, m, sold).dropped = acc.dropped
      /\ Consider(acc, m, sold).matched = candidate
  BY <1>1 DEF Search
<1> QED BY <1>3, <1>5, <1>6, Zenon DEF candidate

\* A modifier that too few sales support is given up and changes nothing else.
LEMMA ConsiderDrops ==
    ASSUME NEW Mods, NEW sold, NEW acc \in Search(Mods, sold), NEW m \in Mods,
           ~ (m.matching /\ Matchable(m, sold)
               /\ Enough(Select(sold, ToSet(acc.kept) \cup {m}, item.rarity)))
    PROVE  LET after == Consider(acc, m, sold)
           IN  /\ after \in Search(Mods, sold)
               /\ after.kept = acc.kept /\ after.matched = acc.matched
<1>1. Consider(acc, m, sold) = [acc EXCEPT !.dropped = Append(@, m)]
  BY Zenon DEF Consider
<1>2. Append(acc.dropped, m) \in Seq(Mods)
  BY DEF Search
<1> QED BY <1>1, <1>2 DEF Search

\* Whatever has been considered, the comparables share all that is kept, and
\* there are enough of them if there were at first.
Fair(acc, Mods, sold) ==
    /\ acc \in Search(Mods, sold)
    /\ acc.matched = Select(sold, ToSet(acc.kept), item.rarity)
    /\ Enough(Select(sold, {}, item.rarity)) => Enough(acc.matched)

\* Considering one modifier more is fair.
LEMMA ConsiderIsFair ==
    ASSUME NEW Mods, NEW sold, NEW acc, Fair(acc, Mods, sold), NEW m \in Mods
    PROVE  Fair(Consider(acc, m, sold), Mods, sold)
<1> DEFINE good == m.matching /\ Matchable(m, sold)
                       /\ Enough(Select(sold, ToSet(acc.kept) \cup {m}, item.rarity))
<1>1. PICK after : after = Consider(acc, m, sold)
  OBVIOUS
<1>2. acc \in Search(Mods, sold)
  BY DEF Fair
<1>3. CASE good
  <2>1. /\ after \in Search(Mods, sold)
        /\ after.matched = Select(sold, ToSet(after.kept), item.rarity)
        /\ ToSet(after.kept) = ToSet(acc.kept) \cup {m}
    BY <1>1, <1>2, <1>3, ConsiderKeeps
  <2>2. Enough(Select(sold, ToSet(acc.kept) \cup {m}, item.rarity))
    BY <1>3
  <2>3. Enough(after.matched)
    BY <2>1, <2>2, Zenon
  <2> QED BY <1>1, <2>1, <2>3 DEF Fair
<1>4. CASE ~ good
  <2>1. after \in Search(Mods, sold) /\ after.kept = acc.kept /\ after.matched = acc.matched
    BY <1>1, <1>2, <1>4, ConsiderDrops
  <2> QED BY <1>1, <2>1 DEF Fair
<1> QED BY <1>3, <1>4

\* However many modifiers have been considered, the search has been fair.
LEMMA SearchIsFair ==
    ASSUME NEW Mods, NEW sold, ranked \in Seq(Mods)
    PROVE  \A n \in 0 .. Len(ranked) : Fair(NarrowedUpTo(sold)[n], Mods, sold)
<1> DEFINE S == {n \in 0 .. Len(ranked) : Fair(NarrowedUpTo(sold)[n], Mods, sold)}
<1>1. Len(ranked) \in Nat /\ \A n \in 1 .. Len(ranked) : ranked[n] \in Mods
  OBVIOUS
<1>2. 0 \in S
  <2>1. NarrowedUpTo(sold)[0]
           = [kept |-> <<>>, dropped |-> <<>>, matched |-> Select(sold, {}, item.rarity)]
    BY <1>1, NarrowRecursion
  <2>2. ToSet(<<>>) = {} /\ <<>> \in Seq(Mods)
    BY DEF ToSet
  <2>3. Select(sold, {}, item.rarity) \in SUBSET DOMAIN sold
    BY DEF Select
  <2>4. PICK none : none = Select(sold, {}, item.rarity)
    OBVIOUS
  <2>5. PICK start : start = NarrowedUpTo(sold)[0]
    OBVIOUS
  <2>6. start = [kept |-> <<>>, dropped |-> <<>>, matched |-> none]
    BY <2>1, <2>4, <2>5
  <2>7. start \in Search(Mods, sold)
    BY <2>2, <2>3, <2>4, <2>6 DEF Search
  <2>8. start.matched = none /\ ToSet(start.kept) = {}
    BY <2>2, <2>6
  <2>9. Fair(start, Mods, sold)
    BY <2>4, <2>7, <2>8 DEF Fair
  <2> QED BY <1>1, <2>5, <2>9
<1>3. ASSUME NEW n \in 0 .. Len(ranked), n \in S, n < Len(ranked) PROVE n + 1 \in S
  <2>1. n + 1 \in 0 .. Len(ranked) /\ ranked[n + 1] \in Mods
    BY <1>1, <1>3
  <2>2. NarrowedUpTo(sold)[n + 1] = Consider(NarrowedUpTo(sold)[n], ranked[n + 1], sold)
    BY <1>1, <1>3, NarrowRecursion
  <2>3. Fair(Consider(NarrowedUpTo(sold)[n], ranked[n + 1], sold), Mods, sold)
    BY <1>3, <2>1, ConsiderIsFair
  <2> QED BY <2>1, <2>2, <2>3
<1>4. 0 .. Len(ranked) \subseteq S
  <2> HIDE DEF S
  <2> QED BY <1>1, <1>2, <1>3, SegmentInduction
<1> QED BY <1>4

\* What is kept of the first n modifiers.
Kept(sold, n) == ToSet(NarrowedUpTo(sold)[n].kept)

\* What is kept grows by the modifier that was considered or not at all, and only if enough
\* sales share it.
LEMMA KeptGrows ==
    ASSUME NEW Mods, NEW sold, ranked \in Seq(Mods), NEW n \in 0 .. Len(ranked), n < Len(ranked)
    PROVE  /\ Kept(sold, n) \subseteq Kept(sold, n + 1)
           /\ Kept(sold, n + 1) \subseteq Kept(sold, n) \cup {ranked[n + 1]}
           /\ ranked[n + 1].matching /\ Matchable(ranked[n + 1], sold)
                /\ Enough(Select(sold, Kept(sold, n) \cup {ranked[n + 1]}, item.rarity))
              => ranked[n + 1] \in Kept(sold, n + 1)
<1>1. PICK m \in Mods : m = ranked[n + 1]
  BY SMT
<1>2. PICK acc : acc = NarrowedUpTo(sold)[n]
  OBVIOUS
<1>3. acc \in Search(Mods, sold)
  BY <1>2, SearchIsFair DEF Fair
<1>4. PICK after : after = Consider(acc, m, sold)
  OBVIOUS
<1>5. NarrowedUpTo(sold)[n + 1] = after
  <2>1. Len(ranked) \in Nat
    OBVIOUS
  <2>2. NarrowedUpTo(sold)[n + 1] = Consider(NarrowedUpTo(sold)[n], ranked[n + 1], sold)
    BY <2>1, NarrowRecursion
  <2> QED BY <1>1, <1>2, <1>4, <2>2
<1>6. Kept(sold, n) = ToSet(acc.kept) /\ Kept(sold, n + 1) = ToSet(after.kept)
  BY <1>2, <1>5 DEF Kept
<1> DEFINE good == m.matching /\ Matchable(m, sold)
                       /\ Enough(Select(sold, ToSet(acc.kept) \cup {m}, item.rarity))
<1>7. CASE good
  <2>1. /\ after \in Search(Mods, sold)
        /\ after.matched = Select(sold, ToSet(after.kept), item.rarity)
        /\ ToSet(after.kept) = ToSet(acc.kept) \cup {m}
    BY <1>1, <1>3, <1>4, <1>7, ConsiderKeeps
  <2> HIDE DEF good
  <2>2. Kept(sold, n + 1) = Kept(sold, n) \cup {ranked[n + 1]}
    BY <1>1, <1>6, <2>1
  <2> QED BY <2>2, Zenon
<1>8. CASE ~ good
  <2>1. after.kept = acc.kept
    BY <1>3, <1>4, <1>8, ConsiderDrops
  <2> HIDE DEF good
  <2>2. Kept(sold, n + 1) = Kept(sold, n)
    BY <1>6, <2>1
  <2>3. ~ (/\ m.matching /\ Matchable(m, sold)
           /\ Enough(Select(sold, Kept(sold, n) \cup {m}, item.rarity)))
    <3>1. PICK K : K = Kept(sold, n) /\ K = ToSet(acc.kept)
      BY <1>6
    <3>2. ~ (/\ m.matching /\ Matchable(m, sold)
             /\ Enough(Select(sold, K \cup {m}, item.rarity)))
      BY <1>8, <3>1, Zenon DEF good
    <3> QED BY <3>1, <3>2, Zenon
  <2> QED BY <1>1, <2>2, <2>3, Zenon
<1> QED BY <1>7, <1>8

\* What is kept is on the list, as far as it has been read, and never given up again.
LEMMA KeptIsListed ==
    ASSUME NEW Mods, NEW sold, ranked \in Seq(Mods)
    PROVE  \A n \in 0 .. Len(ranked) :
               /\ Kept(sold, n) \subseteq {ranked[j] : j \in 1 .. n}
               /\ \A i \in 0 .. n : Kept(sold, i) \subseteq Kept(sold, n)
<1> DEFINE S == {n \in 0 .. Len(ranked) :
                    /\ Kept(sold, n) \subseteq {ranked[j] : j \in 1 .. n}
                    /\ \A i \in 0 .. n : Kept(sold, i) \subseteq Kept(sold, n)}
<1>1. Len(ranked) \in Nat
  OBVIOUS
<1>2. 0 \in S
  <2>1. NarrowedUpTo(sold)[0].kept = <<>>
    <3>1. PICK none : none = Select(sold, {}, item.rarity)
      OBVIOUS
    <3>2. NarrowedUpTo(sold)[0] = [kept |-> <<>>, dropped |-> <<>>, matched |-> none]
      BY <1>1, <3>1, NarrowRecursion
    <3> QED BY <3>2
  <2>2. Kept(sold, 0) = {}
    BY <2>1 DEF Kept, ToSet
  <2>3. 0 \in 0 .. Len(ranked) /\ \A i \in 0 .. 0 : i = 0
    BY <1>1
  <2> QED BY <2>2, <2>3, Zenon
<1>3. ASSUME NEW n \in 0 .. Len(ranked), n \in S, n < Len(ranked) PROVE n + 1 \in S
  <2>1. n + 1 \in 0 .. Len(ranked) /\ n \in Nat
    BY <1>1, <1>3
  <2>2. /\ Kept(sold, n) \subseteq Kept(sold, n + 1)
        /\ Kept(sold, n + 1) \subseteq Kept(sold, n) \cup {ranked[n + 1]}
    BY <1>3, KeptGrows
  <2>3. Kept(sold, n + 1) \subseteq {ranked[j] : j \in 1 .. n + 1}
    <3>1. {ranked[j] : j \in 1 .. n} \cup {ranked[n + 1]} \subseteq {ranked[j] : j \in 1 .. n + 1}
      BY <2>1
    <3> QED BY <1>3, <2>2, <3>1
  <2>4. ASSUME NEW i \in 0 .. n + 1 PROVE Kept(sold, i) \subseteq Kept(sold, n + 1)
    <3>1. i = n + 1 \/ i \in 0 .. n
      BY <2>1
    <3> QED BY <1>3, <2>2, <3>1
  <2> QED BY <2>1, <2>3, <2>4
<1>4. 0 .. Len(ranked) \subseteq S
  <2> HIDE DEF S
  <2> QED BY <1>1, <1>2, <1>3, SegmentInduction
<1> QED BY <1>4

\* Of two sets of listed modifiers, one has the first on the list that tells them apart.
LEMMA FirstDifference ==
    ASSUME NEW Mods, ranked \in Seq(Mods), NEW mods \in SUBSET ToSet(ranked),
           NEW others \in SUBSET ToSet(ranked), mods # others
    PROVE  \E i \in DOMAIN ranked :
               /\ ~ (ranked[i] \in mods <=> ranked[i] \in others)
               /\ \A j \in 1 .. (i - 1) : ranked[j] \in mods <=> ranked[j] \in others
<1> DEFINE T == {i \in DOMAIN ranked : ~ (ranked[i] \in mods <=> ranked[i] \in others)}
<1>1. DOMAIN ranked = 1 .. Len(ranked) /\ Len(ranked) \in Nat
  OBVIOUS
<1>2. T \in SUBSET Nat
  BY <1>1
<1>3. T # {}
  <2>1. PICK m \in ToSet(ranked) : ~ (m \in mods <=> m \in others)
    OBVIOUS
  <2>2. PICK i \in DOMAIN ranked : m = ranked[i]
    BY <2>1 DEF ToSet
  <2>3. i \in T
    BY <2>1, <2>2
  <2> QED BY <2>3
<1>4. PICK i \in T : \A j \in T : i <= j
  <2> HIDE DEF T
  <2> QED BY <1>2, <1>3, LeastNatural
<1>5. ASSUME NEW j \in 1 .. (i - 1) PROVE ranked[j] \in mods <=> ranked[j] \in others
  <2>1. j \in DOMAIN ranked /\ ~ (i <= j)
    BY <1>1, <1>2
  <2>2. j \notin T
    BY <1>4, <2>1
  <2> QED BY <2>1, <2>2
<1> QED BY <1>4, <1>5

\* No set of testable modifiers that enough sales share has a more valuable one first.
LEMMA SearchKeepsBest ==
    ASSUME NEW Mods, NEW sold, IsFiniteSet(DOMAIN sold), ranked \in Seq(Mods),
           NEW mods \in SUBSET {m \in ToSet(ranked) : m.matching /\ Matchable(m, sold)},
           Enough(Select(sold, mods, item.rarity)), mods # Kept(sold, Len(ranked))
    PROVE  Outranks(Kept(sold, Len(ranked)), mods)
<1> DEFINE K == Kept(sold, Len(ranked))
<1>1. Len(ranked) \in Nat /\ DOMAIN ranked = 1 .. Len(ranked)
  OBVIOUS
<1>2. K \subseteq ToSet(ranked)
  <2>1. K \subseteq {ranked[j] : j \in 1 .. Len(ranked)}
    BY <1>1, KeptIsListed
  <2> QED BY <1>1, <2>1 DEF ToSet
<1>3. PICK i \in DOMAIN ranked :
          /\ ~ (ranked[i] \in K <=> ranked[i] \in mods)
          /\ \A j \in 1 .. (i - 1) : ranked[j] \in K <=> ranked[j] \in mods
  <2> HIDE DEF K
  <2>1. K # mods
    BY DEF K
  <2>2. mods \in SUBSET ToSet(ranked)
    OBVIOUS
  <2> QED BY <1>2, <2>1, <2>2, FirstDifference
<1>4. SUFFICES ASSUME ranked[i] \in mods, ranked[i] \notin K PROVE FALSE
  <2> HIDE DEF K
  <2>1. CASE ranked[i] \in K \ mods
    <3>1. Outranks(K, mods)
      BY <1>3, <2>1 DEF Outranks
    <3> QED BY <3>1 DEF K
  <2> QED BY <1>3, <2>1
<1>5. PICK n \in 0 .. Len(ranked) : n + 1 = i /\ n < Len(ranked)
  <2>1. i - 1 \in 0 .. Len(ranked) /\ (i - 1) + 1 = i /\ i - 1 < Len(ranked)
    BY <1>1
  <2> QED BY <2>1
<1>6. Kept(sold, n) \cup {ranked[i]} \subseteq mods
  <2>1. Kept(sold, n) \subseteq {ranked[j] : j \in 1 .. n}
    BY KeptIsListed
  <2>2. Kept(sold, n) \subseteq K
    <3>1. Len(ranked) \in 0 .. Len(ranked) /\ n \in 0 .. Len(ranked)
      BY <1>1
    <3> QED BY <3>1, KeptIsListed
  <2>3. \A j \in 1 .. n : ranked[j] \in K <=> ranked[j] \in mods
    BY <1>3, <1>5
  <2> HIDE DEF K
  <2> QED BY <1>4, <2>1, <2>2, <2>3
<1>7. Enough(Select(sold, Kept(sold, n) \cup {ranked[i]}, item.rarity))
  <2>1. Select(sold, mods, item.rarity)
           \in SUBSET Select(sold, Kept(sold, n) \cup {ranked[i]}, item.rarity)
    BY <1>6, MoreMatchFewer
  <2>2. IsFiniteSet(Select(sold, Kept(sold, n) \cup {ranked[i]}, item.rarity))
    BY SelectIsFinite
  <2> QED BY <2>1, <2>2, EnoughOfMore
<1>8. ranked[i] \in Kept(sold, i)
  <2>1. ranked[i].matching /\ Matchable(ranked[i], sold)
    BY <1>4
  <2> QED BY <1>5, <1>7, <2>1, KeptGrows
<1>9. Kept(sold, i) \subseteq K
  <2>1. i \in 0 .. Len(ranked) /\ Len(ranked) \in 0 .. Len(ranked)
    BY <1>1
  <2> QED BY <2>1, KeptIsListed
<1> QED BY <1>4, <1>8, <1>9

-----------------------------------------------------------------------------
(***************************************************************************)
(* Queries.                                                                *)
(***************************************************************************)
\* A modifier adds filters and takes none away.
LEMMA AddFilterGrows ==
    ASSUME NEW asks, NEW m
    PROVE  asks \subseteq AddFilter(asks, m)
BY DEF AddFilter

\* A list of modifiers asks no less than a beginning of it.
LEMMA FiltersGrow ==
    ASSUME NEW Mods, NEW mods \in Seq(Mods), NEW picked,
           NEW w \in 0 .. Len(mods), NEW v \in 0 .. w
    PROVE  ToFilters(SubSeq(mods, 1, v), picked) \subseteq ToFilters(SubSeq(mods, 1, w), picked)
<1> DEFINE short == SubSeq(mods, 1, v)
           long == SubSeq(mods, 1, w)
<1>1. v \in Nat /\ w \in Nat /\ v <= w /\ w <= Len(mods) /\ Len(mods) \in Nat
  OBVIOUS
<1>2. \A n \in 1 .. w : mods[n] \in Mods
  BY <1>1
<1>3. /\ Len(short) = v /\ Len(long) = w
      /\ \A n \in 0 .. v : n < v => short[n + 1] = long[n + 1]
  <2>1. Len(short) = v /\ \A n \in 1 .. v : short[n] = mods[n]
    <3>1. Len(short) = IF 1 <= v THEN v - 1 + 1 ELSE 0
      BY <1>1, <1>2, SubSeqProperties
    <3>2. \A n \in 1 .. v - 1 + 1 : short[n] = mods[1 + n - 1]
      BY <1>1, <1>2, SubSeqProperties
    <3> QED BY <1>1, <3>1, <3>2
  <2>2. Len(long) = w /\ \A n \in 1 .. w : long[n] = mods[n]
    <3>1. Len(long) = IF 1 <= w THEN w - 1 + 1 ELSE 0
      BY <1>1, <1>2, SubSeqProperties
    <3>2. \A n \in 1 .. w - 1 + 1 : long[n] = mods[1 + n - 1]
      BY <1>1, <1>2, SubSeqProperties
    <3> QED BY <1>1, <3>1, <3>2
  <2>3. \A n \in 0 .. v : n < v => n + 1 \in 1 .. v /\ n + 1 \in 1 .. w
    BY <1>1
  <2> QED BY <2>1, <2>2, <2>3
<1> HIDE DEF short, long
<1>4. PICK F : F = FiltersUpTo(short, picked)
  OBVIOUS
<1>5. PICK G : G = FiltersUpTo(long, picked)
  OBVIOUS
<1>6. F[0] = G[0]
  BY <1>1, <1>3, <1>4, <1>5, FiltersRecursion
<1>7. \A n \in 0 .. v : n < v => F[n + 1] = AddFilter(F[n], short[n + 1])
  BY <1>1, <1>3, <1>4, FiltersRecursion
<1>8. \A n \in 0 .. w : n < w => G[n + 1] = AddFilter(G[n], long[n + 1])
  BY <1>1, <1>3, <1>5, FiltersRecursion
<1>9. F[v] = G[v]
  <2> DEFINE S == {n \in 0 .. v : F[n] = G[n]}
  <2>1. 0 \in S
    BY <1>1, <1>3, <1>6
  <2>2. ASSUME NEW n \in 0 .. v, n \in S, n < v PROVE n + 1 \in S
    <3>1. n + 1 \in 0 .. v /\ n \in 0 .. w /\ n < w
      BY <1>1, <1>3, <2>2
    <3> QED BY <1>1, <1>3, <1>7, <1>8, <2>2, <3>1
  <2>3. 0 .. v \subseteq S
    <3> HIDE DEF S
    <3> QED BY <1>1, <1>3, <2>1, <2>2, SegmentInduction
  <2> QED BY <1>1, <1>3, <2>3
<1>10. G[v] \subseteq G[w]
  <2> DEFINE S == {n \in 0 .. w : n >= v => G[v] \subseteq G[n]}
  <2>1. 0 \in S
    BY <1>1, <1>3
  <2>2. ASSUME NEW n \in 0 .. w, n \in S, n < w PROVE n + 1 \in S
    <3>1. n + 1 \in 0 .. w
      BY <1>1, <1>3, <2>2
    <3>2. G[n] \subseteq G[n + 1]
      BY <1>8, <2>2, AddFilterGrows
    <3>3. n + 1 = v \/ (n + 1 >= v => n >= v)
      BY <1>1, <1>3
    <3> QED BY <2>2, <3>1, <3>2, <3>3
  <2>3. 0 .. w \subseteq S
    <3> HIDE DEF S
    <3> QED BY <1>1, <1>3, <2>1, <2>2, SegmentInduction
  <2> QED BY <1>1, <1>3, <2>3
<1>11. ToFilters(short, picked) = F[v] /\ ToFilters(long, picked) = G[w]
  BY <1>1, <1>3, <1>4, <1>5 DEF ToFilters
<1> QED BY <1>9, <1>10, <1>11 DEF short, long

\* Halving comes down to nothing, and never goes up.
LEMMA HalvingGoesDown ==
    ASSUME NEW size \in Nat
    PROVE  /\ \A i \in 0 .. size : Halved(size)[i] \in 0 .. (size - i)
           /\ \A i \in 0 .. size : i < size => Halved(size)[i + 1] <= Halved(size)[i]
<1>1. PICK h : h = Halved(size)
  OBVIOUS
<1>2. h[0] = size /\ \A i \in 0 .. size : i < size => h[i + 1] = h[i] \div 2
  BY <1>1, HalvingRecursion
<1> DEFINE S == {i \in 0 .. size : h[i] \in 0 .. (size - i)}
<1>3. 0 \in S
  BY <1>2
<1>4. ASSUME NEW i \in 0 .. size, i \in S, i < size PROVE i + 1 \in S
  <2>1. PICK x \in 0 .. (size - i) : x = h[i]
    BY <1>4
  <2>2. x \div 2 \in 0 .. (size - (i + 1))
    BY <1>4, <2>1
  <2>3. h[i + 1] = x \div 2 /\ i + 1 \in 0 .. size
    BY <1>2, <1>4, <2>1
  <2> QED BY <2>2, <2>3
<1>5. 0 .. size \subseteq S
  <2> HIDE DEF S
  <2> QED BY <1>3, <1>4, SegmentInduction
<1>6. ASSUME NEW i \in 0 .. size, i < size PROVE h[i + 1] <= h[i]
  <2>1. PICK x \in 0 .. (size - i) : x = h[i]
    BY <1>5
  <2>2. x \div 2 <= x
    BY <2>1
  <2>3. h[i + 1] = x \div 2
    BY <1>2, <1>6, <2>1
  <2> QED BY <2>1, <2>2, <2>3
<1> QED BY <1>1, <1>5, <1>6

\* What the queries ask for: no more each time, and in the end nothing or the budget is used up.
LEMMA QueriesNarrow ==
    ASSUME NEW size \in Nat
    PROVE  \E last \in Nat :
              /\ last <= size /\ last <= MaxActiveRelaxations
              /\ Halvings(size) \in [1 .. last + 1 -> 0 .. size]
              /\ \A i \in 1 .. last : Halvings(size)[i + 1] <= Halvings(size)[i]
              /\ Halvings(size)[last + 1] = 0 \/ last = MaxActiveRelaxations
<1> DEFINE Zeros == {i \in 0 .. size : Halved(size)[i] = 0}
<1>1. Zeros \in SUBSET Nat /\ size \in Zeros
  <2>1. Halved(size)[size] \in 0 .. (size - size)
    BY HalvingGoesDown
  <2> QED BY <2>1
<1>2. PICK gone \in Zeros : gone = Min(Zeros)
  <2> HIDE DEF Zeros
  <2>1. Min(Zeros) \in Zeros
    BY <1>1, SmallestIsMin
  <2> QED BY <2>1
<1>3. gone \in 0 .. size /\ Halved(size)[gone] = 0
  BY <1>2
<1>4. PICK last : last = Least(gone, MaxActiveRelaxations)
  OBVIOUS
<1>5. last \in Nat /\ last <= gone /\ last <= MaxActiveRelaxations
      /\ (last = gone \/ last = MaxActiveRelaxations)
  BY <1>3, <1>4, SettingsAssumption DEF Least
<1>6. Halvings(size) = [i \in 1 .. last + 1 |-> Halved(size)[i - 1]]
  BY <1>2, <1>4, Zenon DEF Halvings
<1>7. \A i \in 1 .. last + 1 : Halved(size)[i - 1] \in 0 .. size
  <2> TAKE i \in 1 .. last + 1
  <2>1. i - 1 \in 0 .. size
    BY <1>3, <1>5
  <2>2. Halved(size)[i - 1] \in 0 .. (size - (i - 1))
    BY <2>1, HalvingGoesDown
  <2> QED BY <2>1, <2>2
<1>8. ASSUME NEW i \in 1 .. last PROVE Halvings(size)[i + 1] <= Halvings(size)[i]
  <2>1. i - 1 \in 0 .. size /\ i - 1 < size /\ i + 1 \in 1 .. last + 1 /\ i \in 1 .. last + 1
        /\ (i + 1) - 1 = (i - 1) + 1
    BY <1>3, <1>5
  <2>2. Halved(size)[(i - 1) + 1] <= Halved(size)[i - 1]
    BY <2>1, HalvingGoesDown
  <2> QED BY <1>6, <2>1, <2>2
<1>9. Halvings(size)[last + 1] = Halved(size)[last]
  BY <1>5, <1>6
<1>10. Halvings(size) \in [1 .. last + 1 -> 0 .. size]
  BY <1>6, <1>7
<1> QED BY <1>3, <1>5, <1>8, <1>9, <1>10

-----------------------------------------------------------------------------
(***************************************************************************)
(* Rungs.                                                                  *)
(***************************************************************************)
\* What a discount leaves is whole and no more than what was discounted.
LEMMA LessBounds ==
    ASSUME NEW worth \in Nat, NEW bp \in Nat
    PROVE  /\ Less(worth, bp) \in Int
           /\ Less(worth, bp) <= worth
           /\ 10000 * Less(worth, bp) <= 10000 * worth - bp * worth
<1>1. PICK product \in Nat : product = bp * worth
  <2>1. bp * worth \in Nat
    OBVIOUS
  <2> QED BY <2>1
<1>2. worth * (10000 - bp) = 10000 * worth - product
  BY <1>1
<1>3. Less(worth, bp) = (10000 * worth - product) \div 10000
  BY <1>2 DEF Less
<1>4. PICK whole \in Int : whole = 10000 * worth - product
  BY <1>1
<1>5. /\ whole \div 10000 \in Int
      /\ 10000 * (whole \div 10000) <= whole
  BY <1>4, ShareBounds
<1> QED BY <1>1, <1>3, <1>4, <1>5

\* The tax on a sale is whole and no more than its rate.
LEMMA TaxBounds ==
    ASSUME NEW worth \in Nat
    PROVE  /\ (worth * RateBp(worth)) \div 10000 \in Nat
           /\ 10000 * ((worth * RateBp(worth)) \div 10000) <= RateBp(worth) * worth
<1>1. PICK rate \in Nat : rate = RateBp(worth)
  BY RateIsNatural
<1>2. PICK product \in Nat : product = worth * rate /\ product = rate * worth
  <2>1. worth * rate \in Nat /\ worth * rate = rate * worth
    BY <1>1
  <2> QED BY <2>1
<1>3. product \div 10000 \in Nat /\ 10000 * (product \div 10000) <= product
  BY <1>2, SMT
<1> QED BY <1>1, <1>2, <1>3

\* What a ladder's rungs say: coins and profit follow from the discount, and
\* a step says whether the discount meets the floor.
Honest(rung, worth, hours, risk) ==
    \E bp \in Nat :
        /\ rung.coins = Less(worth, bp)
        /\ rung.profit = ProfitAt(Less(worth, bp), worth, hours)
        /\ rung.kind \in {"STEP", "RULE"} => rung.meets = MeetsFloor(bp, worth, hours, risk)

\* A rung of the percentages is honest.
LEMMA StepIsHonest ==
    ASSUME NEW worth, NEW hours, NEW risk, NEW ruling, NEW bp \in Nat
    PROVE  Honest(Step(bp, worth, hours, risk, ruling), worth, hours, risk)
<1>1. PICK coins, profit, meets :
          /\ coins = Less(worth, bp) /\ profit = ProfitAt(Less(worth, bp), worth, hours)
          /\ meets = MeetsFloor(bp, worth, hours, risk)
  OBVIOUS
<1>2. PICK rung : rung = Step(bp, worth, hours, risk, ruling)
  OBVIOUS
<1>3. rung.coins = coins /\ rung.profit = profit /\ rung.meets = meets
  BY <1>1, <1>2 DEF Step
<1> QED BY <1>1, <1>2, <1>3, Zenon DEF Honest

\* So are the two that break even and that sell at once.
LEMMA TopIsHonest ==
    ASSUME NEW worth \in Nat, NEW hours, NEW risk
    PROVE  /\ TopRungs(worth, hours) \in [1 .. 2 -> {TopRungs(worth, hours)[i] : i \in 1 .. 2}]
           /\ \A i \in 1 .. 2 : Honest(TopRungs(worth, hours)[i], worth, hours, risk)
<1>1. PICK rate \in Nat : rate = RateBp(worth)
  BY RateIsNatural
<1> DEFINE rung(kind, bp) == [kind |-> kind, pct |-> bp, coins |-> Less(worth, bp),
                              profit |-> ProfitAt(Less(worth, bp), worth, hours),
                              meets |-> TRUE]
<1>2. TopRungs(worth, hours) = <<rung("ESTIMATE", 0), rung("NET_OF_TAX", rate)>>
  BY <1>1, Zenon DEF TopRungs
<1>3. ASSUME NEW kind \in {"ESTIMATE", "NET_OF_TAX"}, NEW bp \in Nat
      PROVE  Honest(rung(kind, bp), worth, hours, risk)
  <2>1. PICK coins, profit :
            coins = Less(worth, bp) /\ profit = ProfitAt(Less(worth, bp), worth, hours)
    OBVIOUS
  <2>2. PICK r : r = rung(kind, bp)
    OBVIOUS
  <2>3. r.coins = coins /\ r.profit = profit /\ r.kind \notin {"STEP", "RULE"}
    BY <2>1, <2>2
  <2> HIDE DEF rung
  <2> QED BY <2>1, <2>2, <2>3, Zenon DEF Honest
<1> HIDE DEF rung
<1>4. Honest(rung("ESTIMATE", 0), worth, hours, risk)
      /\ Honest(rung("NET_OF_TAX", rate), worth, hours, risk)
  BY <1>1, <1>3
<1> QED BY <1>2, <1>4

\* The discounts of a ladder are finitely many.
LEMMA DiscountsAreFinite ==
    ASSUME NEW ruling, ruling.offer \in Nat \cup {None}
    PROVE  LET pcts == LadderPercentages \cup Only(ruling.offer # None, ruling.offer)
           IN  IsFiniteSet(pcts) /\ pcts \in SUBSET Nat
<1> DEFINE n == Nearest(LadderMax - LadderMin, LadderStep)
<1>1. LadderMin \in Nat /\ LadderMax \in Nat /\ LadderStep \in Nat \ {0}
  BY PricingAssumption
<1>2. n \in Int
  BY <1>1, QuotientBounds DEF Nearest
<1> HIDE DEF n
<1>3. \A i \in 0 .. n : LadderMin + LadderStep * i \in Nat
  BY <1>1, <1>2
<1>4. IsFiniteSet(0 .. n)
  BY <1>2, FS_Interval
<1> DEFINE at == [i \in 0 .. n |-> LadderMin + LadderStep * i]
<1>5. LadderPercentages = {at[i] : i \in 0 .. n}
  BY DEF LadderPercentages, n
<1>6. IsFiniteSet(LadderPercentages) /\ LadderPercentages \in SUBSET Nat
  <2>1. \A i \in 0 .. n : at[i] \in Nat
    BY <1>3
  <2> HIDE DEF at
  <2>2. IsFiniteSet({at[i] : i \in 0 .. n})
    BY <1>4, FiniteRange
  <2> QED BY <1>5, <2>1, <2>2
<1>7. CASE ruling.offer = None
  BY <1>6, <1>7 DEF Only
<1>8. CASE ruling.offer # None
  <2>1. Only(ruling.offer # None, ruling.offer) = {ruling.offer} /\ ruling.offer \in Nat
    BY <1>8 DEF Only
  <2>2. IsFiniteSet(LadderPercentages \cup {ruling.offer})
    BY <1>6, FS_AddElement
  <2> QED BY <1>6, <2>1, <2>2
<1> QED BY <1>7, <1>8

\* So is every rung of the percentages and of the rule.
LEMMA StepsAreHonest ==
    ASSUME NEW worth, NEW hours, NEW risk, NEW ruling, ruling.offer \in Nat \cup {None}
    PROVE  \E n \in Nat :
              /\ Steps(worth, hours, risk, ruling)
                    \in [1 .. n -> {Steps(worth, hours, risk, ruling)[i] : i \in 1 .. n}]
              /\ \A i \in 1 .. n :
                    Honest(Steps(worth, hours, risk, ruling)[i], worth, hours, risk)
<1>1. PICK pcts : pcts = LadderPercentages \cup Only(ruling.offer # None, ruling.offer)
  OBVIOUS
<1>2. IsFiniteSet(pcts) /\ pcts \in SUBSET Nat
  BY <1>1, DiscountsAreFinite
<1>3. PICK n \in Nat : n = Cardinality(pcts)
  BY <1>2, FS_CardinalityType
<1> DEFINE same == [p \in pcts |-> p]
<1>4. Steps(worth, hours, risk, ruling)
         = [i \in 1 .. n |-> Step(Nth(same, i), worth, hours, risk, ruling)]
  BY <1>1, <1>3, Zenon DEF Steps
<1>5. same \in [pcts -> Nat]
  BY <1>2
<1> HIDE DEF same
<1>6. \A i \in 1 .. n : Nth(same, i) \in Nat
  BY <1>2, <1>3, <1>5, NthIsValue
<1>7. \A i \in 1 .. n : Honest(Step(Nth(same, i), worth, hours, risk, ruling), worth, hours, risk)
  BY <1>6, StepIsHonest
<1> QED BY <1>4, <1>7

\* A function on the first numbers is a list.
LEMMA FunctionIsList ==
    ASSUME NEW S, NEW n \in Nat, NEW list \in [1 .. n -> S]
    PROVE  list \in Seq(S) /\ Len(list) = n
OBVIOUS

\* Every rung of a ladder is honest about the capped estimate it is built on.
LEMMA LaddersAreHonest ==
    ASSUME NEW worth \in Nat, NEW hours, NEW risk, NEW ruling,
           ruling.offer \in Nat \cup {None}, ruling.cap \in Nat \cup {None},
           NEW curve, NEW exploring,
           NEW built \in Ladders(worth, hours, risk, ruling, curve, exploring)
    PROVE  /\ built.estimate = Capped(worth, ruling) /\ built.estimate \in Nat
           /\ built.hours = hours /\ built.neverBuy = ruling.excluded
           /\ \A i \in DOMAIN built.rungs : Honest(built.rungs[i], built.estimate, hours, risk)
<1>1. PICK used : used = Capped(worth, ruling)
  OBVIOUS
<1>2. used \in Nat
  BY <1>1 DEF Capped, Least
<1>3. PICK steps, top : steps = Steps(used, hours, risk, ruling) /\ top = TopRungs(used, hours)
  OBVIOUS
<1>4. PICK n \in Nat : /\ steps \in [1 .. n -> {steps[i] : i \in 1 .. n}]
                      /\ \A i \in 1 .. n : Honest(steps[i], used, hours, risk)
  BY <1>3, StepsAreHonest
<1>5. /\ top \in [1 .. 2 -> {top[i] : i \in 1 .. 2}]
      /\ \A i \in 1 .. 2 : Honest(top[i], used, hours, risk)
  BY <1>2, <1>3, TopIsHonest
<1>6. PICK rungs, best, never : built = [estimate |-> used, hours |-> hours, rungs |-> rungs,
                                         recommended |-> best, neverBuy |-> never]
                                /\ rungs = top \o steps /\ never = ruling.excluded
  BY <1>1, <1>3, Zenon DEF Ladders
<1>7. /\ built.estimate = used /\ built.hours = hours /\ built.rungs = rungs
      /\ built.neverBuy = never
  BY <1>6
<1>8. rungs = [i \in 1 .. 2 + n |-> IF i <= 2 THEN top[i] ELSE steps[i - 2]]
  <2> DEFINE S == {top[i] : i \in 1 .. 2} \cup {steps[i] : i \in 1 .. n}
  <2>1. {top[i] : i \in 1 .. 2} \subseteq S /\ {steps[i] : i \in 1 .. n} \subseteq S
    OBVIOUS
  <2> HIDE DEF S
  <2>2. top \in [1 .. 2 -> S] /\ steps \in [1 .. n -> S]
    <3>1. PICK T \in SUBSET S : T = {top[i] : i \in 1 .. 2}
      BY <2>1
    <3>2. PICK T2 \in SUBSET S : T2 = {steps[i] : i \in 1 .. n}
      BY <2>1
    <3>3. top \in [1 .. 2 -> T] /\ steps \in [1 .. n -> T2]
      BY <1>4, <1>5, <3>1, <3>2, Zenon
    <3> QED BY <3>1, <3>2, <3>3
  <2>3. top \in Seq(S) /\ Len(top) = 2
    BY <2>2, FunctionIsList
  <2>4. steps \in Seq(S) /\ Len(steps) = n
    BY <1>4, <2>2, FunctionIsList
  <2>5. PICK all : all = top \o steps
    OBVIOUS
  <2>6. all \in Seq(S) /\ Len(all) = Len(top) + Len(steps)
    BY <2>3, <2>4, <2>5, ConcatProperties
  <2>7. \A i \in 1 .. Len(top) + Len(steps) :
            all[i] = IF i <= Len(top) THEN top[i] ELSE steps[i - Len(top)]
    BY <2>3, <2>4, <2>5, ConcatProperties
  <2>8. all = [i \in 1 .. Len(all) |-> all[i]]
    BY <2>6
  <2> QED BY <1>4, <1>6, <2>3, <2>4, <2>5, <2>6, <2>7, <2>8
<1>9. ASSUME NEW i \in 1 .. 2 + n PROVE Honest(rungs[i], used, hours, risk)
  <2>1. CASE i <= 2
    <3>1. rungs[i] = top[i] /\ i \in 1 .. 2
      BY <1>8, <2>1
    <3> QED BY <1>5, <3>1
  <2>2. CASE ~ (i <= 2)
    <3>1. rungs[i] = steps[i - 2] /\ i - 2 \in 1 .. n
      BY <1>4, <1>8, <2>2
    <3> QED BY <1>4, <3>1
  <2> QED BY <2>1, <2>2
<1>10. DOMAIN rungs = 1 .. 2 + n
  BY <1>8
<1> QED BY <1>1, <1>2, <1>6, <1>7, <1>9, <1>10

\* An honest rung books what a resale at the estimate leaves, and pays no more than the estimate.
LEMMA HonestProfit ==
    ASSUME NEW worth \in Nat, worth > 0, NEW hours \in Nat, NEW risk, NEW rung,
           Honest(rung, worth, hours, risk)
    PROVE  /\ rung.profit = Proceeds(worth, hours) - rung.coins
           /\ rung.coins \in Int /\ rung.coins <= worth
<1>1. PICK bp \in Nat : /\ rung.coins = Less(worth, bp)
                        /\ rung.profit = ProfitAt(Less(worth, bp), worth, hours)
  BY Zenon DEF Honest
<1>2. PICK tax \in Nat : tax = (worth * RateBp(worth)) \div 10000
  BY TaxBounds
<1>3. PICK n \in Nat : n = RelistCount(hours) /\ n = Listings(hours)
  BY RelistsAreRuns, ListingsAreRelists
<1>4. ClaimTax(worth) = tax /\ ListingFee(worth) = tax
  BY <1>2 DEF ClaimTax, ListingFee
<1>5. PICK cost \in Nat : cost = tax * n /\ cost = n * tax
  <2>1. tax * n \in Nat /\ tax * n = n * tax
    BY <1>2, <1>3
  <2> QED BY <2>1
<1>6. ListingCost(worth, hours) = cost
  BY <1>3, <1>4, <1>5 DEF ListingCost
<1>7. PICK coins \in Int : coins = Less(worth, bp) /\ coins <= worth
  BY LessBounds
<1>8. ProfitAt(coins, worth, hours) = worth - tax - cost - coins
  BY <1>2, <1>6 DEF ProfitAt
<1>9. Proceeds(worth, hours) = worth - tax - cost
  BY <1>3, <1>4, <1>5 DEF Proceeds
<1> QED BY <1>1, <1>7, <1>8, <1>9

\* An honest rung that meets the floor leaves the margin and the return on its hours.
LEMMA HonestCovers ==
    ASSUME NEW worth \in Nat, worth > 0, NEW hours \in Nat, NEW risk \in Nat, NEW rung,
           Honest(rung, worth, hours, risk), rung.kind \in {"STEP", "RULE"}, rung.meets
    PROVE  10000 * (Proceeds(worth, hours) - rung.coins)
               >= Margin * worth + 10000 * HourlyReturn * hours
<1>1. PICK bp \in Nat : rung.coins = Less(worth, bp) /\ MeetsFloor(bp, worth, hours, risk)
  <2>1. PICK bp \in Nat : rung.coins = Less(worth, bp)
                          /\ rung.meets = MeetsFloor(bp, worth, hours, risk)
    BY Zenon DEF Honest
  <2> QED BY <2>1, Zenon
<1>2. PICK tax \in Nat : /\ tax = (worth * RateBp(worth)) \div 10000
                         /\ 10000 * tax <= RateBp(worth) * worth
  BY TaxBounds
<1>3. PICK n \in Nat : n = RelistCount(hours) /\ n = Listings(hours)
  BY RelistsAreRuns, ListingsAreRelists
<1>4. ClaimTax(worth) = tax /\ ListingFee(worth) = tax
  BY <1>2 DEF ClaimTax, ListingFee
<1>5. PICK cost \in Nat : cost = tax * n /\ cost = n * tax
  <2>1. tax * n \in Nat /\ tax * n = n * tax
    BY <1>2, <1>3
  <2> QED BY <2>1
<1>6. ListingCost(worth, hours) = cost
  BY <1>3, <1>4, <1>5 DEF ListingCost
<1>7. Proceeds(worth, hours) = worth - tax - cost
  BY <1>3, <1>4, <1>5 DEF Proceeds
<1>8. PICK rate \in Nat : rate = RateBp(worth)
  BY RateIsNatural
<1>9. PICK margin \in Nat, return \in Nat : margin = Margin /\ return = HourlyReturn
  BY PricingAssumption
<1>10. Most(1, worth) = worth
  BY DEF Most
<1>11. bp * worth >= (rate + risk + margin) * worth + 10000 * (cost + return * hours)
  BY <1>1, <1>6, <1>8, <1>9, <1>10 DEF MeetsFloor
<1>12. PICK share \in Nat, risks \in Nat, margins \in Nat, held \in Nat, given \in Nat :
           /\ share = rate * worth /\ risks = risk * worth /\ margins = margin * worth
           /\ held = return * hours /\ given = bp * worth
  <2>1. /\ rate * worth \in Nat /\ risk * worth \in Nat /\ margin * worth \in Nat
        /\ return * hours \in Nat /\ bp * worth \in Nat
    OBVIOUS
  <2> QED BY <2>1
<1>13. (rate + risk + margin) * worth = share + risks + margins
  BY <1>12
<1>14. 10000 * return * hours = 10000 * held
  BY <1>12
<1>15. given >= share + risks + margins + 10000 * (cost + held)
  BY <1>11, <1>12, <1>13
<1>16. PICK coins \in Int : coins = rung.coins /\ 10000 * coins <= 10000 * worth - given
  BY <1>1, <1>12, LessBounds
<1>17. 10000 * tax <= share
  BY <1>2, <1>8, <1>12
<1>18. 10000 * (worth - tax - cost - coins) >= margins + 10000 * held
  BY <1>15, <1>16, <1>17
<1> QED BY <1>7, <1>9, <1>12, <1>14, <1>16, <1>18

-----------------------------------------------------------------------------
(***************************************************************************)
(* Rules.                                                                  *)
(***************************************************************************)
\* What a rule may say.
IsRule(rule) ==
    /\ rule.offer \in Nat \cup {None} /\ rule.cap \in Nat \cup {None}
    /\ rule.exclude \in BOOLEAN /\ rule.stop \in BOOLEAN

\* A list of rules.
IsRuleSet(ruleSet) ==
    /\ Len(ruleSet) \in Nat /\ DOMAIN ruleSet = 1 .. Len(ruleSet)
    /\ \A n \in DOMAIN ruleSet : IsRule(ruleSet[n])

\* What a rules file holds are rules.
LEMMA SavedRules ==
    ASSUME NEW ruleSet \in RuleSets
    PROVE  IsRuleSet(ruleSet)
<1>1. /\ Len(ruleSet) \in Nat /\ DOMAIN ruleSet = 1 .. Len(ruleSet)
      /\ \A n \in DOMAIN ruleSet : /\ {ruleSet[n].offer, ruleSet[n].cap} \subseteq Nat \cup {None}
                                   /\ {ruleSet[n].exclude, ruleSet[n].stop} \subseteq BOOLEAN
  BY SavedAssumption
<1>2. ASSUME NEW n \in DOMAIN ruleSet PROVE IsRule(ruleSet[n])
  <2>1. PICK rule : rule = ruleSet[n]
    OBVIOUS
  <2>2. /\ {rule.offer, rule.cap} \subseteq Nat \cup {None}
        /\ {rule.exclude, rule.stop} \subseteq BOOLEAN
    BY <1>1, <2>1
  <2> QED BY <2>1, <2>2, Zenon DEF IsRule
<1> QED BY <1>1, <1>2 DEF IsRuleSet

\* What may be decided.
IsRuling(d) ==
    /\ d.offer \in Nat \cup {None} /\ d.cap \in Nat \cup {None}
    /\ d.excluded \in BOOLEAN /\ d.stopped \in BOOLEAN

\* A ruling is no laxer than a cap and an exclusion.
Heeds(d, cap, exclude) ==
    /\ cap # None => d.cap # None /\ d.cap <= cap
    /\ exclude => d.excluded

\* One rule more: what is decided heeds what was decided before and the rule, if it spoke,
\* and only a rule that spoke stops the rest.
LEMMA AskedRule ==
    ASSUME NEW d, IsRuling(d), NEW rule, IsRule(rule), NEW name, NEW context
    PROVE  LET after == Ask(d, rule, name, context)
           IN  /\ IsRuling(after)
               /\ Heeds(after, d.cap, d.excluded)
               /\ ~ d.stopped /\ Matches(rule, context) => Heeds(after, rule.cap, rule.exclude)
               /\ after.stopped => d.stopped \/ (rule.stop /\ Matches(rule, context))
<1>1. PICK after : after = Ask(d, rule, name, context)
  OBVIOUS
<1>2. CASE d.stopped \/ ~ Matches(rule, context)
  <2>1. after = d
    BY <1>1, <1>2 DEF Ask
  <2>2. Heeds(d, d.cap, d.excluded)
    BY DEF Heeds, IsRuling
  <2>3. ~ (~ d.stopped /\ Matches(rule, context)) /\ (after.stopped => d.stopped)
    BY <1>2, <2>1
  <2> QED BY <1>1, <2>1, <2>2, <2>3
<1>3. CASE ~ (d.stopped \/ ~ Matches(rule, context))
  <2>1. after = Decide(d, rule, name)
    BY <1>1, <1>3 DEF Ask
  <2> DEFINE offers == rule.offer # None /\ d.offer = None
             caps == rule.cap # None /\ Lower(d.cap, rule.cap) # d.cap
             excludes == rule.exclude /\ ~ d.excluded
  <2>2. PICK offer, by, cap, excluded, stopped :
            /\ offer = IF offers THEN rule.offer ELSE d.offer
            /\ by = IF offers THEN name ELSE d.by
            /\ cap = IF caps THEN rule.cap ELSE d.cap
            /\ excluded = (d.excluded \/ rule.exclude)
            /\ stopped = (rule.stop /\ (offers \/ caps \/ excludes \/ rule.note))
    OBVIOUS
  <2>3. Decide(d, rule, name) = [offer |-> offer, by |-> by, cap |-> cap,
                                 excluded |-> excluded, stopped |-> stopped]
    BY <2>2, Zenon DEF Decide
  <2>4. /\ after.offer = offer /\ after.cap = cap
        /\ after.excluded = excluded /\ after.stopped = stopped
    BY <2>1, <2>3
  <2>5. excluded \in BOOLEAN /\ stopped \in BOOLEAN
    BY <2>2
  <2>6. offer \in Nat \cup {None}
    BY <2>2 DEF IsRuling, IsRule
  <2>7. cap \in Nat \cup {None}
    BY <2>2 DEF IsRuling, IsRule
  <2>8. (d.excluded => excluded) /\ (rule.exclude => excluded) /\ (stopped => rule.stop)
    BY <2>2
  <2>9. d.cap # None => cap # None /\ cap <= d.cap
    BY <2>2 DEF IsRuling, IsRule, Lower
  <2>10. rule.cap # None => cap # None /\ cap <= rule.cap
    BY <2>2 DEF IsRuling, IsRule, Lower
  <2>11. IsRuling(after)
    BY <2>4, <2>5, <2>6, <2>7 DEF IsRuling
  <2>12. Heeds(after, d.cap, d.excluded) /\ Heeds(after, rule.cap, rule.exclude)
    BY <2>4, <2>8, <2>9, <2>10 DEF Heeds
  <2> QED BY <1>1, <1>3, <2>4, <2>8, <2>11, <2>12
<1> QED BY <1>2, <1>3

\* No rule before it has said stop.
Unstopped(ruleSet, context, i) ==
    \A j \in 1 .. (i - 1) : ~ (ruleSet[j].stop /\ Matches(ruleSet[j], context))

\* What has been decided heeds every rule that spoke.
LEMMA RulingHeedsAll ==
    ASSUME NEW ruleSet, IsRuleSet(ruleSet), NEW context
    PROVE  LET ruling == DecidedUpTo(ruleSet, context)[Len(ruleSet)]
           IN  /\ IsRuling(ruling)
               /\ \A i \in DOMAIN ruleSet :
                      Matches(ruleSet[i], context) /\ Unstopped(ruleSet, context, i)
                          => Heeds(ruling, ruleSet[i].cap, ruleSet[i].exclude)
<1>1. PICK F : F = DecidedUpTo(ruleSet, context)
  OBVIOUS
<1>2. Len(ruleSet) \in Nat /\ DOMAIN ruleSet = 1 .. Len(ruleSet)
  BY DEF IsRuleSet
<1>3. /\ F[0] = Undecided
      /\ \A n \in 0 .. Len(ruleSet) :
             n < Len(ruleSet) => F[n + 1] = Ask(F[n], ruleSet[n + 1], n + 1, context)
  BY <1>1, <1>2, DecisionRecursion
<1> DEFINE Halts(n) == F[n].stopped =>
                   \E j \in 1 .. n : ruleSet[j].stop /\ Matches(ruleSet[j], context)
           All(n) == \A i \in 1 .. n :
                   Matches(ruleSet[i], context) /\ Unstopped(ruleSet, context, i)
                       => Heeds(F[n], ruleSet[i].cap, ruleSet[i].exclude)
           S == {n \in 0 .. Len(ruleSet) : IsRuling(F[n]) /\ Halts(n) /\ All(n)}
<1>4. 0 \in S
  <2>1. IsRuling(F[0]) /\ ~ F[0].stopped
    BY <1>3 DEF Undecided, IsRuling
  <2>2. 0 \in 0 .. Len(ruleSet) /\ \A i \in 1 .. 0 : FALSE
    BY <1>2
  <2> QED BY <2>1, <2>2
<1>5. ASSUME NEW n \in 0 .. Len(ruleSet), n \in S, n < Len(ruleSet) PROVE n + 1 \in S
  <2>1. n + 1 \in 1 .. Len(ruleSet) /\ n \in Nat
    BY <1>2, <1>5
  <2>2. PICK rule : rule = ruleSet[n + 1] /\ IsRule(rule)
    BY <1>2, <2>1 DEF IsRuleSet
  <2>3. PICK d, after : d = F[n] /\ after = F[n + 1] /\ after = Ask(d, rule, n + 1, context)
    BY <1>3, <1>5, <2>2
  <2>4. IsRuling(d)
    BY <1>5, <2>3
  <2>5. /\ IsRuling(after)
        /\ Heeds(after, d.cap, d.excluded)
        /\ ~ d.stopped /\ Matches(rule, context) => Heeds(after, rule.cap, rule.exclude)
        /\ after.stopped => d.stopped \/ (rule.stop /\ Matches(rule, context))
    BY <2>2, <2>3, <2>4, AskedRule
  <2>6. Halts(n) /\ All(n)
    BY <1>5
  <2>7. Halts(n + 1)
    <3>1. \A j \in 1 .. n : j \in 1 .. n + 1
      BY <2>1
    <3>2. n + 1 \in 1 .. n + 1
      BY <2>1
    <3> QED BY <2>2, <2>3, <2>5, <2>6, <3>1, <3>2
  <2>8. All(n + 1)
    <3> SUFFICES ASSUME NEW i \in 1 .. n + 1, Matches(ruleSet[i], context),
                        Unstopped(ruleSet, context, i)
                 PROVE  Heeds(after, ruleSet[i].cap, ruleSet[i].exclude)
      BY <2>3
    <3>1. CASE i = n + 1
      <4>1. \A j \in 1 .. n : ~ (ruleSet[j].stop /\ Matches(ruleSet[j], context))
        BY <2>1, <3>1 DEF Unstopped
      <4>2. ~ d.stopped
        BY <2>3, <2>6, <4>1
      <4> QED BY <2>2, <2>5, <3>1, <4>2
    <3>2. CASE i # n + 1
      <4>1. i \in 1 .. n
        BY <2>1, <3>2
      <4>2. Heeds(d, ruleSet[i].cap, ruleSet[i].exclude)
        BY <2>3, <2>6, <4>1
      <4>3. IsRule(ruleSet[i])
        BY <1>2, <2>1, <4>1 DEF IsRuleSet
      <4>4. PICK cap, exclude, low, low2 :
                /\ cap = ruleSet[i].cap /\ exclude = ruleSet[i].exclude
                /\ low = d.cap /\ low2 = after.cap
        OBVIOUS
      <4>5. {cap, low, low2} \subseteq Nat \cup {None}
        BY <2>4, <2>5, <4>3, <4>4 DEF IsRuling, IsRule
      <4>6. cap # None => low # None /\ low <= cap
        BY <4>2, <4>4 DEF Heeds
      <4>7. low # None => low2 # None /\ low2 <= low
        BY <2>5, <4>4 DEF Heeds
      <4>8. cap # None => low2 # None /\ low2 <= cap
        BY <4>5, <4>6, <4>7
      <4>9. exclude => after.excluded
        BY <2>5, <4>2, <4>4 DEF Heeds
      <4> QED BY <4>4, <4>8, <4>9 DEF Heeds
    <3> QED BY <3>1, <3>2
  <2>9. n + 1 \in 0 .. Len(ruleSet)
    BY <2>1
  <2> HIDE DEF Halts, All
  <2> QED BY <2>3, <2>5, <2>7, <2>8, <2>9
<1>6. 0 .. Len(ruleSet) \subseteq S
  <2> HIDE DEF S
  <2> QED BY <1>2, <1>4, <1>5, SegmentInduction
<1>7. Len(ruleSet) \in S
  <2> HIDE DEF S
  <2> QED BY <1>2, <1>6
<1> QED BY <1>1, <1>2, <1>7

-----------------------------------------------------------------------------
(***************************************************************************)
(* Estimates.                                                              *)
(***************************************************************************)
\* The lowest bin that is believed is a price, or nothing.
LEMMA LbinIsPrice ==
    ASSUME NEW prices \in Seq(Nat), NEW median \in Nat \cup {None}
    PROVE  SanitiseLbin(prices, median) \in Nat \cup {None}
<1>1. IsFiniteSet(1 .. Len(prices)) /\ prices \in [1 .. Len(prices) -> Nat]
  BY FS_Interval
<1>2. PICK n \in Nat : Sorted(prices) \in [1 .. n -> Nat]
  BY <1>1, SortedPrices
<1>3. PICK s \in [1 .. n -> Nat] : s = Sorted(prices)
  BY <1>2
<1>4. Len(s) = n /\ DOMAIN s = 1 .. n /\ \A i \in 1 .. n : s[i] \in Nat
  BY <1>3
<1>5. MaxLbinSkip \in Nat
  BY PricingAssumption
<1> DEFINE near == {i \in DOMAIN s : i <= MaxLbinSkip + 1}
           plausible == {i \in near : s[i] >= (median * 65) \div 100}
<1>6. CASE s = <<>>
  <2>1. SanitiseLbin(prices, median) = None
    BY <1>3, <1>6, Zenon DEF SanitiseLbin
  <2> QED BY <2>1
<1>7. CASE s # <<>> /\ median = None
  <2>1. SanitiseLbin(prices, median) = s[1]
    BY <1>3, <1>7, Zenon DEF SanitiseLbin
  <2>2. n # 0
    BY <1>3, <1>7
  <2>3. 1 \in 1 .. n
    BY <2>2
  <2> QED BY <1>4, <2>1, <2>3
<1>8. CASE s # <<>> /\ median # None
  <2>1. SanitiseLbin(prices, median)
           = IF plausible # {} THEN s[Min(plausible)]
             ELSE IF Len(s) > MaxLbinSkip + 1 THEN s[MaxLbinSkip + 2]
             ELSE median
    <3>1. ~ (s = <<>>) /\ ~ (s # <<>> /\ median = None)
      BY <1>8
    <3> QED BY <1>3, <3>1, Zenon DEF SanitiseLbin
  <2>2. plausible \in SUBSET (1 .. n) /\ plausible \in SUBSET Nat
    BY <1>4
  <2>3. CASE plausible # {}
    <3> HIDE DEF plausible
    <3>1. Min(plausible) \in plausible
      BY <2>2, <2>3, SmallestIsMin
    <3>2. Min(plausible) \in 1 .. n
      BY <2>2, <3>1
    <3> QED BY <1>4, <2>1, <2>3, <3>2
  <2>4. CASE plausible = {} /\ n > MaxLbinSkip + 1
    <3>1. MaxLbinSkip + 2 \in 1 .. n
      BY <1>5, <2>4
    <3> HIDE DEF plausible
    <3> QED BY <1>4, <2>1, <2>4, <3>1
  <2>5. CASE plausible = {} /\ ~ (n > MaxLbinSkip + 1)
    <3> HIDE DEF plausible
    <3> QED BY <1>4, <2>1, <2>5
  <2> QED BY <2>3, <2>4, <2>5
<1> QED BY <1>6, <1>7, <1>8

\* What the auction history may answer.
IsAnalysis(market) ==
    market = None \/ (/\ market.median \in Nat /\ market.liquidity \in Nat
                      /\ market.risk \in Nat)

\* A blend of the two prices is whole.
LEMMA BlendIsWhole ==
    ASSUME NEW lbin \in Nat \cup {None}, NEW median \in Nat \cup {None}, NEW liquidity \in Int
    PROVE  Blend(lbin, median, liquidity) \in Int
<1> DEFINE weight == CASE lbin = None -> 0
                       [] lbin # None /\ median = None -> 100
                       [] OTHER -> 15 + liquidity \div 2
           share(price, w) == IF price = None THEN 0 ELSE w * price
<1>1. liquidity \div 2 \in Int
  OBVIOUS
<1>2. weight \in Int
  <2>1. lbin = None => weight = 0
    OBVIOUS
  <2>2. lbin # None /\ median = None => weight = 100
    OBVIOUS
  <2>3. lbin # None /\ median # None => weight = 15 + liquidity \div 2
    OBVIOUS
  <2>4. 15 + liquidity \div 2 \in Int
    BY <1>1
  <2> HIDE DEF weight
  <2> QED BY <2>1, <2>2, <2>3, <2>4
<1>0. Blend(lbin, median, liquidity)
         = ((share(lbin, weight) + share(median, 100 - weight)) * 98) \div 10000
  BY DEF Blend
<1> HIDE DEF weight
<1>3. PICK w \in Int, v \in Int : w = weight /\ v = 100 - weight
  <2>1. 100 - weight \in Int
    BY <1>2
  <2> QED BY <1>2, <2>1
<1>4. share(lbin, w) \in Int
  <2>1. lbin \in Nat => w * lbin \in Int
    OBVIOUS
  <2> QED BY <2>1
<1>5. share(median, v) \in Int
  <2>1. median \in Nat => v * median \in Int
    OBVIOUS
  <2> QED BY <2>1
<1>6. PICK sum \in Int : sum = share(lbin, w) + share(median, v)
  <2> HIDE DEF share
  <2> QED BY <1>4, <1>5
<1>7. Blend(lbin, median, liquidity) = (sum * 98) \div 10000
  <2> HIDE DEF share
  <2> QED BY <1>0, <1>3, <1>6
<1>8. (sum * 98) \div 10000 \in Int
  BY ShareBounds
<1> QED BY <1>7, <1>8

\* An estimate is a number of coins.
LEMMA EstimateIsNatural ==
    ASSUME NEW D, IsFiniteSet(D), NEW sold \in [D -> Nat], NEW prices \in Seq(Nat),
           NEW market, IsAnalysis(market), NEW extra \in Int
    PROVE  Estimate(sold, prices, market, extra) \in Nat
<1>1. PICK median \in Nat \cup {None} : median = MedianOf(sold)
  BY MedianIsPrice
<1>2. PICK lbin \in Nat \cup {None} : lbin = SanitiseLbin(prices, median)
  BY LbinIsPrice
<1>3. PICK sample \in Nat : sample = Cardinality(DOMAIN sold)
  <2>1. DOMAIN sold = D
    OBVIOUS
  <2>2. Cardinality(D) \in Nat
    BY FS_CardinalityType
  <2> QED BY <2>1, <2>2
<1>4. PICK liquidity \in Int : liquidity = Liquidity(market, sample)
  <2>1. CASE market = None
    <3>1. Liquidity(market, sample) = Least(100, 5 * sample) \div 2
      BY <2>1 DEF Liquidity
    <3>2. Least(100, 5 * sample) \in Int
      BY DEF Least
    <3> QED BY <3>1, <3>2
  <2>2. CASE market # None
    BY <2>2 DEF Liquidity, IsAnalysis
  <2> QED BY <2>1, <2>2
<1>5. PICK blended \in Int : blended = Blend(lbin, median, liquidity)
  BY BlendIsWhole
<1>6. Base(sold, prices, market)
         = IF blended > 0 THEN blended ELSE IF market # None THEN market.median ELSE 0
  BY <1>1, <1>2, <1>3, <1>4, <1>5, Zenon DEF Base
<1>7. PICK whole \in Int : whole = Base(sold, prices, market)
  BY <1>6 DEF IsAnalysis
<1>8. Estimate(sold, prices, market, extra) = Most(0, whole + extra)
  BY <1>7, Zenon DEF Estimate
<1> QED BY <1>8 DEF Most

\* What a modifier recovers of its price is whole.
LEMMA RecoveredIsWhole ==
    ASSUME base \in Nat, discount \in Nat, NEW m, {m.rank, m.level, m.recovery} \subseteq Int,
           NEW price \in Int
    PROVE  Recovered(m, price) \in Int
<1>1. PICK level \in Int, recovery \in Int : level = m.level /\ recovery = m.recovery
  OBVIOUS
<1>2. CASE m.kind = "pet_candy"
  <2>1. PICK few \in Int : few = Least(1, level)
    BY DEF Least
  <2>2. PICK product \in Int : product = base * 5 * few
    <3>1. base * 5 * few \in Int
      OBVIOUS
    <3> QED BY <3>1
  <2>3. Recovered(m, price) = -(product \div 100)
    BY <1>1, <1>2, <2>1, <2>2 DEF Recovered
  <2> QED BY <2>2, <2>3
<1>3. CASE m.kind # "pet_candy"
  <2>1. PICK product \in Int : product = price * recovery * (100 - discount)
    <3>1. price * recovery * (100 - discount) \in Int
      OBVIOUS
    <3> QED BY <3>1
  <2>2. Recovered(m, price) = product \div 10000
    BY <1>1, <1>3, <2>1 DEF Recovered
  <2> QED BY <2>1, <2>2
<1> QED BY <1>2, <1>3

-----------------------------------------------------------------------------
(***************************************************************************)
(* The inductive invariant.                                                *)
(***************************************************************************)
\* The files are ones that may be saved.
Saved == table \in Tables /\ rules \in RuleSets
\* The modifiers of the item.
Listed == ToSet(ranked)

\* The search's lists are of the item's modifiers, whose figures are whole.
Lists ==
    /\ ranked \in Seq(Listed)
    /\ \A m \in Listed : {m.rank, m.level, m.recovery} \subseteq Int
    /\ kept \in Seq(Listed) /\ dropped \in Seq(Listed) /\ todo \in Seq(Listed)
    /\ step = "idle" => kept = <<>> /\ dropped = <<>> /\ todo = <<>>

\* What compares is of what was sold.
Compared ==
    /\ sales \in Markets \cup {<<>>}
    /\ matched \in SUBSET DOMAIN sales

\* The figures a valuation is made of are numbers.
Figures ==
    /\ listings \in Books \cup {<<>>}
    /\ analysis \in Analyses \cup {None, Awaited}
    /\ step \in {"pricing", "quoted"} => analysis \in Analyses \cup {None}
    /\ base \in Nat /\ discount \in Nat /\ addback \in Int

\* The queries for listings that are left are the end of the halvings, the
\* first of them is the one asked, and as many were asked as are gone.
Asking ==
    /\ step = "selling" => asked = 2
    /\ step = "listing" =>
           \E k \in Nat : LET halvings == Halvings(Len(kept))
                          IN  /\ asked = 3 + k
                              /\ widths \in Seq(Nat) /\ widths # <<>>
                              /\ Len(halvings) = k + Len(widths)
                              /\ \A i \in 1 .. Len(widths) : widths[i] = halvings[k + i]
                              /\ query = QueryFor(kept, Head(widths))

\* The ladder is built on no more than the cap, and its rungs are honest.
HonestLadder(built, ruling) ==
    /\ built.estimate \in Nat /\ built.hours \in Nat
    /\ built.neverBuy = ruling.excluded
    /\ ruling.cap # None => built.estimate <= ruling.cap
    /\ \E risk \in Nat : \A i \in DOMAIN built.rungs :
           Honest(built.rungs[i], built.estimate, built.hours, risk)
\* What is quoted follows the estimate and the decision beside it.
Quoted ==
    /\ step = "quoted" =>
           /\ estimate \in Nat /\ IsRuling(decision)
           /\ HonestLadder(ladder, decision)
    /\ step # "quoted" => ladder = None

-----------------------------------------------------------------------------
\* A market has finitely many sales, each at a price.
LEMMA MarketIsFinite ==
    ASSUME NEW sold \in Markets \cup {<<>>}
    PROVE  IsFiniteSet(DOMAIN sold) /\ \A n \in DOMAIN sold : sold[n].price \in Nat
<1>1. CASE sold \in Markets
  <2>1. Len(sold) \in Nat /\ DOMAIN sold = 1 .. Len(sold)
        /\ \A n \in DOMAIN sold : sold[n].price \in Nat
    BY <1>1, AnswersAssumption
  <2>2. IsFiniteSet(1 .. Len(sold))
    BY <2>1, FS_Interval
  <2> QED BY <2>1, <2>2
<1>2. CASE sold = <<>>
  <2>1. DOMAIN sold = {}
    BY <1>2
  <2> QED BY <2>1, FS_EmptySet
<1> QED BY <1>1, <1>2

\* So have the comparables.
LEMMA MatchedPrices ==
    ASSUME Compared
    PROVE  IsFiniteSet(matched) /\ Prices(matched) \in [matched -> Nat]
<1>1. IsFiniteSet(DOMAIN sales) /\ \A n \in DOMAIN sales : sales[n].price \in Nat
  BY MarketIsFinite DEF Compared
<1>2. matched \in SUBSET DOMAIN sales
  BY DEF Compared
<1>3. IsFiniteSet(matched)
  BY <1>1, <1>2, FS_Subset
<1> QED BY <1>1, <1>2, <1>3 DEF Prices

\* What the auction history answers.
LEMMA AnalysesAreAnalyses ==
    ASSUME NEW market \in Analyses \cup {None}
    PROVE  IsAnalysis(market)
<1>1. Analyses \subseteq [median : Nat, liquidity : Nat, risk : Nat]
  BY AnswersAssumption
<1>2. CASE market \in Analyses
  <2>1. market \in [median : Nat, liquidity : Nat, risk : Nat]
    BY <1>1, <1>2
  <2> QED BY <2>1 DEF IsAnalysis
<1> QED BY <1>2 DEF IsAnalysis

\* The modifiers of an item form a list with whole figures.
LEMMA ItemIsListed ==
    ASSUME NEW picked \in Items, NEW ruleSet \in RuleSets, NEW saved \in Tables
    PROVE  LET listed == Ranked(Normalise(ruleSet, picked, saved), saved)
           IN  /\ listed \in Seq(ToSet(listed))
               /\ \A m \in ToSet(listed) : {m.rank, m.level, m.recovery} \subseteq Int
<1>1. PICK rewritten : rewritten = Normalise(ruleSet, picked, saved)
  OBVIOUS
<1>2. PICK listed : listed = Ranked(rewritten, saved)
  OBVIOUS
<1>3. /\ IsFiniteSet(ModifiersOf(rewritten, saved))
      /\ \A n \in DOMAIN listed :
             {listed[n].rank, listed[n].level, listed[n].recovery} \subseteq Int
  BY <1>1, <1>2, ModifiersAssumption
<1>4. PICK size \in Nat : size = Cardinality(ModifiersOf(rewritten, saved))
  BY <1>3, FS_CardinalityType
<1>5. listed \in [1 .. size -> ToSet(listed)] /\ DOMAIN listed = 1 .. size
  <2> DEFINE mods == ModifiersOf(rewritten, saved)
             at(i) == CHOOSE m \in mods : Cardinality({o \in mods : Before(o, m)}) = i - 1
             nth == [i \in 1 .. Cardinality(mods) |-> at(i)]
  <2>1. Ranked(rewritten, saved) = nth
    BY Zenon DEF Ranked
  <2> HIDE DEF at
  <2>2. DOMAIN nth = 1 .. Cardinality(mods)
    OBVIOUS
  <2>3. nth = [i \in DOMAIN nth |-> nth[i]]
    OBVIOUS
  <2> HIDE DEF nth
  <2>4. DOMAIN listed = 1 .. size
    BY <1>2, <1>4, <2>1, <2>2
  <2>5. listed = [i \in 1 .. size |-> listed[i]]
    BY <1>2, <2>1, <2>3, <2>4
  <2> QED BY <2>4, <2>5 DEF ToSet
<1>6. listed \in Seq(ToSet(listed))
  BY <1>4, <1>5, FunctionIsList
<1>7. \A m \in ToSet(listed) : {m.rank, m.level, m.recovery} \subseteq Int
  BY <1>3 DEF ToSet
<1> QED BY <1>1, <1>2, <1>6, <1>7

\* What the search comes to.
LEMMA NarrowIsBest ==
    ASSUME NEW Mods, ranked \in Seq(Mods), NEW sold, IsFiniteSet(DOMAIN sold)
    PROVE  LET found == Narrow(sold)
           IN  /\ found.kept \in Seq(Mods) /\ found.dropped \in Seq(Mods)
               /\ found.matched \in SUBSET DOMAIN sold
               /\ found.matched = Select(sold, ToSet(found.kept), item.rarity)
               /\ found.kept # <<>> => Enough(found.matched)
               /\ \A mods \in SUBSET {m \in ToSet(ranked) : m.matching /\ Matchable(m, sold)} :
                      Enough(Select(sold, mods, item.rarity)) =>
                          mods = ToSet(found.kept) \/ Outranks(ToSet(found.kept), mods)
<1>1. PICK found : found = Narrow(sold)
  OBVIOUS
<1>2. PICK F : F = NarrowedUpTo(sold)
  OBVIOUS
<1>3. Len(ranked) \in Nat /\ 0 \in 0 .. Len(ranked) /\ Len(ranked) \in 0 .. Len(ranked)
  OBVIOUS
<1>4. PICK first, last : first = F[0] /\ last = F[Len(ranked)]
  OBVIOUS
<1>5. Fair(first, Mods, sold) /\ Fair(last, Mods, sold)
  BY <1>2, <1>3, <1>4, SearchIsFair
<1>6. first.kept = <<>> /\ ToSet(first.kept) = {}
  <2>1. PICK none : none = Select(sold, {}, item.rarity)
    OBVIOUS
  <2>2. first = [kept |-> <<>>, dropped |-> <<>>, matched |-> none]
    BY <1>2, <1>3, <1>4, <2>1, NarrowRecursion
  <2>3. first.kept = <<>>
    BY <2>2
  <2> QED BY <2>3 DEF ToSet
<1>7. first.matched = Select(sold, {}, item.rarity)
  BY <1>5, <1>6 DEF Fair
<1>8. CASE Enough(first.matched)
  <2>1. found = last
    BY <1>1, <1>2, <1>4, <1>8, Zenon DEF Narrow
  <2>2. found \in Search(Mods, sold)
        /\ found.matched = Select(sold, ToSet(found.kept), item.rarity)
    BY <1>5, <2>1 DEF Fair
  <2>3. Enough(found.matched)
    BY <1>5, <1>7, <1>8, <2>1 DEF Fair
  <2>4. found.kept \in Seq(Mods) /\ found.dropped \in Seq(Mods)
        /\ found.matched \in SUBSET DOMAIN sold
    BY <2>2 DEF Search
  <2>5. ToSet(found.kept) = Kept(sold, Len(ranked))
    BY <1>2, <1>4, <2>1 DEF Kept
  <2>6. ASSUME NEW mods \in SUBSET {m \in ToSet(ranked) : m.matching /\ Matchable(m, sold)},
               Enough(Select(sold, mods, item.rarity)), mods # ToSet(found.kept)
        PROVE  Outranks(ToSet(found.kept), mods)
    BY <2>5, <2>6, SearchKeepsBest
  <2> QED BY <1>1, <2>2, <2>3, <2>4, <2>6
<1>9. CASE ~ Enough(first.matched)
  <2>1. found = [first EXCEPT !.dropped = ranked]
    BY <1>1, <1>2, <1>4, <1>9, Zenon DEF Narrow
  <2>2. first \in Search(Mods, sold)
    BY <1>5 DEF Fair
  <2>3. /\ found.kept = first.kept /\ found.matched = first.matched
        /\ found.dropped = ranked
    BY <2>1, <2>2 DEF Search
  <2>4. first.kept \in Seq(Mods) /\ first.matched \in SUBSET DOMAIN sold
    BY <2>2 DEF Search
  <2>5. ASSUME NEW mods, Enough(Select(sold, mods, item.rarity)) PROVE FALSE
    <3>1. Select(sold, mods, item.rarity) \in SUBSET first.matched
      BY <1>7, MoreMatchFewer
    <3>2. IsFiniteSet(first.matched)
      BY <1>7, SelectIsFinite
    <3> QED BY <1>9, <2>5, <3>1, <3>2, EnoughOfMore
  <2> QED BY <1>1, <1>6, <1>7, <2>3, <2>4, <2>5
<1> QED BY <1>8, <1>9

\* All of it, with what the search promises.
AppraisalInv == Saved /\ Lists /\ Compared /\ Figures /\ Asking /\ Quoted /\ KeptIsBest

-----------------------------------------------------------------------------
(***************************************************************************)
(* The files, the lists, the comparables and the figures: every step.      *)
(***************************************************************************)
\* Nothing is there at first.
LEMMA NothingIsThere ==
    Init => AppraisalInv
<1> SUFFICES ASSUME Init PROVE AppraisalInv
  OBVIOUS
<1>1. Saved /\ Asking /\ Quoted /\ KeptIsBest
  BY DEF Init, Saved, Asking, Quoted, KeptIsBest
<1>2. Listed = {}
  BY DEF Init, Listed, ToSet
<1>3. Lists
  BY <1>2 DEF Init, Lists
<1>4. Compared
  BY DEF Init, Compared
<1>5. Figures
  BY DEF Init, Figures
<1> QED BY <1>1, <1>3, <1>4, <1>5 DEF AppraisalInv

\* No step leaves the files that may be saved.
LEMMA SavedKept ==
    ASSUME Saved, [Next]_vars
    PROVE  Saved'
BY DEF Saved, Next, Pick, SoldAnswers, ActiveAnswers, AnalysisAnswers, BeginPricing, PriceDropped,
       Quote, Override, ReloadValues, ReloadRules, vars, searchVars, quoteVars

\* No step puts in a list what is none of the item's modifiers.
LEMMA ListsKept ==
    ASSUME Saved, Lists, [Next]_vars
    PROVE  Lists'
<1> USE DEF Lists, Listed
<1>1. CASE Pick
  <2>1. PICK picked \in Items : item' = Normalise(rules, picked, table)
    BY <1>1 DEF Pick
  <2>2. rules \in RuleSets /\ table \in Tables
    BY DEF Saved
  <2>3. PICK listed : listed = Ranked(Normalise(rules, picked, table), table)
    OBVIOUS
  <2>4. ranked' = listed
    BY <1>1, <2>1, <2>3 DEF Pick
  <2>5. /\ listed \in Seq(ToSet(listed))
        /\ \A m \in ToSet(listed) : {m.rank, m.level, m.recovery} \subseteq Int
    BY <2>2, <2>3, ItemIsListed
  <2>6. step' = "selling" /\ kept' = <<>> /\ dropped' = <<>> /\ todo' = <<>>
    BY <1>1 DEF Pick
  <2>7. <<>> \in Seq(ToSet(listed))
    OBVIOUS
  <2> QED BY <2>4, <2>5, <2>6, <2>7
<1>2. CASE SoldAnswers
  <2>1. PICK sold \in Markets \cup {<<>>} : sold = sales'
    BY <1>2 DEF SoldAnswers
  <2>2. PICK found : found = Narrow(sold)
    OBVIOUS
  <2>3. kept' = found.kept /\ dropped' = found.dropped /\ todo' = todo /\ ranked' = ranked
        /\ step' = "listing"
    BY <1>2, <2>1, <2>2 DEF SoldAnswers
  <2>4. IsFiniteSet(DOMAIN sold)
    BY MarketIsFinite
  <2>5. found.kept \in Seq(Listed) /\ found.dropped \in Seq(Listed)
    BY <2>2, <2>4, NarrowIsBest
  <2> QED BY <2>3, <2>5
<1>3. CASE BeginPricing
  BY <1>3 DEF BeginPricing
<1>4. CASE PriceDropped
  <2>1. todo # <<>> /\ todo' = Tail(todo) /\ step' = "pricing"
        /\ UNCHANGED <<ranked, kept, dropped>>
    BY <1>4 DEF PriceDropped
  <2>2. Tail(todo) \in Seq(ToSet(ranked))
    BY <2>1
  <2> QED BY <2>1, <2>2
<1>5. CASE ActiveAnswers
  <2>1. UNCHANGED <<ranked, kept, dropped, todo>> /\ step' # "idle"
    BY <1>5 DEF ActiveAnswers
  <2> QED BY <2>1
<1>6. CASE Quote
  BY <1>6 DEF Quote, searchVars
<1>7. CASE AnalysisAnswers \/ Override \/ ReloadValues \/ ReloadRules \/ UNCHANGED vars
  BY <1>7 DEF AnalysisAnswers, Override, ReloadValues, ReloadRules, vars, searchVars
<1> QED BY <1>1, <1>2, <1>3, <1>4, <1>5, <1>6, <1>7 DEF Next

\* No step compares with what was not sold.
LEMMA ComparedKept ==
    ASSUME Saved, Lists, Compared, [Next]_vars
    PROVE  Compared'
<1> USE DEF Compared
<1>1. CASE SoldAnswers
  <2>1. PICK sold \in Markets \cup {<<>>} : sold = sales'
    BY <1>1 DEF SoldAnswers
  <2>2. PICK found : found = Narrow(sold)
    OBVIOUS
  <2>3. matched' = found.matched
    BY <1>1, <2>1, <2>2 DEF SoldAnswers
  <2>4. IsFiniteSet(DOMAIN sold)
    BY MarketIsFinite
  <2>5. ranked \in Seq(Listed)
    BY DEF Lists
  <2>6. found.matched \in SUBSET DOMAIN sold
    BY <2>2, <2>4, <2>5, NarrowIsBest
  <2> QED BY <2>1, <2>3, <2>6
<1>2. CASE ~ SoldAnswers
  BY <1>2 DEF Next, Pick, ActiveAnswers, AnalysisAnswers, BeginPricing, PriceDropped,
              Quote, Override, ReloadValues, ReloadRules, vars, searchVars
<1> QED BY <1>1, <1>2

\* No step breaks the figures of the valuation.
LEMMA FiguresKept ==
    ASSUME Saved, Lists, Compared, Figures, [Next]_vars
    PROVE  Figures'
<1>1. CASE Pick
  BY <1>1 DEF Pick, Figures
<1>2. CASE SoldAnswers
  BY <1>2 DEF SoldAnswers, Figures
<1>3. CASE ActiveAnswers
  <2>1. listings' \in Books \cup {<<>>} \/ listings' = listings
    BY <1>3 DEF ActiveAnswers
  <2>2. step' \in {"listing", "reading"} /\ UNCHANGED <<analysis, base, discount, addback>>
    BY <1>3 DEF ActiveAnswers
  <2> QED BY <2>1, <2>2 DEF Figures
<1>4. CASE AnalysisAnswers
  BY <1>4 DEF AnalysisAnswers, Figures
<1>5. CASE BeginPricing
  <2>1. analysis \in Analyses \cup {None} /\ UNCHANGED <<listings, analysis, addback>>
    BY <1>5 DEF BeginPricing, Figures
  <2>2. PICK median \in Nat \cup {None} : median = MiddleOf(Ascending(Prices(matched)))
    <3>1. PICK n \in Nat : Ascending(Prices(matched)) \in [1 .. n -> Nat]
      BY MatchedPrices, AscendingPrices
    <3> QED BY <3>1, MiddleIsPrice
  <2>3. base' = CASE median \notin {None, 0} -> median
                  [] median \in {None, 0} /\ analysis # None -> analysis.median
                  [] OTHER -> 0
    BY <1>5, <2>2 DEF BeginPricing
  <2>4. analysis # None => analysis.median \in Nat
    BY <2>1, AnalysesAreAnalyses DEF IsAnalysis
  <2>5. base' \in Nat
    BY <2>2, <2>3, <2>4
  <2>6. discount' \in Nat
    <3>1. discount' = table.discount /\ table \in Tables
      BY <1>5 DEF BeginPricing, Saved
    <3> QED BY <3>1, SavedAssumption
  <2> QED BY <2>1, <2>5, <2>6 DEF Figures
<1>6. CASE PriceDropped
  <2>1. UNCHANGED <<step, listings, analysis, base, discount>> /\ step = "pricing"
        /\ todo # <<>>
    BY <1>6 DEF PriceDropped
  <2>2. PICK m \in Listed : m = Head(todo)
    BY <2>1 DEF Lists
  <2>3. {m.rank, m.level, m.recovery} \subseteq Int
    BY <2>2 DEF Lists
  <2>4. PICK price \in LowestBins \cup {m.rank} : addback' = addback + Recovered(m, price)
    BY <1>6, <2>2 DEF PriceDropped
  <2>5. price \in Int
    <3>1. LowestBins \subseteq Nat
      BY AnswersAssumption
    <3> QED BY <2>3, <2>4, <3>1
  <2>6. Recovered(m, price) \in Int
    BY <2>3, <2>5, RecoveredIsWhole DEF Figures
  <2>7. addback' \in Int
    BY <2>4, <2>6 DEF Figures
  <2> QED BY <2>1, <2>7 DEF Figures
<1>7. CASE Quote
  <2>1. step = "pricing" /\ UNCHANGED searchVars
    BY <1>7 DEF Quote
  <2> QED BY <2>1 DEF searchVars, Figures
<1>8. CASE Override \/ ReloadValues \/ ReloadRules \/ UNCHANGED vars
  BY <1>8 DEF Override, ReloadValues, ReloadRules, vars, searchVars, Figures
<1> QED BY <1>1, <1>2, <1>3, <1>4, <1>5, <1>6, <1>7, <1>8 DEF Next

-----------------------------------------------------------------------------
(***************************************************************************)
(* The queries for listings, and the choice of what to keep: every step.   *)
(***************************************************************************)
\* A query that found nothing, with another one to ask.
AsksAgain ==
    /\ step = "listing" /\ step' = "listing" /\ Len(widths) # 1
    /\ widths' = Tail(widths) /\ query' = QueryFor(kept, Head(Tail(widths)))
    /\ asked' = asked + 1
    /\ UNCHANGED <<item, ranked, sales, matched, kept>>

\* An answer of the listings ends the search or asks the next query.
LEMMA ActiveCases ==
    ASSUME ActiveAnswers
    PROVE  \/ /\ step = "listing" /\ step' = "reading"
              /\ listings' # <<>> \/ Len(widths) = 1
           \/ AsksAgain
<1>1. PICK found \in Books \cup {<<>>} :
           IF found # <<>> \/ Len(widths) = 1
           THEN /\ listings' = found
                /\ step' = "reading"
                /\ UNCHANGED <<widths, query, asked>>
           ELSE /\ widths' = Tail(widths)
                /\ query' = QueryFor(kept, Head(widths'))
                /\ asked' = asked + 1
                /\ UNCHANGED <<listings, step>>
  BY Zenon DEF ActiveAnswers
<1>2. step = "listing" /\ UNCHANGED <<item, ranked, sales, matched, kept>>
  BY DEF ActiveAnswers
<1>3. CASE found # <<>> \/ Len(widths) = 1
  BY <1>1, <1>2, <1>3
<1>4. CASE ~ (found # <<>> \/ Len(widths) = 1)
  BY <1>1, <1>2, <1>4 DEF AsksAgain
<1> QED BY <1>3, <1>4

\* No step loses its place in the halvings.
LEMMA AskingKept ==
    ASSUME Saved, Lists, Asking, [Next]_vars
    PROVE  Asking'
<1>1. CASE Pick
  BY <1>1 DEF Pick, Asking
<1>2. CASE SoldAnswers
  <2>1. PICK sold \in Markets \cup {<<>>} : sold = sales'
    BY <1>2 DEF SoldAnswers
  <2>2. PICK found : found = Narrow(sold)
    OBVIOUS
  <2>3. /\ kept' = found.kept /\ step = "selling" /\ step' = "listing"
        /\ widths' = Halvings(Len(kept')) /\ query' = QueryFor(kept', Head(widths'))
        /\ asked' = asked + 1 /\ item' = item
    BY <1>2, <2>1, <2>2 DEF SoldAnswers
  <2>4. IsFiniteSet(DOMAIN sold) /\ ranked \in Seq(Listed)
    BY MarketIsFinite DEF Lists
  <2>5. found.kept \in Seq(Listed)
    BY <2>2, <2>4, NarrowIsBest
  <2>6. PICK size \in Nat : size = Len(kept')
    BY <2>3, <2>5
  <2>7. PICK last \in Nat : Halvings(size) \in [1 .. last + 1 -> 0 .. size]
    BY QueriesNarrow
  <2>8. Halvings(size) \in [1 .. last + 1 -> Nat]
    BY <2>7
  <2>9. widths' \in Seq(Nat) /\ Len(widths') = last + 1 /\ widths' = Halvings(size)
    BY <2>3, <2>6, <2>8, FunctionIsList
  <2>10. widths' # <<>>
    BY <2>9
  <2>11. asked' = 3 + 0
    BY <2>3 DEF Asking
  <2>12. \A i \in 1 .. Len(widths') : 0 + i = i
    BY <2>9
  <2>13. Len(Halvings(Len(kept'))) = 0 + Len(widths')
    BY <2>3, <2>9
  <2>14. query' = QueryFor(kept, Head(widths))'
    BY <2>3 DEF QueryFor
  <2> QED BY <2>3, <2>9, <2>10, <2>11, <2>12, <2>13, <2>14 DEF Asking
<1>3. CASE ActiveAnswers
  <2>1. CASE step' = "reading"
    BY <2>1 DEF Asking
  <2>2. CASE AsksAgain
    <3>1. PICK k \in Nat : /\ asked = 3 + k
                           /\ widths \in Seq(Nat) /\ widths # <<>>
                           /\ Len(Halvings(Len(kept))) = k + Len(widths)
                           /\ \A i \in 1 .. Len(widths) :
                                  widths[i] = Halvings(Len(kept))[k + i]
      BY <2>2, Zenon DEF Asking, AsksAgain
    <3>2. PICK halvings : halvings = Halvings(Len(kept))
      OBVIOUS
    <3>3. PICK left \in Seq(Nat) : left = Tail(widths)
      <4>1. Tail(widths) \in Seq(Nat)
        BY <3>1, HeadTailProperties
      <4> QED BY <4>1
    <3>4. Len(left) = Len(widths) - 1 /\ Len(widths) \in Nat \ {0, 1}
          /\ \A i \in 1 .. Len(left) : left[i] = widths[i + 1]
      <4>1. Len(left) = Len(widths) - 1 /\ \A i \in 1 .. Len(left) : left[i] = widths[i + 1]
        BY <3>1, <3>3, HeadTailProperties
      <4>2. Len(widths) \in Nat /\ Len(widths) # 0 /\ Len(widths) # 1
        BY <2>2, <3>1 DEF AsksAgain
      <4> QED BY <4>1, <4>2
    <3>5. left # <<>> /\ Len(halvings) = (k + 1) + Len(left) /\ k + 1 \in Nat
      <4>1. Len(left) # 0
        BY <3>4
      <4>2. left # <<>>
        BY <3>3, <4>1
      <4>3. Len(halvings) = (k + 1) + Len(left)
        <5>1. PICK n \in Nat : n = Len(widths) /\ Len(left) = n - 1
          BY <3>4
        <5>2. Len(halvings) = k + n
          BY <3>1, <3>2, <5>1
        <5> QED BY <5>1, <5>2
      <4> QED BY <4>2, <4>3
    <3>6. ASSUME NEW i \in 1 .. Len(left) PROVE left[i] = halvings[(k + 1) + i]
      <4>1. i + 1 \in 1 .. Len(widths) /\ k + (i + 1) = (k + 1) + i
        BY <3>4
      <4>2. widths[i + 1] = halvings[k + (i + 1)]
        BY <3>1, <3>2, <4>1
      <4> QED BY <3>4, <4>1, <4>2
    <3>7. /\ step' = "listing" /\ kept' = kept /\ widths' = left
          /\ asked' = 3 + (k + 1) /\ query' = QueryFor(kept, Head(left)) /\ item' = item
      BY <2>2, <3>1, <3>3 DEF AsksAgain
    <3>8. query' = QueryFor(kept, Head(widths))'
      BY <3>7 DEF QueryFor
    <3> QED BY <3>2, <3>5, <3>6, <3>7, <3>8 DEF Asking
  <2> QED BY <1>3, <2>1, <2>2, ActiveCases
<1>4. CASE AnalysisAnswers \/ ReloadValues \/ ReloadRules \/ UNCHANGED vars
  <2>1. UNCHANGED <<step, item, kept, widths, query, asked>>
    BY <1>4 DEF AnalysisAnswers, ReloadValues, ReloadRules, vars, searchVars
  <2> QED BY <2>1 DEF Asking, QueryFor
<1>5. CASE BeginPricing \/ PriceDropped \/ Quote \/ Override
  <2>1. step' \in {"pricing", "quoted"}
    BY <1>5 DEF BeginPricing, PriceDropped, Quote, Override
  <2> QED BY <2>1 DEF Asking
<1> QED BY <1>1, <1>2, <1>3, <1>4, <1>5 DEF Next

\* No step keeps a modifier for which a better one was given up.
LEMMA BestKept ==
    ASSUME Saved, Lists, Asking, KeptIsBest, [Next]_vars
    PROVE  KeptIsBest'
<1>1. CASE SoldAnswers
  <2>1. PICK sold \in Markets \cup {<<>>} : sold = sales'
    BY <1>1 DEF SoldAnswers
  <2>2. PICK found : found = Narrow(sold)
    OBVIOUS
  <2>3. /\ kept' = found.kept /\ matched' = found.matched /\ item' = item /\ ranked' = ranked
    BY <1>1, <2>1, <2>2 DEF SoldAnswers
  <2>4. IsFiniteSet(DOMAIN sold) /\ ranked \in Seq(Listed)
    BY MarketIsFinite DEF Lists
  <2>5. /\ found.matched = Select(sold, ToSet(found.kept), item.rarity)
        /\ found.kept # <<>> => Enough(found.matched)
        /\ \A mods \in SUBSET {m \in ToSet(ranked) : m.matching /\ Matchable(m, sold)} :
               Enough(Select(sold, mods, item.rarity)) =>
                   mods = ToSet(found.kept) \/ Outranks(ToSet(found.kept), mods)
    BY <2>2, <2>4, NarrowIsBest
  <2>6. matched' = Select(sales', ToSet(kept'), item'.rarity)
    BY <2>1, <2>3, <2>5
  <2>7. kept' # <<>> => Supported(ToSet(kept))'
    BY <2>1, <2>3, <2>5 DEF Supported
  <2>8. (\A mods \in SUBSET Testable :
            Supported(mods) => mods = ToSet(kept) \/ Outranks(ToSet(kept), mods))'
    BY <2>1, <2>3, <2>5 DEF Supported, Testable, Outranks
  <2> QED BY <2>6, <2>7, <2>8 DEF KeptIsBest
<1>2. CASE ActiveAnswers
  <2>1. CASE AsksAgain
    <3>1. PICK k \in Nat : asked = 3 + k
      BY <2>1, Zenon DEF Asking, AsksAgain
    <3>2. asked' # 3
      BY <2>1, <3>1 DEF AsksAgain
    <3> QED BY <3>2 DEF KeptIsBest
  <2>2. CASE step' = "reading"
    BY <2>2 DEF KeptIsBest
  <2> QED BY <1>2, <2>1, <2>2, ActiveCases
<1>3. CASE AnalysisAnswers \/ ReloadValues \/ ReloadRules \/ UNCHANGED vars
  <2>1. UNCHANGED <<step, item, ranked, sales, matched, kept, asked>>
    BY <1>3 DEF AnalysisAnswers, ReloadValues, ReloadRules, vars, searchVars
  <2> QED BY <2>1 DEF KeptIsBest, Supported, Testable, Outranks
<1>4. CASE Pick \/ BeginPricing \/ PriceDropped \/ Quote \/ Override
  <2>1. step' # "listing"
    BY <1>4 DEF Pick, BeginPricing, PriceDropped, Quote, Override
  <2> QED BY <2>1 DEF KeptIsBest
<1> QED BY <1>1, <1>2, <1>3, <1>4 DEF Next

-----------------------------------------------------------------------------
(***************************************************************************)
(* The ladder, and then the whole invariant: every step.                   *)
(***************************************************************************)
\* Building a ladder anew makes an honest one.
LEMMA RequoteIsHonest ==
    ASSUME NEW worth \in Nat, NEW ruling, IsRuling(ruling), Figures, step \in {"pricing", "quoted"},
           Requote(worth, ruling)
    PROVE  HonestLadder(ladder, ruling)'
<1>1. PICK risk \in Nat : risk = IF analysis = None THEN 0 ELSE analysis.risk
  <2>1. IsAnalysis(analysis)
    BY AnalysesAreAnalyses DEF Figures
  <2> QED BY <2>1 DEF IsAnalysis
<1>2. PICK hours \in HoldHours, curve \in Curves, exploring \in Explore :
          ladder' \in Ladders(worth, hours, risk, ruling, curve, exploring)
  BY <1>1, Zenon DEF Requote
<1>3. PICK built : built = ladder'
  OBVIOUS
<1>4. ruling.offer \in Nat \cup {None} /\ ruling.cap \in Nat \cup {None}
  BY DEF IsRuling
<1>5. /\ built.estimate = Capped(worth, ruling) /\ built.estimate \in Nat
      /\ built.hours = hours /\ built.neverBuy = ruling.excluded
      /\ \A i \in DOMAIN built.rungs : Honest(built.rungs[i], built.estimate, hours, risk)
  BY <1>2, <1>3, <1>4, LaddersAreHonest
<1>6. hours \in Nat
  BY <1>2, AnswersAssumption
<1>7. ruling.cap # None => built.estimate <= ruling.cap
  BY <1>4, <1>5 DEF Capped, Least
<1>8. HonestLadder(built, ruling)
  BY <1>1, <1>5, <1>6, <1>7 DEF HonestLadder
<1> QED BY <1>3, <1>8

\* The ruling on an item heeds every rule that spoke of it.
LEMMA EvaluatedHeeds ==
    ASSUME NEW ruleSet \in RuleSets, NEW picked, NEW saved, NEW worth
    PROVE  LET ruling == Evaluate(ruleSet, picked, saved, worth)
               context == Context(picked, saved, worth)
           IN  /\ IsRuling(ruling)
               /\ \A i \in DOMAIN ruleSet :
                      Matches(ruleSet[i], context) /\ Unstopped(ruleSet, context, i)
                          => Heeds(ruling, ruleSet[i].cap, ruleSet[i].exclude)
<1>1. IsRuleSet(ruleSet)
  BY SavedRules
<1>2. PICK context : context = Context(picked, saved, worth)
  OBVIOUS
<1>3. Evaluate(ruleSet, picked, saved, worth) = DecidedUpTo(ruleSet, context)[Len(ruleSet)]
  BY <1>2, Zenon DEF Evaluate
<1> QED BY <1>1, <1>2, <1>3, RulingHeedsAll

\* No step shows a ladder that is dishonest or above the cap.
LEMMA QuotedKept ==
    ASSUME Saved, Compared, Figures, Quoted, [Next]_vars
    PROVE  Quoted'
<1>1. CASE Quote
  <2>1. PICK worth : worth = Estimate(Prices(matched), listings, analysis, addback)
    OBVIOUS
  <2>2. worth \in Nat
    <3>1. step = "pricing"
      BY <1>1 DEF Quote
    <3>2. IsAnalysis(analysis)
      BY <3>1, AnalysesAreAnalyses DEF Figures
    <3>3. listings \in Seq(Nat) /\ addback \in Int
      <4>1. Books \subseteq Seq(Nat) /\ <<>> \in Seq(Nat)
        BY AnswersAssumption
      <4> QED BY <4>1 DEF Figures
    <3> QED BY <2>1, <3>2, <3>3, MatchedPrices, EstimateIsNatural
  <2>3. PICK ruling : ruling = Evaluate(rules, item, table, worth)
    OBVIOUS
  <2>4. estimate' = worth /\ decision' = ruling /\ step = "pricing" /\ step' = "quoted"
    BY <1>1, <2>1, <2>3 DEF Quote
  <2>5. IsRuling(ruling)
    BY <2>3, EvaluatedHeeds DEF Saved
  <2>6. Requote(worth, ruling)
    BY <1>1, <2>1, <2>3, Zenon DEF Quote
  <2>7. HonestLadder(ladder, ruling)'
    BY <2>2, <2>4, <2>5, <2>6, RequoteIsHonest
  <2> QED BY <2>2, <2>4, <2>5, <2>7 DEF Quoted
<1>2. CASE Override
  <2>1. step = "quoted" /\ UNCHANGED <<step, estimate, decision>>
    BY <1>2 DEF Override
  <2>2. PICK coins \in ManualCoins \cup {None} :
            Requote(IF coins = None THEN estimate ELSE coins, decision)
    BY <1>2 DEF Override
  <2>3. PICK worth \in Nat : worth = IF coins = None THEN estimate ELSE coins
    BY <2>1, <2>2, AnswersAssumption DEF Quoted
  <2>4. PICK ruling : ruling = decision
    OBVIOUS
  <2>5. IsRuling(ruling) /\ Requote(worth, ruling)
    BY <2>1, <2>2, <2>3, <2>4 DEF Quoted
  <2>6. HonestLadder(ladder, ruling)'
    BY <2>1, <2>5, RequoteIsHonest
  <2> QED BY <2>1, <2>4, <2>6 DEF Quoted
<1>3. CASE AnalysisAnswers \/ ReloadValues \/ ReloadRules \/ UNCHANGED vars
  <2>1. UNCHANGED <<step, quoteVars>>
    BY <1>3 DEF AnalysisAnswers, ReloadValues, ReloadRules, vars
  <2> QED BY <2>1 DEF Quoted, quoteVars
<1>4. CASE Pick \/ SoldAnswers \/ ActiveAnswers \/ BeginPricing \/ PriceDropped
  <2>1. step # "quoted" /\ step' # "quoted" /\ UNCHANGED quoteVars
    BY <1>4 DEF Pick, SoldAnswers, ActiveAnswers, BeginPricing, PriceDropped
  <2> QED BY <2>1 DEF Quoted, quoteVars
<1> QED BY <1>1, <1>2, <1>3, <1>4 DEF Next

\* The inductive invariant holds whatever is picked, sold, listed, saved and overridden.
THEOREM AppraisalInvHolds == Spec => []AppraisalInv
<1>1. Init => AppraisalInv
  BY NothingIsThere
<1>2. AppraisalInv /\ [Next]_vars => AppraisalInv'
  <2> SUFFICES ASSUME AppraisalInv, [Next]_vars PROVE AppraisalInv'
    OBVIOUS
  <2>1. Saved' BY SavedKept DEF AppraisalInv
  <2>2. Lists' BY ListsKept DEF AppraisalInv
  <2>3. Compared' BY ComparedKept DEF AppraisalInv
  <2>4. Figures' BY FiguresKept DEF AppraisalInv
  <2>5. Asking' BY AskingKept DEF AppraisalInv
  <2>6. Quoted' BY QuotedKept DEF AppraisalInv
  <2>7. KeptIsBest' BY BestKept DEF AppraisalInv
  <2> QED BY <2>1, <2>2, <2>3, <2>4, <2>5, <2>6, <2>7 DEF AppraisalInv
<1> QED BY <1>1, <1>2, PTL DEF Spec

\* Of the modifiers given up none should have been kept instead of one that was: the first
\* place where the search could have gone another way is one where too few sales were left
\* (MatchingEngine.narrow).
THEOREM KeptIsBestHolds == Spec => []KeptIsBest
<1>1. AppraisalInv => KeptIsBest
  BY DEF AppraisalInv
<1> QED BY <1>1, AppraisalInvHolds, PTL

\* A rung's profit is what the sale leaves after both taxes and every relisting, and a rung
\* that is said to meet the floor pays the margin and the hourly return (build_ladder).
THEOREM CostsCoveredHolds == Spec => []CostsCovered
<1>1. AppraisalInv => CostsCovered
  <2> SUFFICES ASSUME Quoted, ladder # None, ladder.estimate > 0, NEW i \in DOMAIN ladder.rungs
               PROVE  LET rung == ladder.rungs[i]
                          left == Proceeds(ladder.estimate, ladder.hours) - rung.coins
                      IN  /\ rung.profit = left
                          /\ rung.kind \in {"STEP", "RULE"} /\ rung.meets =>
                                 10000 * left >= Margin * ladder.estimate
                                                     + 10000 * HourlyReturn * ladder.hours
    BY DEF AppraisalInv, CostsCovered
  <2>1. HonestLadder(ladder, decision)
    BY DEF Quoted
  <2>2. PICK worth \in Nat, hours \in Nat : worth = ladder.estimate /\ hours = ladder.hours
    BY <2>1 DEF HonestLadder
  <2>3. PICK rung : rung = ladder.rungs[i]
    OBVIOUS
  <2>4. PICK risk \in Nat : Honest(rung, worth, hours, risk)
    BY <2>1, <2>2, <2>3 DEF HonestLadder
  <2>5. worth > 0
    BY <2>2
  <2>6. rung.profit = Proceeds(worth, hours) - rung.coins
    BY <2>4, <2>5, HonestProfit
  <2>7. rung.kind \in {"STEP", "RULE"} /\ rung.meets =>
            10000 * (Proceeds(worth, hours) - rung.coins)
                >= Margin * worth + 10000 * HourlyReturn * hours
    BY <2>4, <2>5, HonestCovers
  <2> QED BY <2>2, <2>3, <2>6, <2>7
<1> QED BY <1>1, AppraisalInvHolds, PTL

-----------------------------------------------------------------------------
(***************************************************************************)
(* What each step does to the queries, and what a ladder obeys.            *)
(***************************************************************************)
\* What the search for listings is doing, in the terms of its halvings.
LEMMA AskingHalves ==
    ASSUME Lists, Asking, step = "listing"
    PROVE  \E k \in Nat, last \in Nat :
              /\ asked = 3 + k /\ k <= last /\ last <= Len(kept)
              /\ widths # <<>> /\ widths \in Seq(Nat) /\ Len(widths) = last + 1 - k
              /\ \A i \in 1 .. Len(widths) : widths[i] = Halvings(Len(kept))[k + i]
              /\ Halvings(Len(kept)) \in [1 .. last + 1 -> 0 .. Len(kept)]
              /\ \A i \in 1 .. last : Halvings(Len(kept))[i + 1] <= Halvings(Len(kept))[i]
              /\ Halvings(Len(kept))[last + 1] = 0 \/ last = MaxActiveRelaxations
<1>1. PICK size \in Nat : size = Len(kept)
  BY DEF Lists
<1>2. PICK halvings : halvings = Halvings(size)
  OBVIOUS
<1>3. PICK k \in Nat : /\ asked = 3 + k
                       /\ widths \in Seq(Nat) /\ widths # <<>>
                       /\ Len(halvings) = k + Len(widths)
                       /\ \A i \in 1 .. Len(widths) : widths[i] = halvings[k + i]
  BY <1>1, <1>2 DEF Asking
<1>4. PICK last \in Nat :
          /\ last <= size /\ last <= MaxActiveRelaxations
          /\ halvings \in [1 .. last + 1 -> 0 .. size]
          /\ \A i \in 1 .. last : halvings[i + 1] <= halvings[i]
          /\ halvings[last + 1] = 0 \/ last = MaxActiveRelaxations
  BY <1>2, QueriesNarrow
<1>5. Len(halvings) = last + 1
  BY <1>4, FunctionIsList
<1>6. PICK n \in Nat : n = Len(widths) /\ n # 0
  BY <1>3
<1>7. n = last + 1 - k /\ k <= last
  BY <1>3, <1>5, <1>6
<1> QED BY <1>1, <1>2, <1>3, <1>4, <1>6, <1>7

\* A query that follows another asks for no more.
LEMMA AsksLess ==
    ASSUME Lists, Asking, AsksAgain
    PROVE  query' \subseteq query
<1>1. PICK k \in Nat, last \in Nat :
          /\ widths # <<>> /\ widths \in Seq(Nat) /\ Len(widths) = last + 1 - k
          /\ \A i \in 1 .. Len(widths) : widths[i] = Halvings(Len(kept))[k + i]
          /\ Halvings(Len(kept)) \in [1 .. last + 1 -> 0 .. Len(kept)]
          /\ \A i \in 1 .. last : Halvings(Len(kept))[i + 1] <= Halvings(Len(kept))[i]
  BY AskingHalves DEF AsksAgain
<1>2. PICK halvings : halvings = Halvings(Len(kept))
  OBVIOUS
<1>3. PICK n \in Nat : n = Len(widths) /\ n >= 2
  <2>1. Len(widths) \in Nat /\ Len(widths) # 0 /\ Len(widths) # 1
    BY <1>1 DEF AsksAgain
  <2>2. PICK n \in Nat : n = Len(widths)
    BY <2>1
  <2> QED BY <2>1, <2>2
<1>4. n = last + 1 - k
  BY <1>1, <1>3
<1>5. k + 1 \in 1 .. last /\ k + 1 \in 1 .. last + 1 /\ k + 2 \in 1 .. last + 1
      /\ (k + 1) + 1 = k + 2
  BY <1>3, <1>4
<1>6. Head(widths) = widths[1] /\ Head(Tail(widths)) = widths[2]
  <2>1. Tail(widths) \in Seq(Nat) /\ Len(Tail(widths)) = n - 1
        /\ \A i \in 1 .. Len(Tail(widths)) : Tail(widths)[i] = widths[i + 1]
    BY <1>1, <1>3, HeadTailProperties
  <2>2. Tail(widths)[1] = widths[2] /\ Tail(widths) # <<>>
    <3>1. 1 \in 1 .. Len(Tail(widths)) /\ 1 + 1 = 2
      BY <1>3, <2>1
    <3>2. Tail(widths)[1] = widths[1 + 1]
      BY <2>1, <3>1
    <3>3. Len(Tail(widths)) # 0
      BY <1>3, <2>1
    <3> QED BY <3>1, <3>2, <3>3
  <2> QED BY <1>1, <2>1, <2>2
<1>7. widths[1] = halvings[k + 1] /\ widths[2] = halvings[k + 2]
  <2>1. 1 \in 1 .. Len(widths) /\ 2 \in 1 .. Len(widths)
    BY <1>3
  <2> QED BY <1>1, <1>2, <2>1
<1>8. PICK w \in 0 .. Len(kept), v \in Nat : v \in 0 .. w /\ w = widths[1] /\ v = widths[2]
  <2>1. halvings[k + 1] \in 0 .. Len(kept) /\ halvings[k + 2] \in 0 .. Len(kept)
    BY <1>1, <1>2, <1>5
  <2>2. halvings[k + 2] <= halvings[k + 1]
    BY <1>1, <1>2, <1>5
  <2>3. Len(kept) \in Nat
    BY DEF Lists
  <2>4. PICK a \in 0 .. Len(kept), b \in 0 .. Len(kept) :
            a = halvings[k + 1] /\ b = halvings[k + 2] /\ b <= a
    BY <2>1, <2>2
  <2>5. b \in 0 .. a
    BY <2>3, <2>4
  <2> QED BY <1>7, <2>4, <2>5
<1>9. query = QueryFor(kept, w) /\ query' = QueryFor(kept, v)
  BY <1>6, <1>8 DEF AsksAgain, Asking
<1>10. kept \in Seq(Listed)
  BY DEF Lists
<1> QED BY <1>8, <1>9, <1>10, FiltersGrow DEF QueryFor

\* The last query asks for nothing but the item, or was the last one allowed.
LEMMA StopsAsking ==
    ASSUME Lists, Asking, step = "listing", Len(widths) = 1
    PROVE  query = ToFilters(<<>>, item) \/ asked = 3 + MaxActiveRelaxations
<1>1. PICK k \in Nat, last \in Nat :
          /\ asked = 3 + k
          /\ widths # <<>> /\ widths \in Seq(Nat) /\ Len(widths) = last + 1 - k
          /\ \A i \in 1 .. Len(widths) : widths[i] = Halvings(Len(kept))[k + i]
          /\ Halvings(Len(kept))[last + 1] = 0 \/ last = MaxActiveRelaxations
  BY AskingHalves
<1>2. k = last
  <2>1. 1 = last + 1 - k
    BY <1>1
  <2> QED BY <2>1
<1>3. CASE last = MaxActiveRelaxations
  BY <1>1, <1>2, <1>3
<1>4. CASE Halvings(Len(kept))[last + 1] = 0
  <2>1. Head(widths) = 0
    <3>1. 1 \in 1 .. Len(widths)
      OBVIOUS
    <3>2. widths[1] = Halvings(Len(kept))[k + 1]
      BY <1>1, <3>1
    <3> QED BY <1>1, <1>2, <1>4, <3>2
  <2>2. query = QueryFor(kept, 0)
    BY <2>1 DEF Asking
  <2>3. SubSeq(kept, 1, 0) = <<>>
    BY SubSeqEmpty
  <2> QED BY <2>2, <2>3 DEF QueryFor
<1> QED BY <1>1, <1>3, <1>4

\* While nothing is listed every query asks for less than the one before, and the search ends
\* with an answer, with a query for the bare item, or at the limit (find_active).
THEOREM AsksWidenHolds == Spec => AsksWiden
<1> DEFINE Widens == step = "listing" =>
                        IF step' = "listing" THEN query' \subseteq query
                        ELSE \/ listings' # <<>>
                             \/ query = ToFilters(<<>>, item)
                             \/ asked = 3 + MaxActiveRelaxations
<1>1. AppraisalInv /\ [Next]_vars => [Widens]_vars
  <2> SUFFICES ASSUME Lists, Asking, Next, step = "listing" PROVE Widens
    BY DEF AppraisalInv
  <2>1. CASE ActiveAnswers
    <3>1. CASE AsksAgain
      <4>1. query' \subseteq query /\ step' = "listing"
        BY <3>1, AsksLess DEF AsksAgain
      <4> QED BY <4>1
    <3>2. CASE step' = "reading" /\ listings' # <<>>
      BY <3>2
    <3>3. CASE step' = "reading" /\ Len(widths) = 1
      <4>1. query = ToFilters(<<>>, item) \/ asked = 3 + MaxActiveRelaxations
        BY <3>3, StopsAsking
      <4> QED BY <3>3, <4>1
    <3> QED BY <2>1, <3>1, <3>2, <3>3, ActiveCases
  <2>2. CASE AnalysisAnswers \/ ReloadValues \/ ReloadRules
    <3>1. step' = step /\ query' = query
      BY <2>2 DEF AnalysisAnswers, ReloadValues, ReloadRules, searchVars
    <3> QED BY <3>1
  <2>3. CASE Pick \/ SoldAnswers \/ BeginPricing \/ PriceDropped \/ Quote \/ Override
    <3>1. step # "listing"
      BY <2>3 DEF Pick, SoldAnswers, BeginPricing, PriceDropped, Quote, Override
    <3> QED BY <3>1
  <2> HIDE DEF Widens
  <2> QED BY <2>1, <2>2, <2>3 DEF Next
<1>2. AsksWiden <=> [][Widens]_vars
  BY DEF AsksWiden
<1> HIDE DEF Widens
<1> QED BY <1>1, <1>2, AppraisalInvHolds, PTL DEF Spec

-----------------------------------------------------------------------------
\* No honest rung pays more than the estimate it is built on.
LEMMA HonestCoins ==
    ASSUME NEW worth \in Nat, NEW hours, NEW risk, NEW rung, Honest(rung, worth, hours, risk)
    PROVE  rung.coins \in Int /\ rung.coins <= worth
<1>1. PICK bp \in Nat : rung.coins = Less(worth, bp)
  BY Zenon DEF Honest
<1> QED BY <1>1, LessBounds

\* A ladder built on a ruling obeys whatever the ruling heeds.
LEMMA HonestObeys ==
    ASSUME NEW built, NEW ruling, IsRuling(ruling), HonestLadder(built, ruling),
           NEW cap, NEW excluded, cap \in Nat \cup {None}, Heeds(ruling, cap, excluded)
    PROVE  /\ excluded => built.neverBuy
           /\ cap # None => \A i \in DOMAIN built.rungs : built.rungs[i].coins <= cap
<1>1. PICK worth \in Nat : worth = built.estimate
  BY DEF HonestLadder
<1>2. excluded => built.neverBuy
  BY DEF HonestLadder, Heeds
<1>3. cap # None => worth <= cap
  <2>1. PICK low \in Nat \cup {None} : low = ruling.cap
    BY DEF IsRuling
  <2>2. low # None => worth <= low
    BY <1>1, <2>1 DEF HonestLadder
  <2>3. cap # None => low # None /\ low <= cap
    BY <2>1 DEF Heeds
  <2> QED BY <1>1, <2>1, <2>2, <2>3
<1>4. ASSUME cap # None, NEW i \in DOMAIN built.rungs PROVE built.rungs[i].coins <= cap
  <2>1. PICK risk \in Nat : \E hours : Honest(built.rungs[i], worth, hours, risk)
    BY <1>1 DEF HonestLadder
  <2>2. built.rungs[i].coins \in Int /\ built.rungs[i].coins <= worth
    BY <2>1, HonestCoins
  <2> QED BY <1>3, <1>4, <2>2
<1> QED BY <1>2, <1>4

\* No rung pays more than the cap of any rule that spoke, and an item that any of them
\* excludes is never one to buy, in whatever order the rules stand (RulesEngine.evaluate).
THEOREM ProtectionsHoldAlways == Spec => ProtectionsHold
<1> DEFINE Heard == /\ step = "pricing" /\ step' = "quoted" =>
                           \A rule \in Speaking' :
                               Obeys([cap |-> rule.cap, excluded |-> rule.exclude])'
                    /\ step' = "quoted" => Obeys(decision)'
<1>1. AppraisalInv /\ AppraisalInv' /\ [Next]_vars => [Heard]_vars
  <2> SUFFICES ASSUME AppraisalInv, AppraisalInv', Next, step' = "quoted" PROVE Heard
    OBVIOUS
  <2>1. IsRuling(decision)' /\ HonestLadder(ladder, decision)'
    BY DEF AppraisalInv, Quoted
  <2>2. Obeys(decision)'
    <3>1. PICK ruling, built : ruling = decision' /\ built = ladder'
      OBVIOUS
    <3>2. IsRuling(ruling) /\ HonestLadder(built, ruling)
      BY <2>1, <3>1
    <3>3. PICK cap, excluded : cap = ruling.cap /\ excluded = ruling.excluded
      OBVIOUS
    <3>4. cap \in Nat \cup {None} /\ Heeds(ruling, cap, excluded)
      BY <3>2, <3>3 DEF IsRuling, Heeds
    <3>5. /\ excluded => built.neverBuy
          /\ cap # None => \A i \in DOMAIN built.rungs : built.rungs[i].coins <= cap
      BY <3>2, <3>4, HonestObeys
    <3> QED BY <3>1, <3>3, <3>5 DEF Obeys
  <2>3. ASSUME step = "pricing", NEW rule \in Speaking'
        PROVE  Obeys([cap |-> rule.cap, excluded |-> rule.exclude])'
    <3>1. PICK ruling : ruling = decision'
      OBVIOUS
    <3>2. ruling = Evaluate(rules, item, table, estimate)'
      <4>1. Quote
        BY <2>3 DEF Next, Pick, SoldAnswers, ActiveAnswers, AnalysisAnswers, BeginPricing,
                    PriceDropped, Override, ReloadValues, ReloadRules
      <4> QED BY <3>1, <4>1 DEF Quote, searchVars
    <3>3. (rules \in RuleSets)'
      BY DEF AppraisalInv, Saved
    <3>4. PICK ruleSet \in RuleSets : ruleSet = rules'
      BY <3>3
    <3>5. PICK context : context = Context(item, table, estimate)'
      OBVIOUS
    <3>6. PICK i \in DOMAIN ruleSet : /\ rule = ruleSet[i] /\ Matches(ruleSet[i], context)
                                      /\ Unstopped(ruleSet, context, i)
      <4>1. PICK i \in DOMAIN ruleSet :
                /\ rule = ruleSet[i] /\ Matches(ruleSet[i], context)
                /\ \A j \in 1 .. (i - 1) : ~ (ruleSet[j].stop /\ Matches(ruleSet[j], context))
        BY <2>3, <3>4, <3>5 DEF Speaking
      <4> QED BY <4>1 DEF Unstopped
    <3>7. IsRuleSet(ruleSet) /\ IsRule(rule)
      BY <3>6, SavedRules DEF IsRuleSet
    <3>8. PICK cap \in Nat \cup {None} : cap = rule.cap
      BY <3>7 DEF IsRule
    <3>e. PICK excluded : excluded = rule.exclude
      OBVIOUS
    <3>9. Heeds(ruling, cap, excluded)
      <4>1. ruling = Evaluate(ruleSet, item', table', estimate')
        BY <3>2, <3>4
      <4>2. context = Context(item', table', estimate')
        BY <3>5
      <4> QED BY <3>6, <3>8, <3>e, <4>1, <4>2, EvaluatedHeeds
    <3>10. IsRuling(ruling) /\ HonestLadder(ladder', ruling)
      BY <2>1, <3>1
    <3>11. PICK built : built = ladder'
      OBVIOUS
    <3>12. /\ excluded => built.neverBuy
           /\ cap # None => \A n \in DOMAIN built.rungs : built.rungs[n].coins <= cap
      BY <3>8, <3>9, <3>10, <3>11, HonestObeys
    <3>13. PICK told : told = [cap |-> rule.cap, excluded |-> rule.exclude]
      OBVIOUS
    <3>14. told.cap = cap /\ told.excluded = excluded
      BY <3>8, <3>e, <3>13
    <3>15. Obeys(told)'
      BY <3>11, <3>12, <3>14 DEF Obeys
    <3> QED BY <3>13, <3>15
  <2> QED BY <2>2, <2>3
<1>2. ProtectionsHold <=> [][Heard]_vars
  BY DEF ProtectionsHold
<1> HIDE DEF Heard
<1> QED BY <1>1, <1>2, AppraisalInvHolds, PTL DEF Spec

=============================================================================
