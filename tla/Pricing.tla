------------------------------- MODULE Pricing -----------------------------
(***************************************************************************)
(* From comparables to a ladder of offers: the auction house's charges     *)
(* (tax.py), the sanitised lowest BIN and the blend (pricing/blending.py), *)
(* the estimate (pricing/valuation.py), the ladder, its floor and the      *)
(* recommendation (pricing/offer.py).                                      *)
(*                                                                         *)
(* Rates and discounts are basis points and prices integers; the code's    *)
(* floats are taken as exact.  An analysis of the market is [median,       *)
(* liquidity, risk], the last two as the shares they contribute; how they  *)
(* follow from volumes, sell times and volatility is left out, as are the  *)
(* confidence score, the estimate of the sell time and the fit of the      *)
(* acceptance curve, which is a probability that falls with the discount.  *)
(***************************************************************************)
EXTENDS RuleEngine

CONSTANTS
    Tiers,         \* <<[upper, bp]>>: the rate up to a price, None for unbounded
    Derpy,         \* whether the mayor doubles the rates
    AuctionHours,  \* an auction runs out after this long
    Margin,        \* target_margin, in basis points
    HourlyReturn,  \* target_hourly_return
    MaxLbinSkip,   \* how many implausible listings are passed over
    LadderMin, LadderMax, LadderStep

ASSUME PricingAssumption ==
    /\ AuctionHours \in Nat \ {0} /\ LadderStep \in Nat \ {0}
    /\ {LadderMin, LadderMax, Margin, HourlyReturn, MaxLbinSkip} \subseteq Nat

\* A rate for every price: the last tier is unbounded.
ASSUME TiersAssumption ==
    /\ Tiers \in Seq([upper : Nat \cup {None}, bp : Nat])
    /\ \E i \in DOMAIN Tiers : Tiers[i].upper = None

RateBp(price) ==
    LET covers == {i \in DOMAIN Tiers : Tiers[i].upper = None \/ price <= Tiers[i].upper}
        bp == Tiers[Min(covers)].bp
    IN  IF Derpy THEN 2 * bp ELSE bp
ClaimTax(price) == IF price <= 0 THEN 0 ELSE (price * RateBp(price)) \div 10000
ListingFee(ask) == IF ask <= 0 THEN 0 ELSE (ask * RateBp(ask)) \div 10000

\* Mutant of RelistCount: an auction that has begun is not counted.
RelistCountWhole(hours) == Most(1, hours \div AuctionHours)

\* A listing is paid again every time the auction runs out.
RelistCount(hours) == Most(1, (hours + AuctionHours - 1) \div AuctionHours)
ListingCost(ask, hours) == ListingFee(ask) * RelistCount(hours)
-----------------------------------------------------------------------------
\* The k-th smallest of a function's values.
Nth(values, k) ==
    LET upTo(p) == {i \in DOMAIN values : values[i] <= p}
    IN  Min({p \in {values[i] : i \in DOMAIN values} : Cardinality(upTo(p)) >= k})

\* Prices, of sales or listings, in ascending order, and the middle of such a list.
Ascending(prices) == [k \in 1..Cardinality(DOMAIN prices) |-> Nth(prices, k)]
MiddleOf(s) ==
    LET mid == Len(s) \div 2
    IN  CASE s = <<>> -> None
          [] Len(s) % 2 = 1 -> s[mid + 1]
          [] OTHER -> (s[mid] + s[mid + 1]) \div 2

\* A price of zero is none.
Sorted(prices) == Ascending([i \in {i \in DOMAIN prices : prices[i] > 0} |-> prices[i]])
MedianOf(prices) == MiddleOf(Sorted(prices))

\* sanitise_lbin: the cheapest listing that is plausible beside the median.
SanitiseLbin(prices, median) ==
    LET s == Sorted(prices)
        near == {i \in DOMAIN s : i <= MaxLbinSkip + 1}
        plausible == {i \in near : s[i] >= (median * 65) \div 100}
    IN  CASE s = <<>> -> None
          [] s # <<>> /\ median = None -> s[1]
          [] OTHER -> IF plausible # {} THEN s[Min(plausible)]
                      ELSE IF Len(s) > MaxLbinSkip + 1 THEN s[MaxLbinSkip + 2]
                      ELSE median

\* With no analysis, the comparables say how liquid the market is.
Liquidity(analysis, sample) ==
    IF analysis # None THEN analysis.liquidity ELSE Least(100, 5 * sample) \div 2

\* blend: the deeper the market, the more the lowest BIN weighs.
Blend(lbin, median, liquidity) ==
    LET weight == CASE lbin = None -> 0
                    [] lbin # None /\ median = None -> 100
                    [] OTHER -> 15 + liquidity \div 2
        share(price, w) == IF price = None THEN 0 ELSE w * price
    IN  ((share(lbin, weight) + share(median, 100 - weight)) * 98) \div 10000

\* ValuationEngine.value: the blend or, where nothing matched, the market's
\* median, and what the modifiers that were given up add.
Base(sold, listings, analysis) ==
    LET median == MedianOf(sold)
        blended == Blend(SanitiseLbin(listings, median), median,
                         Liquidity(analysis, Cardinality(DOMAIN sold)))
    IN  IF blended > 0 THEN blended
        ELSE IF analysis # None THEN analysis.median ELSE 0
Estimate(sold, listings, analysis, addback) ==
    Most(0, Base(sold, listings, analysis) + addback)
-----------------------------------------------------------------------------
\* required_discount: pct covers tax, fees, risk, capital and margin.
MeetsFloor(pct, estimate, hours, risk) ==
    LET price == Most(1, estimate)
    IN  pct * price >= (RateBp(price) + risk + Margin) * price
                           + 10000 * (ListingCost(price, hours) + HourlyReturn * hours)

\* What is left if it resells at the estimate.
ProfitAt(price, estimate, hours) ==
    estimate - (estimate * RateBp(estimate)) \div 10000 - ListingCost(estimate, hours) - price

Less(estimate, bp) == (estimate * (10000 - bp)) \div 10000

\* a / b to the nearest whole number and, from half way, to the even one.
Nearest(a, b) ==
    LET up == 2 * (a % b) > b \/ (2 * (a % b) = b /\ (a \div b) % 2 = 1)
    IN  IF up THEN a \div b + 1 ELSE a \div b
LadderPercentages ==
    {LadderMin + LadderStep * i : i \in 0..Nearest(LadderMax - LadderMin, LadderStep)}

Step(pct, estimate, hours, risk, decision) ==
    [kind |-> IF pct = decision.offer THEN "RULE" ELSE "STEP", pct |-> pct,
     coins |-> Less(estimate, pct), profit |-> ProfitAt(Less(estimate, pct), estimate, hours),
     meets |-> MeetsFloor(pct, estimate, hours, risk)]

\* build_ladder's steps, the mildest discount first.  The rungs above them
\* are the estimate and the estimate less the claim tax.
Steps(estimate, hours, risk, decision) ==
    LET pcts == LadderPercentages \cup Only(decision.offer # None, decision.offer)
    IN  [i \in 1..Cardinality(pcts) |->
            Step(Nth([p \in pcts |-> p], i), estimate, hours, risk, decision)]
TopRungs(estimate, hours) ==
    LET rung(kind, bp) == [kind |-> kind, pct |-> bp, coins |-> Less(estimate, bp),
                           profit |-> ProfitAt(Less(estimate, bp), estimate, hours),
                           meets |-> TRUE]
    IN  <<rung("ESTIMATE", 0), rung("NET_OF_TAX", RateBp(estimate))>>

\* A curve is [enough, steep]: P(accept) falls by `steep` per cent a point.
Probability(curve, pct) == Most(0, 100 - (curve.steep * pct) \div 100)
ValueOf(curve, rung) == Probability(curve, rung.pct) * rung.profit

\* recommend: with history, the step of the highest expected value, or any
\* step when the roll says explore; without, the first that covers costs.
Recommended(steps, curve, exploring) ==
    LET best == {i \in DOMAIN steps : \A j \in DOMAIN steps :
                     ValueOf(curve, steps[i]) >= ValueOf(curve, steps[j])}
        covering == {i \in DOMAIN steps : steps[i].meets}
    IN  CASE curve.enough /\ exploring -> DOMAIN steps
          [] curve.enough /\ ~exploring -> {Min(best)}
          [] OTHER -> IF covering # {} THEN {Min(covering)} ELSE {Len(steps)}

\* AppController._rebuild_ladder.  A cap lowers the estimate it is built on.
Capped(estimate, decision) ==
    IF decision.cap = None THEN estimate ELSE Least(estimate, decision.cap)
Ladders(estimate, hours, risk, decision, curve, exploring) ==
    LET used == Capped(estimate, decision)
        steps == Steps(used, hours, risk, decision)
    IN  {[estimate |-> used, hours |-> hours,
          rungs |-> TopRungs(used, hours) \o steps,
          recommended |-> steps[i],
          neverBuy |-> decision.excluded] : i \in Recommended(steps, curve, exploring)}
=============================================================================
