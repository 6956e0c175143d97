------------------------------ MODULE Appraisal ----------------------------
(***************************************************************************)
(* The appraisal of one picked item, from the click to the ladder:         *)
(* AppController._value_item, RelaxationSearch (pricing/relaxation.py),    *)
(* ValuationEngine.value and AppController._rebuild_ladder.                *)
(*                                                                         *)
(* The search is a coroutine: an action is what it does between two        *)
(* awaits.  Sales, listings, the market's analysis and the price of a book *)
(* come from an API that may answer anything or fail (Coflnet.tla says how *)
(* it is asked); the analysis is fetched beside the search and joined      *)
(* late.  Meanwhile the user may save other prices or rules, and once the  *)
(* ladder is there may value the item by hand.                             *)
(***************************************************************************)
EXTENDS Pricing

CONSTANTS
    Items,                \* items that may be picked
    Tables, RuleSets,     \* what the user may save as prices and as rules
    Markets,              \* answers to "what was sold": sequences of sales
    Books,                \* answers to "what is listed": sequences of prices
    Analyses,             \* analyses the market may have
    LowestBins,           \* prices of a modifier on its own
    HoldHours, Curves,    \* what the history may say
    ManualCoins,          \* values the user may type
    Explore,              \* whether the roll may ask for an exploration
    MinComparables, MaxActiveRelaxations

ASSUME SettingsAssumption == MinComparables \in Nat /\ MaxActiveRelaxations \in Nat

\* Coins, hours and shares are natural numbers.
ASSUME AnswersAssumption ==
    /\ \A sold \in Markets : /\ Len(sold) \in Nat /\ DOMAIN sold = 1..Len(sold)
                            /\ \A n \in DOMAIN sold : sold[n].price \in Nat
    /\ Books \subseteq Seq(Nat)
    /\ Analyses \subseteq [median : Nat, liquidity : Nat, risk : Nat]
    /\ LowestBins \cup HoldHours \cup ManualCoins \subseteq Nat

\* A cap below nought can be written into the rules file (model.py does not look), and would
\* make every rung worthless; it is left out.
ASSUME SavedAssumption ==
    /\ \A saved \in Tables : saved.discount \in Nat
    /\ \A saved \in RuleSets :
           /\ Len(saved) \in Nat /\ DOMAIN saved = 1..Len(saved)
           /\ \A n \in DOMAIN saved : /\ {saved[n].offer, saved[n].cap} \subseteq Nat \cup {None}
                                      /\ {saved[n].exclude, saved[n].stop} \subseteq BOOLEAN

\* An item's modifiers are finitely many, and rank, level and recovered share
\* of each are whole numbers.
ASSUME ModifiersAssumption ==
    \A picked \in Items, ruleSet \in RuleSets, saved \in Tables :
        LET rewritten == Normalise(ruleSet, picked, saved)
            listed == Ranked(rewritten, saved)
        IN  /\ IsFiniteSet(ModifiersOf(rewritten, saved))
            /\ \A n \in DOMAIN listed :
                   {listed[n].rank, listed[n].level, listed[n].recovery} \subseteq Int

VARIABLES
    table, rules,    \* prices and rules in use
    step,            \* where the coroutine is
    item, ranked,    \* the item as the rules left it, and its modifiers
    sales, matched,  \* what was sold, and which of it compares
    kept, dropped,   \* the modifiers it was matched on, and those given up
    widths, query,   \* prefixes of `kept` still to ask the listings for
    asked,           \* requests of this search
    listings, analysis,
    todo, addback,   \* modifiers still to price, and what the others add
    base, discount,  \* read when the pricing began
    estimate, decision, ladder

searchVars == <<item, ranked, sales, matched, kept, dropped, widths, query, asked,
                listings, analysis, todo, addback, base, discount>>
quoteVars == <<estimate, decision, ladder>>
vars == <<table, rules, step, searchVars, quoteVars>>

Awaited == [awaited |-> TRUE]
Prices(positions) == [n \in positions |-> sales[n].price]
Enough(positions) == Cardinality(positions) >= MinComparables
-----------------------------------------------------------------------------
\* Mutant of Consider: the first modifier that fails ends the search, as if
\* all that follow were worth too little to be tried.
ConsiderUntilOneFails(acc, m, sold) ==
    LET candidate == Select(sold, ToSet(acc.kept) \cup {m}, item.rarity)
    IN  IF acc.dropped = <<>> /\ m.matching /\ Matchable(m, sold) /\ Enough(candidate)
        THEN [acc EXCEPT !.kept = Append(@, m), !.matched = candidate]
        ELSE [acc EXCEPT !.dropped = Append(@, m)]

\* RelaxationSearch._narrow: every modifier the sales support is kept, the
\* most valuable first; one that nothing matches is given up on its own.
Consider(acc, m, sold) ==
    LET candidate == Select(sold, ToSet(acc.kept) \cup {m}, item.rarity)
    IN  IF m.matching /\ Matchable(m, sold) /\ Enough(candidate)
        THEN [acc EXCEPT !.kept = Append(@, m), !.matched = candidate]
        ELSE [acc EXCEPT !.dropped = Append(@, m)]

\* The search after each modifier on the list.
NarrowedUpTo(sold) ==
    LET upTo[n \in 0..Len(ranked)] ==
            IF n = 0
            THEN [kept |-> <<>>, dropped |-> <<>>, matched |-> Select(sold, {}, item.rarity)]
            ELSE Consider(upTo[n - 1], ranked[n], sold)
    IN  upTo
Narrow(sold) ==
    LET narrowed == NarrowedUpTo(sold)
    IN  IF Enough(narrowed[0].matched) THEN narrowed[Len(ranked)]
        ELSE [narrowed[0] EXCEPT !.dropped = ranked]

\* How many of the kept modifiers each query for listings asks for: all of
\* them, then half, ..., then none, as far as the budget goes.
Halved(n) ==
    LET upTo[i \in 0..n] == IF i = 0 THEN n ELSE upTo[i - 1] \div 2
    IN  upTo
Halvings(n) ==
    LET gone == Min({i \in 0..n : Halved(n)[i] = 0})
    IN  [i \in 1..Least(gone, MaxActiveRelaxations) + 1 |-> Halved(n)[i - 1]]
\* Mutant of QueryFor: the least valuable modifiers are asked for.
QueryForLeast(mods, width) == ToFilters(SubSeq(mods, Len(mods) - width + 1, Len(mods)), item)
QueryFor(mods, width) == ToFilters(SubSeq(mods, 1, width), item)
-----------------------------------------------------------------------------
Init ==
    /\ table \in Tables /\ rules \in RuleSets
    /\ step = "idle"
    /\ item = None /\ estimate = None /\ decision = Undecided /\ ladder = None
    /\ ranked = <<>> /\ sales = <<>> /\ matched = {} /\ kept = <<>> /\ dropped = <<>>
    /\ widths = <<>> /\ query = {} /\ asked = 0 /\ listings = <<>> /\ analysis = None
    /\ todo = <<>> /\ addback = 0 /\ base = 0 /\ discount = 0

\* The rules rewrite the item, then its sales and the analysis are asked for.
Pick ==
    /\ step = "idle"
    /\ \E picked \in Items : item' = Normalise(rules, picked, table)
    /\ ranked' = Ranked(item', table)
    /\ analysis' = Awaited
    /\ asked' = 2
    /\ step' = "selling"
    /\ UNCHANGED <<table, rules, sales, matched, kept, dropped, widths, query, listings,
                   todo, addback, base, discount, quoteVars>>

\* A lookup that fails answers with nothing sold.
SoldAnswers ==
    /\ step = "selling"
    /\ sales' \in Markets \cup {<<>>}
    /\ LET found == Narrow(sales')
       IN  kept' = found.kept /\ dropped' = found.dropped /\ matched' = found.matched
    /\ widths' = Halvings(Len(kept'))
    /\ query' = QueryFor(kept', Head(widths'))
    /\ asked' = asked + 1
    /\ step' = "listing"
    /\ UNCHANGED <<table, rules, item, ranked, listings, analysis, todo, addback, base,
                   discount, quoteVars>>

\* _find_active: with nothing listed, half the constraints are given up.
ActiveAnswers ==
    /\ step = "listing"
    /\ \E found \in Books \cup {<<>>} :
           IF found # <<>> \/ Len(widths) = 1
           THEN /\ listings' = found
                /\ step' = "reading"
                /\ UNCHANGED <<widths, query, asked>>
           ELSE /\ widths' = Tail(widths)
                /\ query' = QueryFor(kept, Head(widths'))
                /\ asked' = asked + 1
                /\ UNCHANGED <<listings, step>>
    /\ UNCHANGED <<table, rules, item, ranked, sales, matched, kept, dropped, analysis,
                   todo, addback, base, discount, quoteVars>>

AnalysisAnswers ==
    /\ analysis = Awaited
    /\ analysis' \in Analyses \cup {None}
    /\ UNCHANGED <<table, rules, step, item, ranked, sales, matched, kept, dropped, widths,
                   query, asked, listings, todo, addback, base, discount, quoteVars>>

\* The analysis has been joined.
BeginPricing ==
    /\ step = "reading"
    /\ analysis # Awaited
    /\ todo' = dropped
    /\ LET median == MiddleOf(Ascending(Prices(matched)))
       IN  base' = CASE median \notin {None, 0} -> median
                     [] median \in {None, 0} /\ analysis # None -> analysis.median
                     [] OTHER -> 0
    /\ discount' = table.discount
    /\ step' = "pricing"
    /\ UNCHANGED <<table, rules, item, ranked, sales, matched, kept, dropped, widths, query,
                   asked, listings, analysis, addback, quoteVars>>

\* Whether a modifier is worth a request of its own.
WorthAsking(m) == m.priceable /\ m.rank >= (base * 5) \div 1000

\* What a modifier adds at a price.  Candy takes value away.
Recovered(m, price) ==
    IF m.kind = "pet_candy" THEN -((base * 5 * Least(1, m.level)) \div 100)
    ELSE (price * m.recovery * (100 - discount)) \div 10000

\* One modifier of _price_dropped: from its own market or, where that is too
\* much trouble or does not answer, from its rank.
PriceDropped ==
    /\ step = "pricing" /\ todo # <<>>
    /\ LET m == Head(todo)
       IN  IF WorthAsking(m)
           THEN /\ \E price \in LowestBins \cup {m.rank} :
                       addback' = addback + Recovered(m, price)
                /\ asked' = asked + 1
           ELSE addback' = addback + Recovered(m, m.rank) /\ UNCHANGED asked
    /\ todo' = Tail(todo)
    /\ UNCHANGED <<table, rules, step, item, ranked, sales, matched, kept, dropped, widths,
                   query, listings, analysis, base, discount, quoteVars>>

Requote(value, ruling) ==
    \E hours \in HoldHours, curve \in Curves, exploring \in Explore :
        ladder' \in Ladders(value, hours, IF analysis = None THEN 0 ELSE analysis.risk,
                            ruling, curve, exploring)

\* Everything after the last await: estimate, rules, ladder, recommendation.
Quote ==
    /\ step = "pricing" /\ todo = <<>>
    /\ estimate' = Estimate(Prices(matched), listings, analysis, addback)
    /\ decision' = Evaluate(rules, item, table, estimate')
    /\ Requote(estimate', decision')
    /\ step' = "quoted"
    /\ UNCHANGED <<table, rules, searchVars>>

\* AppController.override_estimate: a value typed by hand, or None to go back
\* to the market's. The rules are not asked again.
Override ==
    /\ step = "quoted"
    /\ \E coins \in ManualCoins \cup {None} :
           Requote(IF coins = None THEN estimate ELSE coins, decision)
    /\ UNCHANGED <<table, rules, step, estimate, decision, searchVars>>

\* AppController.reload_values and reload_rules.  The Config tab saves either
\* at any time; a search under way has read what it has read.
ReloadValues ==
    /\ table' \in Tables \ {table}
    /\ UNCHANGED <<rules, step, searchVars, quoteVars>>
ReloadRules ==
    /\ rules' \in RuleSets \ {rules}
    /\ UNCHANGED <<table, step, searchVars, quoteVars>>

Next == \/ Pick
        \/ SoldAnswers \/ ActiveAnswers \/ AnalysisAnswers
        \/ BeginPricing \/ PriceDropped \/ Quote
        \/ Override \/ ReloadValues \/ ReloadRules

Spec == Init /\ [][Next]_vars
-----------------------------------------------------------------------------
Supported(mods) == Enough(Select(sales, mods, item.rarity))
Testable == {m \in ToSet(ranked) : m.matching /\ Matchable(m, sales)}

\* One set of modifiers has the more valuable one where they first differ.
Outranks(mods, others) ==
    \E i \in DOMAIN ranked :
        /\ ranked[i] \in mods \ others
        /\ \A j \in 1..(i - 1) : ranked[j] \in mods <=> ranked[j] \in others

\* Going down the list once and never back finds the best there is: of all
\* sets of modifiers that enough sales share, the comparables share the one
\* that gives up the least valuable ones, and they are all of its sales.
KeptIsBest ==
    step = "listing" /\ asked = 3 =>
        /\ matched = Select(sales, ToSet(kept), item.rarity)
        /\ kept # <<>> => Supported(ToSet(kept))
        /\ \A mods \in SUBSET Testable :
               Supported(mods) => mods = ToSet(kept) \/ Outranks(ToSet(kept), mods)

\* Each query for listings asks no more than the one before it, whatever the
\* API could express of it, and the search gives up only when it has asked
\* for anything of the item's rarity or used its budget up.
AsksWiden ==
    [][step = "listing" =>
          IF step' = "listing" THEN query' \subseteq query
          ELSE \/ listings' # <<>>
               \/ query = ToFilters(<<>>, item)
               \/ asked = 3 + MaxActiveRelaxations]_vars

\* What is left of a resale at the estimate, as the auction house charges it.
Listings(hours) == CHOOSE n \in 1..(hours + 1) :
                       /\ n * AuctionHours >= hours
                       /\ n = 1 \/ (n - 1) * AuctionHours < hours
Proceeds(price, hours) == price - ClaimTax(price) - Listings(hours) * ListingFee(price)

\* A rung that says it covers costs pays for the tax, a listing fee for every
\* auction the hold takes, the capital and the margin; and the profit beside
\* a rung is what the ledger will book for such a sale, less those fees.
CostsCovered ==
    ladder # None /\ ladder.estimate > 0 =>
        \A i \in DOMAIN ladder.rungs :
            LET rung == ladder.rungs[i]
                left == Proceeds(ladder.estimate, ladder.hours) - rung.coins
            IN  /\ rung.profit = left
                /\ rung.kind \in {"STEP", "RULE"} /\ rung.meets =>
                       10000 * left >= Margin * ladder.estimate
                                           + 10000 * HourlyReturn * ladder.hours

\* The rules that speak for the item that was valued, none before them having
\* said stop.
Speaking ==
    LET context == Context(item, table, estimate)
        stops(j) == rules[j].stop /\ Matches(rules[j], context)
    IN  {rules[i] : i \in {i \in DOMAIN rules :
             Matches(rules[i], context) /\ \A j \in 1..(i - 1) : ~stops(j)}}

Obeys(decision0) ==
    /\ decision0.excluded => ladder.neverBuy
    /\ decision0.cap # None =>
           \A i \in DOMAIN ladder.rungs : ladder.rungs[i].coins <= decision0.cap

\* No rung of a new ladder pays more than any cap that speaks for the item,
\* whatever another rule has set before; a rule that says never buy is heard;
\* and a value typed by hand gets round neither.
ProtectionsHold ==
    [][/\ step = "pricing" /\ step' = "quoted" =>
              \A rule \in Speaking' :
                  Obeys([cap |-> rule.cap, excluded |-> rule.exclude])'
       /\ step' = "quoted" => Obeys(decision)']_vars
=============================================================================
