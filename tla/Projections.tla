---------------------------- MODULE Projections ----------------------------
(***************************************************************************)
(* The derived tables of the ledger and the handler that each event runs   *)
(* on them (app/lowball/ledger/projections.py, projections.sql).           *)
(*                                                                         *)
(* A table with a primary key that callers choose is a function from the   *)
(* key to a row or None, which is what INSERT OR REPLACE and UPDATE ...    *)
(* WHERE key = ? make of it. `exits' and `valuations' are sets of rows:    *)
(* their key is the id of the event that wrote them.                       *)
(***************************************************************************)
EXTENDS EventLog, FiniteSets, FiniteSetsExt

CONSTANT ClaimTax   \* the auction house's cut of a sale: [Amounts -> Nat]

ASSUME ClaimTaxAssumption == ClaimTax \in [Amounts -> Nat]

\* Ids are strings of a fixed length.
ASSUME OffersFinite == IsFiniteSet(Offers)

SessionRow == [state : {"ACTIVE", "CONFIRMED", "ABANDONED"},
               item : Items \cup {None}, offerCount : Nat]
OfferRow   == [session : Sessions, seq : Nat,
               outcome : {"PENDING", "CONFIRMED", "REJECTED", "COUNTERED", "ABANDONED"},
               counter : Amounts \cup {None}, settled : Nat \cup {None}]
ItemRow    == [state : {"HELD", "SOLD", "KEPT"}, cost : Nat,
               est : Amounts \cup {None}, session : Sessions \cup {None},
               exited : BOOLEAN]
ExitRow    == [id : Nat \ {0}, item : Items, route : {"SOLD", "KEPT"},
               gross : Nat, fees : Nat, cost : Nat]
ValuationRow == [id : Nat \ {0}, item : Items \cup {None}]

ASSUME NoRowAssumption == None \notin SessionRow \cup OfferRow \cup ItemRow

Tables == [sessions   : [Sessions -> SessionRow \cup {None}],
           offers     : [Offers -> OfferRow \cup {None}],
           items      : [Items -> ItemRow \cup {None}],
           exits      : SUBSET ExitRow,
           valuations : SUBSET ValuationRow]

\* apply_projections: every derived table dropped and created empty.
EmptyTables == [sessions   |-> [s \in Sessions |-> None],
                offers     |-> [o \in Offers |-> None],
                items      |-> [i \in Items |-> None],
                exits      |-> {},
                valuations |-> {}]

\* int(x or 0)
Coins(x) == IF x = None THEN 0 ELSE x

OffersOf(offers, s) == {o \in Offers : offers[o] # None /\ offers[o].session = s}

(***************************************************************************)
(* Sessions and offers.                                                    *)
(***************************************************************************)
SessionStarted(t, p) ==
    [t EXCEPT !.sessions[p.session] =
        [state |-> "ACTIVE", item |-> None, offerCount |-> 0]]

\* Mutant of OfferMade: the offers of the session counted before the insert.
OfferMadeCountedEarly(t, p) ==
    LET seqs   == {t.offers[o].seq : o \in OffersOf(t.offers, p.session)}
        count  == Cardinality(seqs)
    IN [t EXCEPT !.offers[p.offer] =
                     [session |-> p.session, seq |-> Max({0} \cup seqs) + 1,
                      outcome |-> "PENDING", counter |-> None, settled |-> None],
                 !.sessions[p.session] =
                     IF @ = None THEN None ELSE [@ EXCEPT !.offerCount = count]]

OfferMade(t, p) ==
    LET seqs   == {t.offers[o].seq : o \in OffersOf(t.offers, p.session)}
        offers == [t.offers EXCEPT ![p.offer] =
                      [session |-> p.session, seq |-> Max({0} \cup seqs) + 1,
                       outcome |-> "PENDING", counter |-> None, settled |-> None]]
        count  == Cardinality(OffersOf(offers, p.session))
    IN [t EXCEPT !.offers = offers,
                 !.sessions[p.session] =
                     IF @ = None THEN None ELSE [@ EXCEPT !.offerCount = count]]

OfferRejected(t, p) ==
    [t EXCEPT !.offers[p.offer] =
        IF @ = None THEN None ELSE [@ EXCEPT !.outcome = "REJECTED"]]

OfferCountered(t, p) ==
    [t EXCEPT !.offers[p.offer] =
        IF @ = None THEN None
        ELSE [@ EXCEPT !.outcome = "COUNTERED", !.counter = p.amount]]

\* Mutant of SessionAbandoned: the offers that were answered are swept along.
SessionAbandonedSweeping(t, p) ==
    [t EXCEPT !.offers = [o \in Offers |->
                  IF o \in OffersOf(t.offers, p.session)
                  THEN [t.offers[o] EXCEPT !.outcome = "ABANDONED"]
                  ELSE t.offers[o]],
              !.sessions[p.session] =
                  IF @ = None THEN None ELSE [@ EXCEPT !.state = "ABANDONED"]]

\* A walk-away is not a rejection: only the unanswered offers are ABANDONED.
SessionAbandoned(t, p) ==
    [t EXCEPT !.offers = [o \in Offers |->
                  IF o \in OffersOf(t.offers, p.session) /\ t.offers[o].outcome = "PENDING"
                  THEN [t.offers[o] EXCEPT !.outcome = "ABANDONED"]
                  ELSE t.offers[o]],
              !.sessions[p.session] =
                  IF @ = None THEN None ELSE [@ EXCEPT !.state = "ABANDONED"]]

(***************************************************************************)
(* The life of an item.                                                    *)
(***************************************************************************)
ItemAcquired(t, p) ==
    [t EXCEPT
        !.items[p.item] = [state |-> "HELD", cost |-> Coins(p.amount), est |-> p.est,
                           session |-> p.session, exited |-> FALSE],
        !.offers = [o \in Offers |->
            IF o = p.offer /\ t.offers[o] # None
            THEN [t.offers[o] EXCEPT !.outcome = "CONFIRMED", !.settled = Coins(p.amount)]
            ELSE t.offers[o]],
        !.sessions = [s \in Sessions |->
            IF s = p.session /\ t.sessions[s] # None
            THEN [t.sessions[s] EXCEPT !.state = "CONFIRMED", !.item = p.item]
            ELSE t.sessions[s]]]

\* _record_exit: one exit per item, so an earlier one of the same item goes.
RecordExit(t, id, item, route, gross, fees) ==
    LET cost == IF t.items[item] = None THEN 0 ELSE t.items[item].cost
    IN [t EXCEPT
          !.exits = {x \in @ : x.item # item} \cup
                    {[id |-> id, item |-> item, route |-> route,
                      gross |-> gross, fees |-> fees, cost |-> cost]},
          !.items[item] = IF @ = None THEN None ELSE [@ EXCEPT !.exited = TRUE]]

MarkItem(t, item, state) ==
    [t EXCEPT !.items[item] = IF @ = None THEN None ELSE [@ EXCEPT !.state = state]]

\* The three shapes of a sale: the two older ones carry no `taxed' flag and no
\* tax, and answer both by their type.
SaleFees(type, p) ==
    LET taxed == IF p.taxed = None THEN type = "ITEM_SOLD_AH" ELSE p.taxed
    IN IF p.fee # None THEN p.fee
       ELSE IF taxed /\ p.amount # None THEN ClaimTax[p.amount] ELSE 0

ItemSold(t, id, type, p) ==
    RecordExit(MarkItem(t, p.item, "SOLD"), id, p.item, "SOLD",
               Coins(p.amount), SaleFees(type, p))

\* Booked at the given market value, else at the item's last estimate.
KeepValue(t, p) ==
    IF p.amount # None THEN p.amount
    ELSE IF t.items[p.item] = None THEN 0 ELSE Coins(t.items[p.item].est)

ItemKept(t, id, p) ==
    RecordExit(MarkItem(t, p.item, "KEPT"), id, p.item, "KEPT", KeepValue(t, p), 0)

\* Mutant of ExitUnwound: the exit row stays.
ExitUnwoundKeepingExit(t, p) ==
    [t EXCEPT !.items[p.item] =
                  IF @ = None THEN None
                  ELSE [@ EXCEPT !.state = "HELD", !.exited = FALSE]]

ExitUnwound(t, p) ==
    [t EXCEPT !.exits = {x \in @ : x.item # p.item},
              !.items[p.item] =
                  IF @ = None THEN None
                  ELSE [@ EXCEPT !.state = "HELD", !.exited = FALSE]]

ValuationRecorded(t, id, p) ==
    [t EXCEPT
        !.valuations = {v \in @ : v.id # id} \cup {[id |-> id, item |-> p.item]},
        !.items = [i \in Items |->
            IF i = p.item /\ t.items[i] # None /\ p.est # None
            THEN [t.items[i] EXCEPT !.est = p.est]
            ELSE t.items[i]]]

(***************************************************************************)
(* Projector.apply: the handler table. An unknown type has no handler.     *)
(***************************************************************************)
Apply(t, id, e) ==
    LET p == e.payload
    IN CASE e.type = "SESSION_STARTED"    -> SessionStarted(t, p)
         [] e.type = "OFFER_MADE"         -> OfferMade(t, p)
         [] e.type = "OFFER_REJECTED"     -> OfferRejected(t, p)
         [] e.type = "OFFER_COUNTERED"    -> OfferCountered(t, p)
         [] e.type = "SESSION_ABANDONED"  -> SessionAbandoned(t, p)
         [] e.type = "ITEM_ACQUIRED"      -> ItemAcquired(t, p)
         [] e.type \in SaleEvents         -> ItemSold(t, id, e.type, p)
         [] e.type = "ITEM_KEPT"          -> ItemKept(t, id, p)
         [] e.type = "EXIT_UNWOUND"       -> ExitUnwound(t, p)
         [] e.type = "VALUATION_RECORDED" -> ValuationRecorded(t, id, p)
         [] OTHER                         -> t

\* The row `exit-{id}' is already there for another item: a plain INSERT fails.
ExitIdTaken(t, id, e) ==
    /\ e.type \in SaleEvents \cup {"ITEM_KEPT"}
    /\ \E x \in t.exits : x.id = id /\ x.item # e.payload.item

(***************************************************************************)
(* Replaying: rebuild runs the effective log from empty tables, catch_up   *)
(* runs what is newer than the watermark on the tables as they are.        *)
(***************************************************************************)
ReplayStep(t, log, i) ==
    IF IsEffective(log, i) THEN Apply(t, i, EffectiveEvent(log, i)) ELSE t

\* The tables after each row of the log that follows the first `from' rows.
ReplayFrom(t, log, from) ==
    LET upTo[n \in from..Len(log)] ==
            IF n = from THEN t ELSE ReplayStep(upTo[n-1], log, n)
    IN upTo

Replay(log) == ReplayFrom(EmptyTables, log, 0)[Len(log)]

CatchUp(t, log, watermark) ==
    IF watermark < Len(log) THEN ReplayFrom(t, log, watermark)[Len(log)] ELSE t

=============================================================================
