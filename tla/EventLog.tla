------------------------------ MODULE EventLog ------------------------------
(***************************************************************************)
(* The append-only event log of the ledger (app/lowball/ledger/events.py): *)
(* what an event is, and how the corrections recorded later in the log     *)
(* rewrite the events recorded earlier.                                    *)
(*                                                                         *)
(* A log is a sequence: the `events' table numbers its rows 1, 2, ... with *)
(* an INTEGER PRIMARY KEY that is not AUTOINCREMENT, rows are only ever    *)
(* deleted all at once, and so the id of an event is its position.         *)
(***************************************************************************)
EXTENDS Integers, Sequences

CONSTANTS
    Sessions,   \* ids of negotiation sessions
    Offers,     \* ids of offers
    Items,      \* ids of items
    Amounts,    \* coin amounts that callers pass
    None        \* an absent value (Python's None, SQL's NULL)

ASSUME NoneAssumption ==
    None \notin Sessions \cup Offers \cup Items \cup Nat \cup BOOLEAN

ASSUME AmountsAssumption == Amounts \subseteq Nat

SessionEvents == {"SESSION_STARTED", "OFFER_MADE", "OFFER_REJECTED",
                  "OFFER_COUNTERED", "SESSION_ABANDONED"}
SaleEvents    == {"ITEM_SOLD", "ITEM_SOLD_AH", "ITEM_SOLD_PRIVATE"}
ItemEvents    == SaleEvents \cup
                 {"ITEM_ACQUIRED", "ITEM_KEPT", "EXIT_UNWOUND", "VALUATION_RECORDED"}
EventType     == SessionEvents \cup ItemEvents

\* The payload keys the projections read. `amount' is the coin figure of the
\* event: counter_price, cost_basis, price or market_value.
Payload == [session : Sessions \cup {None},
            offer   : Offers \cup {None},
            item    : Items \cup {None},
            amount  : Amounts \cup {None},
            est     : Amounts \cup {None},
            fee     : Nat \cup {None},
            taxed   : BOOLEAN \cup {None}]

NoPayload == [session |-> None, offer |-> None, item |-> None, amount |-> None,
              est |-> None, fee |-> None, taxed |-> None]

\* A patch gives new values to some payload keys. Only the coin figures are
\* patched here: ids are generated once and never retyped.
PatchKeys == {"amount", "est"}
Patch     == UNION {[K -> Amounts] : K \in SUBSET PatchKeys}
NoPatch   == [k \in {} |-> 0]

Correction == "MANUAL_CORRECTION"

Event == [type : EventType, payload : Payload]
           \cup [type : {Correction}, target : Nat \ {0}, void : BOOLEAN, patch : Patch]

\* What the callers of the ledger always put in: the row an event is about.
Addressed(e) ==
    /\ e.type \in {"SESSION_STARTED", "OFFER_MADE", "SESSION_ABANDONED"}
         => e.payload.session # None
    /\ e.type \in {"OFFER_MADE", "OFFER_REJECTED", "OFFER_COUNTERED"}
         => e.payload.offer # None
    /\ e.type \in ItemEvents \ {"VALUATION_RECORDED"}
         => e.payload.item # None

\* The rows of the log: corrections point back at an earlier event that is not a
\* correction, and every other event names the row it is about.
WellFormed(log) ==
    /\ log \in Seq(Event)
    /\ \A i \in 1..Len(log) :
          IF log[i].type = Correction
          THEN log[i].target < i /\ log[log[i].target].type # Correction
          ELSE Addressed(log[i])

\* new_id (ids.py) makes an id that no earlier event names: the session that is started,
\* the offer that is made, the item that is acquired.
FreshIds(log) ==
    \A n \in 1..Len(log), j \in 1..Len(log) :
        j < n /\ log[j].type # Correction =>
            /\ log[n].type = "SESSION_STARTED" => log[j].payload.session # log[n].payload.session
            /\ log[n].type = "OFFER_MADE" => log[j].payload.offer # log[n].payload.offer
            /\ log[n].type = "ITEM_ACQUIRED" => log[j].payload.item # log[n].payload.item

\* Updating a Python dict with another: the keys of `new' win.
Merge(old, new) ==
    [k \in DOMAIN old \cup DOMAIN new |-> IF k \in DOMAIN new THEN new[k] ELSE old[k]]

(***************************************************************************)
(* EventLog.corrections: one pass over the corrections in id order. A void *)
(* forgets the patches collected so far, a patch lifts an earlier void and *)
(* is merged key by key into the earlier patches.                          *)
(***************************************************************************)
\* Mutant of Collapse: a void leaves the patches collected before it.
CollapseKeepingPatches(c, e) ==
    LET old == IF e.target \in DOMAIN c.patches THEN c.patches[e.target] ELSE NoPatch
    IN IF e.void
       THEN [c EXCEPT !.voided = @ \cup {e.target}]
       ELSE [patches |-> [i \in DOMAIN c.patches \cup {e.target} |->
                             IF i = e.target THEN Merge(old, e.patch) ELSE c.patches[i]],
             voided  |-> c.voided \ {e.target}]

Collapse(c, e) ==
    IF e.void
    THEN [patches |-> [i \in DOMAIN c.patches \ {e.target} |-> c.patches[i]],
          voided  |-> c.voided \cup {e.target}]
    ELSE LET old == IF e.target \in DOMAIN c.patches THEN c.patches[e.target] ELSE NoPatch
         IN [patches |-> [i \in DOMAIN c.patches \cup {e.target} |->
                             IF i = e.target THEN Merge(old, e.patch) ELSE c.patches[i]],
             voided  |-> c.voided \ {e.target}]

NoCorrections == [patches |-> NoPatch, voided |-> {}]

\* What the pass holds after each row of the log.
CorrectionsUpTo(log) ==
    LET upTo[n \in 0..Len(log)] ==
            IF n = 0 THEN NoCorrections
            ELSE IF log[n].type = Correction THEN Collapse(upTo[n-1], log[n])
            ELSE upTo[n-1]
    IN upTo

Corrections(log) == CorrectionsUpTo(log)[Len(log)]

\* EventLog.effective: which rows are yielded to the projections, and as what.
IsEffective(log, i) == log[i].type # Correction /\ i \notin Corrections(log).voided

EffectiveEvent(log, i) ==
    LET patches == Corrections(log).patches
    IN IF i \in DOMAIN patches
       THEN [log[i] EXCEPT !.payload = Merge(@, patches[i])]
       ELSE log[i]

\* EventLog.correct refuses a missing target and a target that is a correction.
Correctable(log, target) == target \in 1..Len(log) /\ log[target].type # Correction

=============================================================================
