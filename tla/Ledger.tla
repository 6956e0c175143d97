------------------------------- MODULE Ledger -------------------------------
(***************************************************************************)
(* The ledger facade (app/lowball/ledger/store.py) over one SQLite file:   *)
(* the event log, the derived tables, the watermark that says how far the  *)
(* tables follow the log, and the process that may stop between any two    *)
(* transactions.                                                           *)
(*                                                                         *)
(* An action is one committed transaction. A transaction that fails is     *)
(* rolled back (db.py), which is to say that it did not happen. Two        *)
(* operations commit twice: correct() and clear_history() change the log   *)
(* in one transaction and rebuild the tables in the next.                  *)
(***************************************************************************)
EXTENDS Projections

CONSTANTS
    LegacyLogs,     \* logs found in a database that an older build wrote
    Estimates,      \* the estimates that callers record in this instance
    Patches,        \* the patches that corrections carry in this instance
    Operations,     \* the operations callers use in this instance
    FaultWindows,   \* the windows in which the process may stop or a rebuild fail
    MaxEvents       \* bound: the log holds at most this many events

ASSUME LedgerAssumption ==
    /\ LegacyLogs \subseteq Seq({e \in [type : EventType, payload : Payload] : Addressed(e)})
    /\ \A log \in LegacyLogs : FreshIds(log)
    /\ Estimates \subseteq Amounts
    /\ Patches \subseteq Patch
    /\ FaultWindows \subseteq {"correcting", "clearing"}
    /\ MaxEvents \in Nat

VARIABLES
    events,     \* the `events' table
    tables,     \* the derived tables, as committed
    watermark,  \* projection_state: id of the last event the tables show
    version,    \* projection_state: version of the code that built the tables
    phase,      \* "down", "idle", or inside correct() / clear_history()
    lapses      \* the windows that a fault struck since the last completed rebuild

vars == <<events, tables, watermark, version, phase, lapses>>

PROJECTION_VERSION == 2
Windows == {"correcting", "clearing"}

Init ==
    /\ phase = "down"
    /\ lapses = {}
    /\ tables = EmptyTables
    /\ version = 0
    /\ \/ events = <<>> /\ watermark = 0                            \* no file yet
       \/ events \in LegacyLogs /\ watermark = Len(events)          \* an older build's file

-----------------------------------------------------------------------------
(***************************************************************************)
(* Opening and stopping.                                                   *)
(***************************************************************************)
\* Mutant of RebuildTables: catches up where the whole log must be replayed.
RebuildIncrementally ==
    /\ tables' = CatchUp(tables, events, watermark)
    /\ watermark' = Len(events)
    /\ version' = PROJECTION_VERSION
    /\ lapses' = {}

RebuildTables ==
    /\ tables' = Replay(events)
    /\ watermark' = Len(events)
    /\ version' = PROJECTION_VERSION
    /\ lapses' = {}

CatchUpTables ==
    /\ tables' = CatchUp(tables, events, watermark)
    /\ watermark' = Len(events)
    /\ UNCHANGED <<version, lapses>>

\* Mutant of Open: no check of the version that built the tables.
OpenAnyVersion ==
    /\ phase = "down"
    /\ IF watermark = 0 THEN RebuildTables ELSE CatchUpTables
    /\ phase' = "idle"
    /\ UNCHANGED events

\* Ledger.__init__
Open ==
    /\ phase = "down"
    /\ IF watermark = 0 \/ version # PROJECTION_VERSION THEN RebuildTables ELSE CatchUpTables
    /\ phase' = "idle"
    /\ UNCHANGED events

\* The process stops: closed by the user, or killed.
Stop ==
    /\ phase \in {"idle"} \cup FaultWindows
    /\ phase' = "down"
    /\ lapses' = lapses \cup ({phase} \cap Windows)
    /\ UNCHANGED <<events, tables, watermark, version>>

-----------------------------------------------------------------------------
(***************************************************************************)
(* Recording one event: the log, the tables and the watermark move in one  *)
(* transaction. An exit id that is already taken makes the INSERT of the   *)
(* exit row fail, and the event with it.                                   *)
(***************************************************************************)
Record(type, payload) ==
    LET id == Len(events) + 1
        e  == [type |-> type, payload |-> payload]
    IN /\ phase = "idle"
       /\ type \in Operations
       /\ id <= MaxEvents
       /\ ~ ExitIdTaken(tables, id, e)
       /\ events' = Append(events, e)
       /\ tables' = Apply(tables, id, e)
       /\ watermark' = id
       /\ UNCHANGED <<version, phase, lapses>>

\* Ids that the log or the tables know; new_id() never returns one of them.
Mentioned(key) == {events[i].payload[key] :
                      i \in {j \in 1..Len(events) : events[j].type # Correction}}
KnownSessions  == {s \in Sessions : \/ s \in Mentioned("session") \/ tables.sessions[s] # None
                                   \/ OffersOf(tables.offers, s) # {}}
KnownOffers    == {o \in Offers : o \in Mentioned("offer") \/ tables.offers[o] # None}
KnownItems     == {i \in Items : \/ i \in Mentioned("item") \/ tables.items[i] # None
                                \/ \E x \in tables.exits \cup tables.valuations : x.item = i}

\* The facade makes the ids of new rows and takes the others as they come: a
\* negotiation held in memory may be about rows that have been erased since.
StartSession(s) ==
    /\ s \notin KnownSessions
    /\ Record("SESSION_STARTED", [NoPayload EXCEPT !.session = s])

RecordOffer(s, o) ==
    /\ o \notin KnownOffers
    /\ Record("OFFER_MADE", [NoPayload EXCEPT !.session = s, !.offer = o])

RejectOffer(o) == Record("OFFER_REJECTED", [NoPayload EXCEPT !.offer = o])

CounterOffer(o, price) ==
    Record("OFFER_COUNTERED", [NoPayload EXCEPT !.offer = o, !.amount = price])

AbandonSession(s) == Record("SESSION_ABANDONED", [NoPayload EXCEPT !.session = s])

AcquireItem(i, s, o, cost, est) ==
    /\ i \notin KnownItems
    /\ Record("ITEM_ACQUIRED", [NoPayload EXCEPT !.item = i, !.session = s, !.offer = o,
                                                 !.amount = cost, !.est = est])

SellItem(i, price, taxed) ==
    /\ i \in KnownItems
    /\ Record("ITEM_SOLD", [NoPayload EXCEPT !.item = i, !.amount = price, !.taxed = taxed,
                                             !.fee = IF taxed THEN ClaimTax[price] ELSE 0])

KeepItem(i, value) ==
    /\ i \in KnownItems
    /\ Record("ITEM_KEPT", [NoPayload EXCEPT !.item = i, !.amount = value])

UnwindExit(i) ==
    /\ i \in KnownItems
    /\ Record("EXIT_UNWOUND", [NoPayload EXCEPT !.item = i])

RecordValuation(i, est) ==
    /\ i \in KnownItems \cup {None}
    /\ Record("VALUATION_RECORDED", [NoPayload EXCEPT !.item = i, !.est = est])

-----------------------------------------------------------------------------
(***************************************************************************)
(* The two operations of two transactions.                                 *)
(***************************************************************************)
\* Ledger.correct, first transaction: log.correct.
CorrectLog(target, void, patch) ==
    /\ phase = "idle"
    /\ "CORRECT" \in Operations
    /\ Len(events) < MaxEvents
    /\ Correctable(events, target)
    /\ void \/ patch # NoPatch
    /\ events' = Append(events, [type |-> Correction, target |-> target,
                                 void |-> void, patch |-> patch])
    /\ phase' = "correcting"
    /\ UNCHANGED <<tables, watermark, version, lapses>>

\* Ledger.clear_history, first transaction: DELETE FROM events.
ClearLog ==
    /\ phase = "idle"
    /\ "CLEAR" \in Operations
    /\ events' = <<>>
    /\ phase' = "clearing"
    /\ UNCHANGED <<tables, watermark, version, lapses>>

\* The second transaction of both: Projector.rebuild.
Rebuild ==
    /\ phase \in Windows
    /\ RebuildTables
    /\ phase' = "idle"
    /\ UNCHANGED events

\* Ledger.rebuild, called by the user.
RebuildAnew ==
    /\ phase = "idle"
    /\ RebuildTables
    /\ UNCHANGED <<events, phase>>

\* The second transaction raises and is rolled back; the application goes on.
RebuildFails ==
    /\ phase \in FaultWindows
    /\ phase' = "idle"
    /\ lapses' = lapses \cup {phase}
    /\ UNCHANGED <<events, tables, watermark, version>>

-----------------------------------------------------------------------------
Negotiate ==
    \/ \E s \in Sessions : StartSession(s) \/ AbandonSession(s)
    \/ \E s \in Sessions, o \in Offers : RecordOffer(s, o)
    \/ \E o \in Offers : RejectOffer(o)
    \/ \E o \in Offers, price \in Amounts : CounterOffer(o, price)

Trade ==
    \/ \E i \in Items, s \in Sessions \cup {None}, o \in Offers \cup {None},
          cost \in Amounts, est \in Estimates \cup {None} : AcquireItem(i, s, o, cost, est)
    \/ \E i \in Items, price \in Amounts, taxed \in BOOLEAN : SellItem(i, price, taxed)
    \/ \E i \in Items, value \in Amounts \cup {None} : KeepItem(i, value)
    \/ \E i \in Items : UnwindExit(i)
    \/ \E i \in Items \cup {None}, est \in Estimates : RecordValuation(i, est)

Amend ==
    \/ \E target \in 1..Len(events) : CorrectLog(target, TRUE, NoPatch)
    \/ \E target \in 1..Len(events), patch \in Patches : CorrectLog(target, FALSE, patch)
    \/ ClearLog

Next == \/ Open \/ Stop \/ Negotiate \/ Trade \/ Amend
        \/ Rebuild \/ RebuildFails \/ RebuildAnew

Spec == Init /\ [][Next]_vars

-----------------------------------------------------------------------------
(***************************************************************************)
(* Properties.                                                             *)
(***************************************************************************)
\* The log is well formed, the tables hold rows of their types, and the control
\* state of the facade (projection_state, the transaction it is in) is a legal one.
TypeOK ==
    /\ WellFormed(events)
    /\ tables \in Tables
    /\ watermark \in Nat
    /\ version \in {0, PROJECTION_VERSION}
    /\ phase \in {"down", "idle"} \cup Windows
    /\ lapses \subseteq Windows

\* "The log and the derived tables can never disagree" (store.py): what the
\* application reads is a full replay of the log with every correction applied,
\* however the tables were arrived at (appended to, caught up, rebuilt, found on
\* disk), unless a fault struck one of the two windows since the last rebuild.
Agreement == phase = "idle" /\ lapses = {} => tables = Replay(events)

\* The same claim without the exception, as the doc comment of store.py makes it.
NeverDisagree == phase = "idle" => tables = Replay(events)

\* Whatever the watermark has left behind is a correction, so catching up, which
\* never yields a correction, has nothing to apply: only a rebuild can bring the
\* tables back in line.
BehindIsCorrections ==
    \A i \in 1..Len(events) : i > watermark => events[i].type = Correction

\* "One exit per item" (_record_exit), orphaned exits included.
OneExitPerItem == \A x, y \in tables.exits : x.item = y.item => x = y

\* Every exit row was written by an event that the log still holds, about that
\* item: the id the next event gets is free, so its outcome can be recorded.
\* A fault between the two halves of clear_history() breaks this for good.
ExitsTraceable ==
    phase = "idle" /\ "clearing" \notin lapses =>
        \A x \in tables.exits :
            /\ x.id \in 1..Len(events)
            /\ events[x.id].type \in SaleEvents \cup {"ITEM_KEPT"}
            /\ events[x.id].payload.item = x.item

\* No item has two exits. One in stock has none; one that left has the exit of its latest
\* outcome, booked against the item's own cost basis, or the profit shown for it is wrong.
ExitsMatchItems ==
    /\ OneExitPerItem
    /\ \A i \in Items : tables.items[i] # None =>
        LET row   == tables.items[i]
            exits == {x \in tables.exits : x.item = i}
        IN IF row.state = "HELD"
           THEN exits = {} /\ ~ row.exited
           ELSE row.exited /\ \E x \in exits : x.route = row.state /\ x.cost = row.cost

\* The offers of a session are numbered without a gap or a repetition, and the
\* session row counts them, whatever was voided in between.
ChainNumbered ==
    \A s \in Sessions :
        LET chain == OffersOf(tables.offers, s)
        IN /\ {tables.offers[o].seq : o \in chain} = 1..Cardinality(chain)
           /\ tables.sessions[s] # None =>
                 tables.sessions[s].offerCount = Cardinality(chain)

\* An event is void exactly when the last correction that targets it says so; a
\* patched key has the value of the last patch of it that no void came after.
LastCorrectionWins ==
    \A i \in 1..Len(events) : events[i].type # Correction =>
        LET about   == {c \in 1..Len(events) :
                           events[c].type = Correction /\ events[c].target = i}
            voids   == {c \in about : events[c].void}
            live(k) == {c \in about : /\ ~ events[c].void
                                      /\ k \in DOMAIN events[c].patch
                                      /\ \A v \in voids : v < c}
        IN /\ IsEffective(events, i) <=> ~ \E v \in voids : \A c \in about : c <= v
           /\ \A k \in PatchKeys : IsEffective(events, i) =>
                 EffectiveEvent(events, i).payload[k] =
                     IF live(k) = {} THEN events[i].payload[k]
                     ELSE events[Max(live(k))].patch[k]

=============================================================================
