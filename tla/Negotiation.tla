----------------------------- MODULE Negotiation -----------------------------
(***************************************************************************)
(* The negotiation sessions held in memory (app/lowball/session/machine.py)*)
(* and the handlers of the controller that drive them                      *)
(* (app/lowball/controller.py), on top of the ledger that records them.    *)
(*                                                                         *)
(* The handlers run on the GUI thread one at a time, but a handler commits *)
(* up to three transactions: opening a session, rejecting the offer on the *)
(* table and making the next one, or acquiring an item and recording what  *)
(* it was valued at. Between two of them the process may stop, and each    *)
(* may raise and leave the handler there.                                  *)
(***************************************************************************)
EXTENDS Ledger

CONSTANT Keys       \* what is on the table: a selection and an index in it

VARIABLES
    store,  \* SessionStore._sessions: the session of each key, or None
    task    \* the handler the GUI thread is in the middle of

negotiationVars == <<vars, store, task>>

Session == [id : Sessions, state : {"IDLE", "OFFER_PENDING", "CONFIRMED", "ABANDONED"},
            pending : Offers \cup {None}, item : Items \cup {None}]

ASSUME NoSessionAssumption == None \notin Session

\* The unanswered offers of a session, in some derived tables.
WaitingIn(t, s) == {o \in OffersOf(t.offers, s) : t.offers[o].outcome = "PENDING"}

OneWaits(t) == \A s \in Sessions : \A o, q \in WaitingIn(t, s) : o = q

\* An older build left each of its sessions with one unanswered offer at most.
ASSUME LegacyNegotiationsAssumption == \A log \in LegacyLogs : OneWaits(Replay(log))

AtRest        == [op |-> "rest"]
Offering(k)   == [op |-> "offering", key |-> k]     \* the next offer is to be recorded
Valuing(i)    == [op |-> "valuing", item |-> i]     \* the item's valuation is
Closing       == [op |-> "closing"]                 \* what is open is being abandoned

Task == {AtRest, Closing} \cup {Offering(k) : k \in Keys} \cup {Valuing(i) : i \in Items}

\* NegotiationSession.is_open
IsOpen(session) == session # None /\ session.state \in {"IDLE", "OFFER_PENDING"}

\* Ids that objects in memory hold, which new_id() does not return either.
Held         == {store[k] : k \in {l \in Keys : store[l] # None}}
HeldSessions == {session.id : session \in Held}
HeldOffers   == {session.pending : session \in Held}

NegotiationInit ==
    /\ Init
    /\ store = [k \in Keys |-> None]
    /\ task = AtRest

-----------------------------------------------------------------------------
(***************************************************************************)
(* AppController.make_offer: SessionStore.start, NegotiationSession.offer. *)
(***************************************************************************)
\* The key has no open session: start one.
OpenSession(k, s) ==
    /\ task = AtRest
    /\ ~ IsOpen(store[k])
    /\ s \notin HeldSessions
    /\ StartSession(s)
    /\ store' = [store EXCEPT ![k] = [id |-> s, state |-> "IDLE", pending |-> None,
                                      item |-> None]]
    /\ task' = Offering(k)

\* Mutant of TurnDown: the offer that is moved past is left as it is.
TurnDownSilently(k) ==
    /\ task = AtRest
    /\ IsOpen(store[k])
    /\ store[k].pending # None
    /\ store' = [store EXCEPT ![k].pending = None, ![k].state = "IDLE"]
    /\ task' = Offering(k)
    /\ UNCHANGED vars

\* An offer is on the table: the one that follows turns it down.
TurnDown(k) ==
    /\ task = AtRest
    /\ IsOpen(store[k])
    /\ store[k].pending # None
    /\ RejectOffer(store[k].pending)
    /\ store' = [store EXCEPT ![k].pending = None, ![k].state = "IDLE"]
    /\ task' = Offering(k)

\* Mutant of MakeOffer: the session forgets the offer it has just recorded.
MakeOfferUnnoted(k, o) ==
    /\ \/ task = Offering(k)
       \/ task = AtRest /\ IsOpen(store[k]) /\ store[k].pending = None
    /\ o \notin HeldOffers
    /\ RecordOffer(store[k].id, o)
    /\ store' = [store EXCEPT ![k].state = "OFFER_PENDING"]
    /\ task' = AtRest

MakeOffer(k, o) ==
    /\ \/ task = Offering(k)
       \/ task = AtRest /\ IsOpen(store[k]) /\ store[k].pending = None
    /\ o \notin HeldOffers
    /\ RecordOffer(store[k].id, o)
    /\ store' = [store EXCEPT ![k].pending = o, ![k].state = "OFFER_PENDING"]
    /\ task' = AtRest

(***************************************************************************)
(* The answers of the customer.                                            *)
(***************************************************************************)
Reject(k) ==
    /\ task = AtRest
    /\ store[k] # None
    /\ store[k].pending # None
    /\ RejectOffer(store[k].pending)
    /\ store' = [store EXCEPT ![k].pending = None,
                              ![k].state = IF @ = "OFFER_PENDING" THEN "IDLE" ELSE @]
    /\ UNCHANGED task

Counter(k, price) ==
    /\ task = AtRest
    /\ store[k] # None
    /\ store[k].pending # None
    /\ CounterOffer(store[k].pending, price)
    /\ store' = [store EXCEPT ![k].pending = None, ![k].state = "IDLE"]
    /\ UNCHANGED task

\* Mutant of Confirm: the purchase does not say which offer it settles.
ConfirmWithoutOffer(k, i, price, est) ==
    /\ task = AtRest
    /\ store[k] # None
    /\ AcquireItem(i, store[k].id, None, price, est)
    /\ store' = [store EXCEPT ![k].item = i, ![k].pending = None, ![k].state = "CONFIRMED"]
    /\ task' = Valuing(i)

\* confirm_sale always has a price, so there is nothing to refuse: not even a
\* session that is confirmed already.
Confirm(k, i, price, est) ==
    /\ task = AtRest
    /\ store[k] # None
    /\ AcquireItem(i, store[k].id, store[k].pending, price, est)
    /\ store' = [store EXCEPT ![k].item = i, ![k].pending = None, ![k].state = "CONFIRMED"]
    /\ task' = Valuing(i)

RecordItsValuation(est) ==
    /\ task.op = "valuing"
    /\ RecordValuation(task.item, est)
    /\ task' = AtRest
    /\ UNCHANGED store

\* A transaction of the handler raises: what it had committed stays.
Raise ==
    /\ task.op \in {"offering", "valuing", "closing"}
    /\ task' = AtRest
    /\ UNCHANGED <<vars, store>>

-----------------------------------------------------------------------------
(***************************************************************************)
(* Closing the window abandons every open session that has made an offer,  *)
(* one transaction each, and then stops (MainWindow.closeEvent).           *)
(***************************************************************************)
\* Mutant of LeftOpen: only the sessions with an offer on the table.
LeftPending == {k \in Keys : IsOpen(store[k]) /\ store[k].pending # None}

LeftOpen == {k \in Keys : /\ IsOpen(store[k])
                          /\ OffersOf(tables.offers, store[k].id) # {}}

Abandon(k) ==
    /\ task \in {AtRest, Closing}
    /\ k \in LeftOpen
    /\ AbandonSession(store[k].id)
    /\ store' = [store EXCEPT ![k].pending = None, ![k].state = "ABANDONED"]
    /\ task' = Closing

Forget == store' = [k \in Keys |-> None] /\ task' = AtRest

Close ==
    /\ task \in {AtRest, Closing}
    /\ phase = "idle"
    /\ LeftOpen = {}
    /\ Stop
    /\ Forget

\* The process is killed wherever it is.
Kill == Stop /\ Forget

-----------------------------------------------------------------------------
(***************************************************************************)
(* The rest of the ledger, between two handlers. Clearing the history drops*)
(* the sessions once both of its transactions are through, and keeps them  *)
(* if the second raises (AppController.clear_history).                     *)
(***************************************************************************)
Resume == Open /\ UNCHANGED <<store, task>>

Tidy ==
    /\ task = AtRest
    /\ \/ events # <<>> /\ ClearLog        \* LedgerView offers it for a log with events
       \/ RebuildAnew
       \/ RebuildFails
    /\ UNCHANGED <<store, task>>

\* Mutant of FinishClearing: the sessions outlive the rows they are about.
FinishClearingOnly ==
    /\ phase = "clearing"
    /\ Rebuild
    /\ UNCHANGED <<store, task>>

FinishClearing ==
    /\ phase = "clearing"
    /\ Rebuild
    /\ Forget

NegotiationNext ==
    \/ \E k \in Keys, s \in Sessions : OpenSession(k, s)
    \/ \E k \in Keys : TurnDown(k) \/ Reject(k) \/ Abandon(k)
    \/ \E k \in Keys, o \in Offers : MakeOffer(k, o)
    \/ \E k \in Keys, price \in Amounts : Counter(k, price)
    \/ \E k \in Keys, i \in Items, price \in Amounts, est \in Estimates : Confirm(k, i, price, est)
    \/ \E est \in Estimates : RecordItsValuation(est)
    \/ Raise \/ Close \/ Kill \/ Resume \/ Tidy \/ FinishClearing

NegotiationSpec == NegotiationInit /\ [][NegotiationNext]_negotiationVars

-----------------------------------------------------------------------------
(***************************************************************************)
(* Properties.                                                             *)
(***************************************************************************)
Waiting(s) == WaitingIn(tables, s)

\* Sessions in memory have their types, and the session a handler is about to
\* record an offer in is open.
NegotiationTypeOK ==
    /\ store \in [Keys -> Session \cup {None}]
    /\ task \in Task
    /\ \A k \in Keys : task = Offering(k) => IsOpen(store[k]) /\ store[k].pending = None

\* What a session believes is on the table is what the ledger shows as unanswered
\* in it, at every transaction boundary and after any of them has raised: an offer
\* is never forgotten in memory while the acceptance curve still waits for it. (A
\* session that outlived a clear has no row, and nothing to agree with.)
PendingRecorded ==
    \A k \in Keys : store[k] # None /\ tables.sessions[store[k].id] # None =>
        Waiting(store[k].id) = {store[k].pending} \ {None}

\* The chain records itself (machine.py): no session, of this run of the process
\* or an earlier one, ever has two unanswered offers.
OneOfferWaits == \A s \in Sessions : Cardinality(Waiting(s)) <= 1

\* What a step does not do to the sessions in memory and the rows they are about.
RowsStay ==
    (\A k \in Keys : store[k] # None => tables.sessions[store[k].id] # None) =>
        \/ "clearing" \in lapses
        \/ \A k \in Keys : store'[k] # None => tables'.sessions[store'[k].id] # None

AnswersStay ==
    \A o \in Offers :
        tables.offers[o] # None /\ tables.offers[o].outcome # "PENDING" =>
            tables'.offers[o] = None \/ tables'.offers[o].outcome = tables.offers[o].outcome

DealsCredited ==
    \A k \in Keys : store[k] # None /\ store'[k] # None =>
        LET offer == store[k].pending
        IN store'[k].id = store[k].id /\ store'[k].state = "CONFIRMED"
             /\ offer # None /\ tables.offers[offer] # None =>
               tables'.offers[offer].outcome = "CONFIRMED"

Settled ==
    \A k \in Keys : store[k] # None /\ OffersOf(tables.offers, store[k].id) # {} =>
        tables.sessions[store[k].id] = None
          \/ tables.sessions[store[k].id].state \in {"CONFIRMED", "ABANDONED"}

\* "Keeping them would write offers into a session the log has never heard of"
\* (clear_history): the sessions in memory go with the rows they are about. Only the
\* first rebuild after a clear that failed half way can leave one behind.
ClearedTogether == [][RowsStay]_negotiationVars

\* An outcome is final: once an offer is answered no later step changes the answer.
OutcomesFinal == [][AnswersStay]_negotiationVars

\* The offer a deal was struck on is credited with it: when a session is confirmed
\* with an offer on the table, that offer is the one the ledger shows as accepted.
DealCredited == [][DealsCredited]_negotiationVars

\* "N offer(s) have no outcome recorded. Log them as walked away?" (closeEvent):
\* after an orderly close every session of this run that made an offer is settled.
CloseSettles == [][Close => Settled]_negotiationVars

=============================================================================
