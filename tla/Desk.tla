-------------------------------- MODULE Desk --------------------------------
(***************************************************************************)
(* The valuation screen: the controller that prices what the player picked *)
(* (app/lowball/controller.py), and the window that shows it and takes the *)
(* user's clicks (app/lowball/ui/main_window.py, ui/views/valuation.py,    *)
(* ui/widgets/ladder.py, ui/dialogs/breakdown.py).                         *)
(*                                                                         *)
(* The controller's inbound half runs on the asyncio thread, the window on *)
(* the GUI thread. A signal the first emits is queued and delivered by the *)
(* second in order; a signal of the GUI thread is delivered at once. Both  *)
(* threads read and write the controller's fields. A handler of the window *)
(* is one step; the asyncio thread's handlers are cut where it has written *)
(* one of two fields that belong together. The totals that follow a signal *)
(* (totals_changed) travel with it.                                        *)
(*                                                                         *)
(* An item is the selection it was picked in and its place there: what it  *)
(* is and what it costs do not matter here, only whose price is shown, and *)
(* whether it is the market's or one the user typed.                       *)
(***************************************************************************)
EXTENDS Integers, Sequences, FiniteSets

CONSTANTS
    None,           \* no item, rung or dialog
    MaxItems,       \* items in a selection
    MaxSelections,  \* bound on the selections the mod sends
    MaxClicks,      \* bound on the user's clicks and the trades that settle an item
    Rungs           \* percentages of a ladder

VARIABLES
    generation, \* AppController._selection_generation
    picked,     \* how many items AppController.selection has
    items,      \* AppController.items: the selection they are of, and how many
    valued,     \* the items with a valuation
    manual,     \* those whose estimate the user typed
    overruled,  \* history: selections in which one was typed, or put back
    ladder,     \* PricedItem.ladder: what it was built from, or None
    failed,     \* history: the items whose valuation raised
    inflight,   \* the coroutines _value_item that wait for the market
    net,        \* what the asyncio thread is in the middle of
    queue,      \* signals not delivered yet
    sessions,   \* SessionStore._sessions: what each key is about and was offered
    screen,     \* what the window shows: see Screen
    dialog,     \* the breakdown that is open: its index and its item, or None
    clicks      \* clicks and settled trades so far

controller == <<generation, picked, items, valued, manual, ladder, overruled>>
thread     == <<inflight, net, failed>>
window     == <<screen, dialog>>
vars       == <<controller, thread, queue, sessions, window, clicks>>

Places      == 1..MaxItems
Generations == 1..MaxSelections
Item        == Generations \X Places     \* PricedItem
Basis       == {"market", "manual"}
Chosen      == [of : 0..MaxSelections, size : 0..MaxItems]
Ladder      == [item : Item, basis : Basis]

(***************************************************************************)
(* What the window shows: the rows (of which selection, and how many), the *)
(* item whose figure each has, the row that is selected (0 for none), the  *)
(* item whose rungs the ladder shows and what they were built from, the    *)
(* rung that is expanded (OfferLadderWidget._pending), the valuations kept *)
(* for the breakdown, and what the total counts.                           *)
(***************************************************************************)
Screen == [rows : Chosen, figures : [Places -> Item \cup {None}], selected : 0..MaxItems,
           rungs : Ladder \cup {None}, expanded : Rungs \cup {None},
           known : [Places -> Item \cup {None}],
           total : {None} \cup UNION {[s -> Basis] : s \in SUBSET Item}]

Idle == [at |-> "idle"]

\* What is said in a session, and what a session is about.
Quoted  == [of : Item, rung : Rungs]
Session == [about : Item, open : BOOLEAN, offer : Quoted \cup {None}]

ASSUME DeskAssumption ==
    /\ MaxItems \in Nat \ {0} /\ MaxSelections \in Nat
    /\ None \notin Basis /\ None \notin Ladder /\ None \notin Session

\* Valuation.estimate
Estimate(i) == IF i \in manual THEN "manual" ELSE "market"

\* AppController.items[index], for an index in range.
Listed(place) == <<items.of, place>>

\* AppController._emit_totals: the estimates it adds up, with these set by hand.
Counted(typed) ==
    LET priced == {i \in valued : i[1] = items.of}
    IN IF priced = {} THEN None
       ELSE [i \in priced |-> IF i \in typed THEN "manual" ELSE "market"]

DeskInit ==
    /\ generation = 0 /\ picked = 0 /\ items = [of |-> 0, size |-> 0]
    /\ valued = {} /\ manual = {} /\ overruled = {} /\ ladder = [i \in Item |-> None]
    /\ inflight = {} /\ failed = {} /\ net = Idle /\ queue = <<>>
    /\ sessions = [i \in Item |-> None] /\ clicks = 0
    /\ screen = [rows |-> [of |-> 0, size |-> 0], figures |-> [p \in Places |-> None],
                 selected |-> 0, rungs |-> None, expanded |-> None,
                 known |-> [p \in Places |-> None], total |-> None]
    /\ dialog = None

-----------------------------------------------------------------------------
(***************************************************************************)
(* The asyncio thread.                                                     *)
(***************************************************************************)
\* _on_selection, up to where the generation is new and the items are not. A view
\* that did not change is dropped: SelectionView.changed_from (see TradeFeed).
Pick(size) ==
    /\ net = Idle
    /\ generation < MaxSelections
    /\ size # 0 \/ picked # 0
    /\ generation' = generation + 1
    /\ picked' = size
    /\ net' = [at |-> "listing"]
    /\ UNCHANGED <<items, valued, manual, ladder, overruled, failed, inflight, queue,
                   sessions, window, clicks>>

\* Mutant of List: a single coroutine is submitted.
ListOne ==
    /\ net.at = "listing"
    /\ items' = [of |-> generation, size |-> picked]
    /\ inflight' = inflight \cup {<<generation, p>> : p \in {1} \cap 1..picked}
    /\ queue' = Append(queue, [kind |-> "selection_changed", rows |-> items'])
    /\ net' = Idle
    /\ UNCHANGED <<generation, picked, valued, manual, ladder, overruled, failed,
                   sessions, window, clicks>>

\* The rest of it: the items, the signals, and a coroutine for each.
List ==
    /\ net.at = "listing"
    /\ items' = [of |-> generation, size |-> picked]
    /\ inflight' = inflight \cup {<<generation, p>> : p \in 1..picked}
    /\ queue' = Append(queue, [kind |-> "selection_changed", rows |-> items'])
    /\ net' = Idle
    /\ UNCHANGED <<generation, picked, valued, manual, ladder, overruled, failed,
                   sessions, window, clicks>>

\* Mutant of Value: what comes back late is shown all the same.
ValueLate(i) ==
    /\ net = Idle
    /\ i \in inflight
    /\ valued' = valued \cup {i}
    /\ net' = [at |-> "pricing", item |-> i, basis |-> "market"]
    /\ UNCHANGED <<generation, picked, items, manual, ladder, overruled, inflight, failed,
                   queue, sessions, window, clicks>>

\* _value_item goes on after its await; _rebuild_ladder has read the estimate.
Value(i) ==
    /\ net = Idle
    /\ i \in inflight
    /\ i[1] = generation
    /\ valued' = valued \cup {i}
    /\ net' = [at |-> "pricing", item |-> i, basis |-> "market"]
    /\ UNCHANGED <<generation, picked, items, manual, ladder, overruled, inflight, failed,
                   queue, sessions, window, clicks>>

\* The market is out of reach: the coroutine ends with an exception, which is logged.
Fail(i) ==
    /\ net = Idle
    /\ i \in inflight
    /\ inflight' = inflight \ {i}
    /\ failed' = failed \cup {i}
    /\ UNCHANGED <<controller, net, queue, sessions, window, clicks>>

\* The selection changed while it was in flight.
Drop(i) ==
    /\ net = Idle
    /\ i \in inflight
    /\ i[1] # generation
    /\ inflight' = inflight \ {i}
    /\ UNCHANGED <<controller, net, failed, queue, sessions, window, clicks>>

\* _rebuild_ladder hands the ladder over, and _emit_totals the new total.
Quote ==
    /\ net.at = "pricing"
    /\ ladder' = [ladder EXCEPT ![net.item] = net.basis]
    /\ inflight' = inflight \ {net.item}
    /\ queue' = Append(queue, [kind |-> "item_valued", item |-> net.item, ladder |-> net.basis,
                               total |-> Counted(manual)])
    /\ net' = Idle
    /\ UNCHANGED <<generation, picked, items, valued, manual, overruled, failed,
                   sessions, window, clicks>>

\* _on_uplink_message: a trade settled one of the items that are picked.
Settle(place) ==
    /\ net = Idle
    /\ clicks < MaxClicks
    /\ clicks' = clicks + 1
    /\ place \in 1..picked
    /\ queue' = Append(queue, [kind |-> "settled_trade", place |-> place])
    /\ UNCHANGED <<controller, thread, sessions, window>>

-----------------------------------------------------------------------------
(***************************************************************************)
(* What the window makes of a signal: the screen it leaves.                *)
(***************************************************************************)
\* OfferLadderWidget.set_ladder: the rungs are built afresh, and none is expanded.
LadderShown(s, i, basis) == [s EXCEPT !.rungs = [item |-> i, basis |-> basis], !.expanded = None]

\* ValuationView.show_valuation: the valuation is kept for the breakdown, and the row
\* gets its figure if there is such a row.
Figured(s, i) == [s EXCEPT !.known[i[2]] = i,
                           !.figures[i[2]] = IF i[2] <= s.rows.size THEN i ELSE @]

\* Mutant of Showing: the rung that was expanded goes on being the one that is.
ShowingKept(s, i, basis) ==
    IF i[2] = s.selected THEN [Figured(s, i) EXCEPT !.rungs = [item |-> i, basis |-> basis]]
                         ELSE Figured(s, i)

\* The rest of it: the ladder is that of the row that is selected.
Showing(s, i, basis) ==
    IF i[2] = s.selected THEN LadderShown(Figured(s, i), i, basis) ELSE Figured(s, i)

\* ValuationView.show_pending: the row has no figure; the rungs stay.
ShownPending(s, place) == [s EXCEPT !.figures[place] = None]

\* MainWindow._on_item_selected: the controller's item of that index is shown, whatever
\* selection the rows are of. While it has no price the row has none either.
ShownAt(s, place) ==
    LET i == Listed(place)
    IN IF place > items.size THEN s
       ELSE IF i \in valued /\ ladder[i] # None THEN Showing(s, i, ladder[i])
       ELSE ShownPending(s, place)

\* TradePane._select: the rung that was expanded folds.
TurnedTo(s, place) ==
    IF place = s.selected THEN s
    ELSE ShownAt([s EXCEPT !.selected = place, !.expanded = None], place)

\* MainWindow._on_settled of a trade that settled one item: its row is turned to. The
\* price is filled in, and nothing is confirmed.
SettledAt(s, place) == TurnedTo(s, place)

\* TradePane.set_items: new rows, the first of which is turned to.
Filled(s, list) ==
    LET bare == [s EXCEPT !.rows = list, !.figures = [p \in Places |-> None],
                          !.selected = 0, !.total = None]
    IN IF list.size > 0 THEN TurnedTo(bare, 1) ELSE bare

\* ValuationView.set_items: with no rows the ladder is cleared too.
Relisted(s, list) ==
    LET filled == Filled([s EXCEPT !.known = [p \in Places |-> None]], list)
    IN IF list.size > 0 THEN filled ELSE [filled EXCEPT !.rungs = None, !.expanded = None]

\* The GUI thread delivers the next signal.
Deliver ==
    /\ queue # <<>>
    /\ queue' = Tail(queue)
    /\ LET signal == Head(queue)
       IN screen' = CASE signal.kind = "selection_changed" -> Relisted(screen, signal.rows)
                      [] signal.kind = "item_valued"       ->
                             [Showing(screen, signal.item, signal.ladder)
                                 EXCEPT !.total = signal.total]
                      [] signal.kind = "settled_trade"     -> SettledAt(screen, signal.place)
    /\ UNCHANGED <<controller, thread, sessions, dialog, clicks>>

-----------------------------------------------------------------------------
(***************************************************************************)
(* The user's clicks. A breakdown is modal: while it is open there are no  *)
(* others, but signals go on being delivered.                              *)
(***************************************************************************)
Click == dialog = None /\ clicks < MaxClicks /\ clicks' = clicks + 1

Turn(place) ==
    /\ Click
    /\ place \in 1..screen.rows.size
    /\ screen' = TurnedTo(screen, place)
    /\ UNCHANGED <<controller, thread, queue, sessions, dialog>>

\* The key of a session: the selection as it is now, and the row that is selected.
Key == <<generation, screen.selected>>

\* The item the controller has there, if it is one that may be offered for.
OnTable == screen.selected \in 1..items.size /\ Listed(screen.selected) \in valued

\* AppController.reject_offer
Refused(s) == IF Key \in Item /\ s[Key] # None THEN [s EXCEPT ![Key].offer = None] ELSE s

\* AppController.make_offer: a session that is open goes on.
Offered(s, rung) ==
    IF ~ OnTable THEN s
    ELSE IF s[Key] = None \/ ~ s[Key].open
    THEN [s EXCEPT ![Key] = [about |-> Listed(screen.selected), open |-> TRUE,
                             offer |-> [of |-> screen.rungs.item, rung |-> rung]]]
    ELSE [s EXCEPT ![Key].offer = [of |-> screen.rungs.item, rung |-> rung]]

Fold ==
    /\ Click
    /\ screen.expanded # None
    /\ screen' = [screen EXCEPT !.expanded = None]
    /\ UNCHANGED <<controller, thread, queue, sessions, dialog>>

\* OfferLadderWidget._on_activated of a rung that is not expanded: another one that is
\* counts as turned down.
Offer(rung) ==
    /\ Click
    /\ screen.rungs # None
    /\ screen.expanded # rung
    /\ sessions' = Offered(IF screen.expanded # None THEN Refused(sessions) ELSE sessions, rung)
    /\ screen' = [screen EXCEPT !.expanded = rung]
    /\ UNCHANGED <<controller, thread, queue, dialog>>

Reject ==
    /\ Click
    /\ screen.expanded # None
    /\ sessions' = Refused(sessions)
    /\ screen' = [screen EXCEPT !.expanded = None]
    /\ UNCHANGED <<controller, thread, queue, dialog>>

\* confirm_sale wants the session, and an item with a valuation.
Confirmed(s) ==
    IF OnTable /\ s[Key] # None THEN [s EXCEPT ![Key].open = FALSE, ![Key].offer = None] ELSE s

\* OfferLadderWidget._on_confirmed, at the rung's price or one that was typed.
Confirm ==
    /\ Click
    /\ screen.expanded # None
    /\ sessions' = Confirmed(sessions)
    /\ screen' = [screen EXCEPT !.expanded = None]
    /\ UNCHANGED <<controller, thread, queue, dialog>>

OpenBreakdown ==
    /\ Click
    /\ screen.selected # 0
    /\ screen.known[screen.selected] # None
    /\ dialog' = [index |-> screen.selected, item |-> screen.known[screen.selected]]
    /\ UNCHANGED <<controller, thread, queue, sessions, screen>>

CloseBreakdown ==
    /\ dialog # None
    /\ dialog' = None
    /\ UNCHANGED <<controller, thread, queue, sessions, screen, clicks>>

\* AppController.override_estimate: the estimate of the item the controller has at an
\* index is typed, or is the market's again. Its signals are delivered at once.
Reestimate(index, typed) ==
    LET i == Listed(index)
    IN IF index <= items.size /\ i \in valued
       THEN /\ manual' = IF typed THEN manual \cup {i} ELSE manual \ {i}
            /\ ladder' = [ladder EXCEPT ![i] = IF typed THEN "manual" ELSE "market"]
            /\ screen' = [Showing(screen, i, ladder'[i]) EXCEPT !.total = Counted(manual')]
            /\ overruled' = overruled \cup {items.of}
       ELSE UNCHANGED <<manual, ladder, overruled, screen>>

\* The user applies an estimate or, if it is one that was typed, goes back to the
\* market's; either closes the dialog, which speaks of the index it was opened at.
Override(typed) ==
    /\ dialog # None
    /\ typed \/ dialog.item \in manual
    /\ dialog' = None
    /\ Reestimate(dialog.index, typed)
    /\ UNCHANGED <<generation, picked, items, valued, thread, queue, sessions, clicks>>

Net ==
    \/ List \/ Quote
    \/ \E i \in Item : Value(i) \/ Drop(i) \/ Fail(i)

Next ==
    \/ Net \/ Deliver
    \/ \E n \in 0..MaxItems : Pick(n)
    \/ \E p \in Places : Settle(p) \/ Turn(p)
    \/ \E r \in Rungs : Offer(r)
    \/ Fold \/ Reject \/ Confirm \/ OpenBreakdown \/ CloseBreakdown
    \/ \E typed \in BOOLEAN : Override(typed)

\* Both threads go on: a coroutine whose answer is there runs, and a signal that is
\* queued is delivered. The user and the mod do what they like.
Fairness ==
    /\ WF_vars(List) /\ WF_vars(Quote) /\ WF_vars(Deliver)
    /\ \A i \in Item : WF_vars(Value(i) \/ Drop(i) \/ Fail(i))

DeskSpec == DeskInit /\ [][Next]_vars /\ Fairness

-----------------------------------------------------------------------------
(***************************************************************************)
(* Properties.                                                             *)
(***************************************************************************)
Total  == {None} \cup UNION {[s -> Basis] : s \in SUBSET Item}
Signal == [kind : {"selection_changed"}, rows : Chosen]
          \cup [kind : {"item_valued"}, item : Item, ladder : Basis, total : Total]
          \cup [kind : {"settled_trade"}, place : Places]
Doing  == {Idle} \cup [at : {"listing"}] \cup [at : {"pricing"}, item : Item, basis : Basis]

DeskTypeOK ==
    /\ generation \in 0..MaxSelections /\ picked \in 0..MaxItems /\ items \in Chosen
    /\ valued \subseteq Item /\ manual \subseteq valued /\ inflight \subseteq Item
    /\ ladder \in [Item -> Basis \cup {None}]
    /\ net \in Doing /\ queue \in Seq(Signal) /\ sessions \in [Item -> Session \cup {None}]
    /\ screen \in Screen /\ dialog \in {None} \cup [index : Places, item : Item]

Quiet == net = Idle /\ queue = <<>>

\* Once both threads are quiet, the window shows what the controller has: its rows,
\* the price of each item that has one and of no other, and the total (a total that is
\* on its way when the user types an estimate arrives after the one that counts it,
\* so only while nothing was typed), and the rungs of the item that is selected. What comes back
\* late for a selection that is gone is thrown away: "showing it would put a price
\* against an item that is no longer picked" (_value_item).
ScreenCatchesUp ==
    Quiet =>
        /\ screen.rows = items
        /\ \A p \in 1..items.size :
              screen.figures[p] = IF ladder[Listed(p)] # None THEN Listed(p) ELSE None
        /\ items.of \in overruled \/ screen.total = Counted(manual)
        /\ OnTable => screen.rungs # None /\ screen.rungs.item = Listed(screen.selected)

\* A rung that is expanded is an offer the ledger knows of: the customer is asked to
\* confirm or turn down nothing that was never said.
ExpandedWasOffered ==
    Quiet /\ OnTable /\ screen.expanded # None =>
        /\ sessions[Key] # None
        /\ sessions[Key].offer = [of |-> Listed(screen.selected), rung |-> screen.expanded]

\* "The user can see the item" (breakdown.py): what is typed over the estimate of one
\* item changes no other.
OverrideOfItsItem ==
    [][\A i \in Item : manual' # manual /\ (i \in manual) # (i \in manual') => dialog.item = i]_vars

\* Every item the player picked is priced and shown, unless the market cannot be asked
\* or another selection comes.
PricesArrive ==
    \A g \in Generations, p \in Places :
        items.of = g /\ p <= items.size ~> \/ generation # g
                                          \/ <<g, p>> \in failed
                                          \/ screen.figures[p] = <<g, p>>

=============================================================================
