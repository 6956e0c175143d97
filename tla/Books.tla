-------------------------------- MODULE Books -------------------------------
(***************************************************************************)
(* The tabs that show the ledger (app/lowball/ui/views/ledger.py and       *)
(* statistics.py), the dialog that records what became of an item          *)
(* (ui/dialogs/outcome.py), and the window that refreshes them             *)
(* (ui/main_window.py). All of it runs on the GUI thread; the dialog is    *)
(* modal, but a settled trade may still arrive while it is open.           *)
(*                                                                         *)
(* The ledger beneath is as small as the tabs see it: the items, newest    *)
(* first, and the outcome of each. How it is recorded is in Ledger.tla.    *)
(***************************************************************************)
EXTENDS Naturals, Sequences, FiniteSetsExt

CONSTANTS
    Items,
    Prices,    \* amounts that are typed or recorded
    Worth,     \* what an item is worth now, or else has cost
    Nothing    \* no exit, no amount, no dialog

ASSUME BooksAssumption ==
    Prices \subseteq Nat /\ Worth \in [Items -> Prices] /\ Nothing \notin Prices

VARIABLES
    stock,     \* items by when they were bought, the newest first
    outcome,   \* the state of each, and its exit: gross and taxed
    old,       \* items that have been held for over a week
    tab,       \* the tab in front
    filter,    \* of the ledger tab
    rows,      \* what its table was last filled with
    hidden,    \* the positions of the table that are hidden
    figures,   \* what the statistics tab was last filled with
    dialog,    \* the outcome dialog, or Nothing
    narrowed   \* history: what the ledger tab was last narrowed to

ledger    == <<stock, outcome, old>>
shown     == <<rows, hidden, figures>>
booksVars == <<ledger, tab, filter, shown, dialog, narrowed>>

Tabs    == {"valuation", "ledger", "statistics", "config"}
Bands   == {"0-7d", "7d+"}
Filters == {"Everything", "In stock", "Sold", "Kept"}
States(f) == CASE f = "Everything" -> {"HELD", "SOLD", "KEPT"}
               [] f = "In stock"   -> {"HELD"}
               [] f = "Sold"       -> {"SOLD"}
               [] f = "Kept"       -> {"KEPT"}

Outcome == [state : {"HELD", "SOLD", "KEPT"}, gross : Prices \cup {Nothing}, taxed : BOOLEAN]
Held    == [state |-> "HELD", gross |-> Nothing, taxed |-> FALSE]
Bought  == {stock[n] : n \in DOMAIN stock}
In(states) == {i \in Bought : outcome[i].state \in states}

Form == [item : Items, route : {"HELD", "SOLD", "KEPT"}, price : Prices \cup {Nothing},
         taxed : BOOLEAN, touched : BOOLEAN]

-----------------------------------------------------------------------------
(***************************************************************************)
(* Filling the tabs.                                                       *)
(***************************************************************************)
\* LedgerView.refresh(): the rows of the filter, as they are now.
Table(items, exits, f) ==
    LET inFilter(i) == exits[i].state \in States(f)
        listed == SelectSeq(items, inFilter)
    IN  [n \in DOMAIN listed |-> [item |-> listed[n], outcome |-> exits[listed[n]]]]
Listed == Table(stock, outcome, filter)

\* QTableWidget: positions stay hidden for as long as the table is that long.
StillHidden(positions, table) == positions \cap DOMAIN table

\* StatisticsView.refresh(): queries.position, realised and kept_summary. An item that
\* was kept is a withdrawal and no sale.
Position(items, exits) ==
    LET in(state) == {i \in items : exits[i].state = state}
        takings(state) == MapThenSumSet(LAMBDA i : exits[i].gross, in(state))
    IN  [stocked |-> in("HELD"), sales |-> in("SOLD"),
         realised |-> takings("SOLD"), kept |-> takings("KEPT")]
Figures == Position(Bought, outcome)

RefreshLedger ==
    /\ rows' = Listed'
    /\ hidden' = StillHidden(hidden, rows')

RefreshStatistics == figures' = Figures'

\* Mutant of RefreshFront: the ledger's rows are left as they were.
RefreshStatisticsInFront ==
    /\ UNCHANGED <<rows, hidden>>
    /\ IF tab' = "statistics" THEN RefreshStatistics ELSE UNCHANGED figures

\* MainWindow._on_ledger_changed and _on_tab_changed: the tab in front.
RefreshFront ==
    /\ IF tab' = "ledger" THEN RefreshLedger ELSE UNCHANGED <<rows, hidden>>
    /\ IF tab' = "statistics" THEN RefreshStatistics ELSE UNCHANGED figures

BooksInit ==
    /\ stock = <<>> /\ outcome = [i \in Items |-> Held] /\ old = {}
    /\ tab = "valuation" /\ filter = "Everything"
    /\ rows = <<>> /\ hidden = {} /\ figures = Figures
    /\ dialog = Nothing /\ narrowed = "all"

-----------------------------------------------------------------------------
(***************************************************************************)
(* The window.                                                             *)
(***************************************************************************)
\* Positions that a band left hidden stay hidden, whatever is filled in there next.
Outgrown == IF narrowed = "all" THEN "all" ELSE "outgrown"

\* An offer is confirmed, in the valuation tab: AppController.confirm_sale.
Buy(i) ==
    /\ dialog = Nothing /\ tab = "valuation"
    /\ i \notin Bought
    /\ stock' = <<i>> \o stock
    /\ narrowed' = Outgrown
    /\ UNCHANGED <<outcome, old, tab, filter, dialog>>
    /\ RefreshFront

Week(i) ==
    /\ i \in Bought \ old
    /\ old' = old \cup {i}
    /\ narrowed' = Outgrown
    /\ UNCHANGED <<stock, outcome, tab, filter, shown, dialog>>

Turn(t) ==
    /\ dialog = Nothing /\ t # tab
    /\ tab' = t
    /\ UNCHANGED <<ledger, filter, dialog, narrowed>>
    /\ RefreshFront

\* _on_settled: a trade that settles one item turns to the valuation, dialog or not.
Settled ==
    /\ tab' = "valuation"
    /\ UNCHANGED <<ledger, filter, shown, dialog, narrowed>>

ChangeFilter(f) ==
    /\ dialog = Nothing /\ tab = "ledger" /\ f # filter
    /\ filter' = f
    /\ narrowed' = Outgrown
    /\ UNCHANGED <<ledger, tab, figures, dialog>>
    /\ RefreshLedger

\* queries.items_in_age_band, of two bands.
InBand(band) == {i \in In({"HELD"}) : i \in old <=> band = "7d+"}

\* LedgerView.filter_to_items: each row of the table is hidden or shown.
FilterToItems(items, table) == {n \in DOMAIN table : table[n].item \notin items}

\* _on_bucket_clicked: a band of the ageing chart, and the rows behind it.
ClickBand(band) ==
    /\ dialog = Nothing /\ tab = "statistics"
    /\ tab' = "ledger" /\ filter' = "In stock"
    /\ UNCHANGED <<ledger, figures, dialog>>
    /\ rows' = Listed'
    /\ hidden' = FilterToItems(InBand(band), rows')
    /\ narrowed' = band

\* _rebuild and _clear_history refresh both tabs, whichever is in front. (A replay
\* gives the rows that are there.)
RebuildProjections ==
    /\ dialog = Nothing
    /\ UNCHANGED <<ledger, tab, filter, dialog, narrowed>>
    /\ RefreshLedger /\ RefreshStatistics

ClearHistory ==
    /\ dialog = Nothing /\ tab = "ledger"
    /\ stock # <<>>
    /\ stock' = <<>> /\ old' = {} /\ outcome' = [i \in Items |-> Held]
    /\ UNCHANGED <<tab, filter, dialog>>
    /\ RefreshLedger /\ RefreshStatistics
    /\ narrowed' = IF hidden' = {} THEN "all" ELSE Outgrown    \* an empty table hides none

-----------------------------------------------------------------------------
(***************************************************************************)
(* The dialog.                                                             *)
(***************************************************************************)
\* Mutant of Opened: the tax box starts out checked.
OpenedTaxed(i) ==
    LET exit      == outcome[i]
        suggested == IF exit.gross \notin {Nothing, 0} THEN exit.gross ELSE Worth[i]
    IN [item |-> i, touched |-> FALSE,
        route |-> IF exit.state = "KEPT" THEN "KEPT" ELSE "SOLD",
        price |-> IF suggested = 0 THEN Nothing ELSE suggested,
        taxed |-> TRUE]

\* OutcomeDialog.__init__: the outcome on record, or else what the item is worth. The
\* row for put back into stock is never the first choice. An amount of zero is none.
Opened(i) ==
    LET exit      == outcome[i]
        suggested == IF exit.gross \notin {Nothing, 0} THEN exit.gross ELSE Worth[i]
    IN [item |-> i, touched |-> FALSE,
        route |-> IF exit.state = "KEPT" THEN "KEPT" ELSE "SOLD",
        price |-> IF suggested = 0 THEN Nothing ELSE suggested,
        taxed |-> exit.state = "SOLD" => exit.taxed]

\* The button of a row.
OpenOutcome(n) ==
    /\ dialog = Nothing /\ tab = "ledger"
    /\ n \in DOMAIN rows \ hidden
    /\ dialog' = Opened(rows[n].item)
    /\ UNCHANGED <<ledger, tab, filter, shown, narrowed>>

\* The user picks a route, types an amount (which may be none) and flips the tax. The
\* way back into stock is offered for an item that has left it, as its row says.
Edit ==
    /\ dialog # Nothing
    /\ \/ \E route \in {"SOLD", "KEPT"} \cup IF outcome[dialog.item].state # "HELD"
                                               THEN {"HELD"} ELSE {} :
              dialog' = [dialog EXCEPT !.route = route, !.touched = TRUE]
       \/ /\ dialog.route # "HELD"
          /\ \E price \in Prices \cup {Nothing} :
                 dialog' = [dialog EXCEPT !.price = price, !.touched = TRUE]
       \/ /\ dialog.route = "SOLD"
          /\ dialog' = [dialog EXCEPT !.taxed = ~ @, !.touched = TRUE]
    /\ UNCHANGED <<ledger, tab, filter, shown, narrowed>>

\* _on_save and _open_outcome: unwind_exit, keep_item or sell_item.
Chosen(form) ==
    IF form.route = "HELD" THEN Held
    ELSE [state |-> form.route, gross |-> form.price,
          taxed |-> form.route = "SOLD" /\ form.taxed]

Save ==
    /\ dialog # Nothing
    /\ dialog.route = "HELD" \/ dialog.price # Nothing
    /\ outcome' = [outcome EXCEPT ![dialog.item] = Chosen(dialog)]
    /\ dialog' = Nothing
    /\ narrowed' = Outgrown
    /\ UNCHANGED <<stock, old, tab, filter>>
    /\ RefreshLedger /\ RefreshStatistics      \* refresh(), changed.emit()

Cancel ==
    /\ dialog # Nothing
    /\ dialog' = Nothing
    /\ UNCHANGED <<ledger, tab, filter, shown, narrowed>>

-----------------------------------------------------------------------------
BooksNext ==
    \/ \E i \in Items : Buy(i) \/ Week(i)
    \/ \E t \in Tabs : Turn(t)
    \/ \E f \in Filters : ChangeFilter(f)
    \/ \E band \in Bands : ClickBand(band)
    \/ \E n \in 1 .. Len(rows) : OpenOutcome(n)
    \/ Settled \/ RebuildProjections \/ ClearHistory \/ Edit \/ Save \/ Cancel

BooksSpec == BooksInit /\ [][BooksNext]_booksVars

-----------------------------------------------------------------------------
(***************************************************************************)
(* Properties.                                                             *)
(***************************************************************************)
BooksTypeOK ==
    /\ stock \in Seq(Items) /\ outcome \in [Items -> Outcome] /\ old \subseteq Items
    /\ tab \in Tabs /\ filter \in Filters
    /\ rows \in Seq([item : Items, outcome : Outcome]) /\ hidden \subseteq DOMAIN rows
    /\ dialog \in Form \cup {Nothing}
    /\ narrowed \in Bands \cup {"all", "outgrown"}

\* The ledger tab in front is filled with what its filter lists now, and all of it can be
\* seen, or exactly the items of the band that was clicked, for as long as the ledger and
\* the filter are what they were at the click; after that, rows are hidden that should not
\* be (changing the filter does not show everything again). The statistics tab in front
\* shows the figures of now. Only some of what changes the ledger refreshes the tab in
\* front, and most of it happens behind another one.
FrontIsCurrent ==
    /\ tab = "ledger" =>
          /\ rows = Listed
          /\ narrowed = "all" => hidden = {}
          /\ narrowed \in Bands =>
                \A n \in DOMAIN rows : n \in hidden <=> rows[n].item \notin InBand(narrowed)
    /\ tab = "statistics" => figures = Figures

\* Opening the outcome of an item and saving it as it is records the same outcome
\* again, tax and all, unless the item has left for nothing.
SavedAsItWas ==
    [][\A i \in Items :
          Save /\ dialog.item = i /\ ~ dialog.touched
               /\ outcome[i].state # "HELD" /\ outcome[i].gross # 0
            => outcome' = outcome]_booksVars

=============================================================================
