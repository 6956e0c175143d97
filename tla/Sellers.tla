------------------------------- MODULE Sellers ------------------------------
(***************************************************************************)
(* From a price to the command that reaches its listing: a click on a      *)
(* market figure (ui/widgets/links.py, ui/main_window.py), the lookup of   *)
(* the seller's name on the asyncio thread (controller.py, ui/workers.py), *)
(* the names that are remembered (api/players.py) and the clipboard.       *)
(*                                                                         *)
(* A lookup is one call of the client in Coflnet.tla; here it only ends,   *)
(* with a name or without. Its callback runs on the asyncio thread, in two *)
(* steps, while the GUI thread goes on.                                    *)
(***************************************************************************)
EXTENDS Naturals, Sequences, FiniteSets

CONSTANTS
    Listings,
    Sellers,
    SellerOf,     \* the seller of each listing, None if it names none
    None,
    MaxClicks,    \* bound: clicks that copy something
    MaxLookups    \* bound: lookups that are started

ASSUME SellersAssumption == SellerOf \in [Listings -> Sellers \cup {None}] /\ None \notin Sellers

VARIABLES
    phase,      \* of the asyncio loop: "starting", "running" or "stopped"
    names,      \* players._names: sellers whose name is remembered
    resolving,  \* AppController._resolving
    lookups,    \* those in flight: number, seller, the click and listing behind it, result
    asked,      \* how many were started
    queued,     \* commands on their way to the GUI thread
    clipboard,  \* the last command: which click, which listing, what it says
    clicks,     \* how many clicks there were
    copied,     \* history: clicks whose command was put on the clipboard
    overlaps    \* history: a click came before the command of an earlier one

gui  == <<clipboard, clicks, copied, overlaps>>
vars == <<phase, names, resolving, lookups, asked, queued, gui>>

Results == {"none yet", "name", "no name"}
Lookup  == [number : Nat, seller : Sellers, click : Nat, listing : Listings, result : Results]
Command(click, listing, text) == [click |-> click, listing |-> listing, text |-> text]
Commands == [click : Nat, listing : Listings, text : {"/ah", "/viewauction", "exact"}]

ASSUME NoCommandAssumption == None \notin Commands

\* A click whose command has not reached the clipboard; 0 is none: a prefetch.
Waiting == 1 .. clicks \ copied

Init ==
    /\ phase = "starting" /\ names = {} /\ resolving = {}
    /\ lookups = {} /\ asked = 0 /\ queued = <<>>
    /\ clipboard = None /\ clicks = 0 /\ copied = {} /\ overlaps = FALSE

-----------------------------------------------------------------------------
(***************************************************************************)
(* The GUI thread.                                                         *)
(***************************************************************************)
\* MainWindow._on_clipboard.
PutOnClipboard(command) ==
    /\ clipboard' = command
    /\ copied' = copied \cup {command.click}

\* AsyncBridge.submit: the coroutine of player_name is handed to the loop.
Submit(seller, click, listing) ==
    /\ asked < MaxLookups
    /\ asked' = asked + 1
    /\ resolving' = resolving \cup {seller}
    /\ lookups' = lookups \cup {[number |-> asked', seller |-> seller, click |-> click,
                                 listing |-> listing, result |-> "none yet"]}

NewClick ==
    /\ clicks < MaxClicks /\ phase # "stopped"
    /\ clicks' = clicks + 1
    /\ overlaps' = (overlaps \/ Waiting # {})

\* The three entries of the menu that need no name; "Open" copies nothing.
CopyAtOnce(listing, text) ==
    /\ NewClick
    /\ PutOnClipboard(Command(clicks', listing, text))
    /\ UNCHANGED <<phase, names, resolving, lookups, asked, queued>>

\* copy_ah_command, when there is nothing to look up, nothing to look it up with, or the
\* name is remembered.
CopyAh(listing) ==
    LET seller == SellerOf[listing]
    IN  /\ NewClick
        /\ \/ /\ seller \in names
              /\ PutOnClipboard(Command(clicks', listing, "/ah"))
           \/ /\ seller = None \/ (seller \notin names /\ phase = "starting")
              /\ PutOnClipboard(Command(clicks', listing, "/viewauction"))
        /\ UNCHANGED <<phase, names, resolving, lookups, asked, queued>>

\* copy_ah_command, otherwise. It does not look whether the name is being looked up.
LookUp(listing) ==
    LET seller == SellerOf[listing]
    IN  /\ seller # None /\ seller \notin names /\ phase = "running"
        /\ NewClick
        /\ Submit(seller, clicks', listing)
        /\ UNCHANGED <<phase, names, queued, clipboard, copied>>

\* prefetch_seller asks for no name that is remembered or under way.
Unresolved(seller) == seller \notin names \cup resolving

\* _on_item_selected and _on_item_valued: the lowest BIN of the item on screen.
Prefetch(listing) ==
    LET seller == SellerOf[listing]
    IN  /\ phase = "running"
        /\ seller # None /\ Unresolved(seller)
        /\ Submit(seller, 0, listing)
        /\ UNCHANGED <<phase, names, queued, gui>>

\* A signal that the other thread emitted.
Deliver ==
    /\ queued # <<>> /\ phase # "stopped"
    /\ PutOnClipboard(Head(queued))
    /\ queued' = Tail(queued)
    /\ UNCHANGED <<phase, names, resolving, lookups, asked, clicks, overlaps>>

Start ==
    /\ phase = "starting" /\ phase' = "running"
    /\ UNCHANGED <<names, resolving, lookups, asked, queued, gui>>

-----------------------------------------------------------------------------
(***************************************************************************)
(* The asyncio thread. One callback runs at a time.                        *)
(***************************************************************************)
InCallback == {l \in lookups : l.result # "none yet"}

\* player_name returns, or raises, and the callback unmarks the seller. A text that is no
\* name (_plain_name) is none.
Answer(l) ==
    /\ phase = "running" /\ InCallback = {}
    /\ \E result \in {"name", "no name"} :
           lookups' = (lookups \ {l}) \cup {[l EXCEPT !.result = result]}
    /\ resolving' = resolving \ {l.seller}
    /\ UNCHANGED <<phase, names, asked, queued, gui>>

\* Mutant of Emitted: nothing is copied when there is no name.
EmittedWithName(l) ==
    IF l.click = 0 \/ l.result # "name" THEN <<>> ELSE <<Command(l.click, l.listing, "/ah")>>

\* Mutant of Emitted: a prefetch copies the name that it finds.
EmittedByAny(l) ==
    IF l.click = 0 /\ l.result # "name" THEN <<>>
    ELSE <<Command(l.click, l.listing, IF l.result = "name" THEN "/ah" ELSE "/viewauction")>>

\* What the callback has to say to the clipboard: _fall_back_to_viewauction without a name.
Emitted(l) ==
    IF l.click = 0 THEN <<>>
    ELSE <<Command(l.click, l.listing, IF l.result = "name" THEN "/ah" ELSE "/viewauction")>>

\* The rest of the callback: remember() and the command.
Conclude(l) ==
    /\ l \in InCallback
    /\ names' = IF l.result = "name" THEN names \cup {l.seller} ELSE names
    /\ queued' = queued \o Emitted(l)
    /\ lookups' = lookups \ {l}
    /\ UNCHANGED <<phase, resolving, asked, gui>>

\* MainWindow.closeEvent: stop() cancels what is in flight, whose callbacks only unmark.
Stop ==
    /\ phase = "running" /\ InCallback = {}
    /\ phase' = "stopped"
    /\ lookups' = {} /\ resolving' = resolving \ {l.seller : l \in lookups}
    /\ UNCHANGED <<names, asked, queued, gui>>

-----------------------------------------------------------------------------
Next ==
    \/ \E listing \in Listings :
           \/ CopyAh(listing) \/ LookUp(listing) \/ Prefetch(listing)
           \/ \E text \in {"/viewauction", "exact"} : CopyAtOnce(listing, text)
    \/ \E l \in lookups : Answer(l) \/ Conclude(l)
    \/ Deliver \/ Start \/ Stop

\* Both threads' loops run on, and a question to the client ends (Coflnet!QuestionsEnd).
Fairness ==
    /\ WF_vars(Deliver) /\ WF_vars(\E l \in lookups : Conclude(l))
    /\ \A n \in 1 .. MaxLookups : WF_vars(\E l \in lookups : l.number = n /\ Answer(l))

Spec == Init /\ [][Next]_vars /\ Fairness

-----------------------------------------------------------------------------
(***************************************************************************)
(* Properties.                                                             *)
(***************************************************************************)
TypeOK ==
    /\ phase \in {"starting", "running", "stopped"}
    /\ names \subseteq Sellers /\ resolving \subseteq Sellers
    /\ lookups \subseteq Lookup /\ asked \in Nat
    /\ queued \in Seq(Commands) /\ clipboard \in Commands \cup {None}
    /\ clicks \in Nat /\ copied \subseteq Nat /\ overlaps \in BOOLEAN

\* When nothing is under way the clipboard holds what the last click was for, although
\* commands arrive from two threads. Only when one click followed another that still
\* waited may the earlier one come last.
LastClickStays ==
    ~ overlaps /\ clicks > 0 /\ Waiting = {} => clipboard # None /\ clipboard.click = clicks

\* Every click is answered on the clipboard, with the seller's name or without, unless
\* the application stops: nobody is left with nothing after a click that looked as if it
\* worked.
ClicksAnswered ==
    \A n \in 1 .. MaxClicks : clicks >= n ~> n \in copied \/ phase = "stopped"

=============================================================================
