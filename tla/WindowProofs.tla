---------------------------- MODULE WindowProofs ----------------------------
(***************************************************************************)
(* What holds of two parts of the window for whatever is clicked, and in   *)
(* whatever order what runs in the background answers: the clipboard keeps *)
(* the command of the last click (Sellers.tla), and the tab in front shows *)
(* what the ledger holds, which an outcome that is opened and saved        *)
(* untouched leaves as it was (Books.tla).                                 *)
(***************************************************************************)
EXTENDS Sellers, Books, SequenceTheorems, TLAPS

-----------------------------------------------------------------------------
(***************************************************************************)
(* The clicks that are under way.                                          *)
(***************************************************************************)
\* Where the command of a click can still come from: the queue of the GUI thread or a
\* lookup, one of them at most, and only while the clipboard has not had it.
EachOnce ==
    /\ copied \subseteq 1 .. clicks
    /\ \A l \in lookups : l.click # 0 => l.click \in Waiting
    /\ \A l, k \in lookups : l.click # 0 /\ l.click = k.click => l = k
    /\ \A i \in 1 .. Len(queued) : queued[i].click \in Waiting
    /\ \A i, j \in 1 .. Len(queued) : queued[i].click = queued[j].click => i = j
    /\ \A l \in lookups, i \in 1 .. Len(queued) : l.click # queued[i].click

\* Unless clicks overlapped, none waits but the last, and once that one has been
\* answered the clipboard holds it.
LastOnly ==
    ~ overlaps =>
        /\ Waiting \subseteq {clicks}
        /\ clicks \in copied => clipboard \in Commands /\ clipboard.click = clicks

SellersInv == TypeOK /\ EachOnce /\ LastOnly

LEMMA LookupFields ==
    ASSUME NEW l \in Lookup
    PROVE  /\ l.number \in Nat /\ l.seller \in Sellers /\ l.click \in Nat
           /\ l.listing \in Listings /\ l.result \in Results
BY DEF Lookup

LEMMA CommandFields ==
    ASSUME NEW n \in Nat, NEW listing \in Listings,
           NEW text \in {"/ah", "/viewauction", "exact"}
    PROVE  /\ Command(n, listing, text) \in Commands
           /\ Command(n, listing, text).click = n
BY DEF Command, Commands

LEMMA CommandsClick == \A command \in Commands : command.click \in Nat
BY DEF Commands

LEMMA SellersInvInit == Init => SellersInv
<1> SUFFICES ASSUME Init PROVE SellersInv
  OBVIOUS
<1>1. TypeOK
  <2>1. queued \in Seq(Commands)
    BY DEF Init
  <2> QED BY <2>1 DEF Init, TypeOK
<1>2. EachOnce /\ LastOnly
  BY DEF Init, EachOnce, LastOnly, Waiting
<1> QED BY <1>1, <1>2 DEF SellersInv

\* The command of a new click goes straight to the clipboard.
LEMMA CopiedAtOnce ==
    ASSUME SellersInv, NEW listing \in Listings,
           NEW text \in {"/ah", "/viewauction", "exact"}, NewClick,
           PutOnClipboard(Command(clicks', listing, text)),
           UNCHANGED <<phase, names, resolving, lookups, asked, queued>>
    PROVE  SellersInv'
<1>1. TypeOK /\ EachOnce /\ LastOnly
  BY DEF SellersInv
<1>2. /\ clicks \in Nat /\ clicks' = clicks + 1 /\ clicks' \in Nat
      /\ clipboard' = Command(clicks', listing, text)
      /\ clipboard' \in Commands /\ clipboard'.click = clicks'
      /\ copied' = copied \cup {clicks'}
      /\ overlaps' = (overlaps \/ Waiting # {})
  <2>1. clicks \in Nat /\ clicks' = clicks + 1 /\ clicks' \in Nat
    BY <1>1 DEF TypeOK, NewClick
  <2>2. PICK c \in Nat : c = clicks'
    BY <2>1
  <2>3. Command(c, listing, text) \in Commands /\ Command(c, listing, text).click = c
    BY CommandFields
  <2> QED BY <2>1, <2>2, <2>3 DEF PutOnClipboard, NewClick
<1>3. TypeOK'
  BY <1>1, <1>2 DEF TypeOK
<1>4. Waiting' = Waiting
  BY <1>1, <1>2 DEF TypeOK, EachOnce, Waiting
<1>5. EachOnce'
  BY <1>1, <1>2, <1>4 DEF EachOnce, TypeOK
<1>6. LastOnly'
  BY <1>1, <1>2, <1>4 DEF LastOnly
<1> QED BY <1>3, <1>5, <1>6 DEF SellersInv

\* A lookup is started, for the new click or for none.
LEMMA LookupStarted ==
    ASSUME SellersInv, NEW seller \in Sellers, NEW click \in Nat, NEW listing \in Listings,
           Submit(seller, click, listing),
           UNCHANGED <<phase, names, queued, clipboard, copied>>,
           \/ click = 0 /\ UNCHANGED <<clicks, overlaps>>
           \/ click = clicks' /\ NewClick
    PROVE  SellersInv'
<1>1. TypeOK /\ EachOnce /\ LastOnly
  BY DEF SellersInv
<1>2. PICK started \in Lookup :
          lookups' = lookups \cup {started} /\ started.click = click
  <2> DEFINE l == [number |-> asked + 1, seller |-> seller, click |-> click,
                   listing |-> listing, result |-> "none yet"]
  <2>1. l \in Lookup /\ l.click = click
    <3>1. PICK number \in Nat : number = asked + 1
      BY <1>1 DEF TypeOK
    <3> QED BY <3>1 DEF Lookup, Results
  <2>2. lookups' = lookups \cup {l}
    BY DEF Submit
  <2> QED BY <2>1, <2>2
<1>3. TypeOK'
  <2>1. /\ asked' \in Nat
        /\ resolving' \subseteq Sellers
        /\ clicks' \in Nat
    <3>0. asked' = asked + 1 /\ resolving' = resolving \cup {seller}
      BY Zenon DEF Submit
    <3>1. asked' \in Nat /\ resolving' \subseteq Sellers
      BY <1>1, <3>0 DEF TypeOK
    <3>2. clicks' = clicks \/ clicks' = clicks + 1
      BY DEF NewClick
    <3> QED BY <1>1, <3>1, <3>2 DEF TypeOK
  <2>2. overlaps' \in BOOLEAN
    BY <1>1 DEF TypeOK, NewClick
  <2>3. lookups' \subseteq Lookup
    BY <1>1, <1>2 DEF TypeOK
  <2> QED BY <1>1, <2>1, <2>2, <2>3 DEF TypeOK
<1>4. CASE click = 0 /\ UNCHANGED <<clicks, overlaps>>
  <2>1. Waiting' = Waiting
    BY <1>4 DEF Waiting
  <2>2. EachOnce'
    <3>1. \A i \in 1 .. Len(queued) : queued[i].click # 0
      BY <1>1 DEF EachOnce, Waiting, TypeOK
    <3> QED BY <1>1, <1>2, <1>4, <2>1, <3>1 DEF EachOnce, TypeOK
  <2>3. LastOnly'
    BY <1>1, <1>4, <2>1 DEF LastOnly
  <2> QED BY <1>3, <2>2, <2>3 DEF SellersInv
<1>5. CASE click = clicks' /\ NewClick
  <2>1. clicks \in Nat /\ clicks' = clicks + 1 /\ overlaps' = (overlaps \/ Waiting # {})
    BY <1>1, <1>5 DEF TypeOK, NewClick
  <2>2. clicks' \notin copied /\ clicks' \notin Waiting /\ Waiting' = Waiting \cup {clicks'}
    BY <1>1, <2>1 DEF EachOnce, Waiting
  <2>3. EachOnce'
    BY <1>1, <1>2, <1>5, <2>1, <2>2 DEF EachOnce
  <2>4. LastOnly'
    BY <1>1, <1>5, <2>1, <2>2 DEF LastOnly
  <2> QED BY <1>3, <2>3, <2>4 DEF SellersInv
<1> QED BY <1>4, <1>5

\* The answer to a lookup changes nothing of the click behind it.
LEMMA AnswerKeeps ==
    ASSUME SellersInv, NEW l \in lookups, Answer(l)
    PROVE  SellersInv'
<1>1. TypeOK /\ EachOnce /\ LastOnly
  BY DEF SellersInv
<1>2. UNCHANGED <<queued, clipboard, clicks, copied, overlaps>> /\ Waiting' = Waiting
  BY DEF Answer, gui, Waiting
<1>3. PICK answered \in Lookup :
          lookups' = (lookups \ {l}) \cup {answered} /\ answered.click = l.click
  <2>1. PICK result \in {"name", "no name"} :
            lookups' = (lookups \ {l}) \cup {[l EXCEPT !.result = result]}
    BY DEF Answer
  <2>2. [l EXCEPT !.result = result] \in Lookup /\ [l EXCEPT !.result = result].click = l.click
    BY <1>1 DEF TypeOK, Lookup, Results
  <2> QED BY <2>1, <2>2
<1>4. TypeOK'
  BY <1>1, <1>2, <1>3 DEF TypeOK, Answer
<1>5. EachOnce'
  BY <1>1, <1>2, <1>3 DEF EachOnce
<1>6. LastOnly'
  BY <1>1, <1>2 DEF LastOnly
<1> QED BY <1>4, <1>5, <1>6 DEF SellersInv

\* The rest of the callback moves the click from the lookup to the queue.
LEMMA ConcludeKeeps ==
    ASSUME SellersInv, NEW l \in lookups, Conclude(l)
    PROVE  SellersInv'
<1>1. TypeOK /\ EachOnce /\ LastOnly
  BY DEF SellersInv
<1>2. /\ UNCHANGED <<phase, resolving, asked, clipboard, clicks, copied, overlaps>>
      /\ Waiting' = Waiting
      /\ lookups' = lookups \ {l} /\ queued' = queued \o Emitted(l)
  BY DEF Conclude, gui, Waiting
<1>3. l \in Lookup /\ l.click \in Nat /\ l.listing \in Listings /\ l.seller \in Sellers
  BY <1>1, LookupFields DEF TypeOK
<1>4. names' \subseteq Sellers
  BY <1>1, <1>3 DEF TypeOK, Conclude
<1>5. LastOnly'
  BY <1>1, <1>2 DEF LastOnly
<1>6. CASE l.click = 0
  <2>1. queued' = queued
    BY <1>1, <1>2, <1>6 DEF Emitted, TypeOK
  <2>2. TypeOK'
    BY <1>1, <1>2, <1>4, <2>1 DEF TypeOK
  <2>3. EachOnce'
    BY <1>1, <1>2, <2>1 DEF EachOnce
  <2> QED BY <1>5, <2>2, <2>3 DEF SellersInv
<1>7. CASE l.click # 0
  <2>1. PICK command \in Commands : Emitted(l) = <<command>> /\ command.click = l.click
    <3> DEFINE text == IF l.result = "name" THEN "/ah" ELSE "/viewauction"
    <3>1. text \in {"/ah", "/viewauction", "exact"}
      OBVIOUS
    <3> HIDE DEF text
    <3>2. Command(l.click, l.listing, text) \in Commands
          /\ Command(l.click, l.listing, text).click = l.click
      BY <1>3, <3>1, CommandFields
    <3>3. Emitted(l) = <<Command(l.click, l.listing, text)>>
      BY <1>7 DEF Emitted, text
    <3> QED BY <3>2, <3>3
  <2>2. queued \in Seq(Commands) /\ Len(queued) \in Nat /\ queued' = queued \o <<command>>
    BY <1>1, <1>2, <2>1 DEF TypeOK
  <2>3. /\ queued' \in Seq(Commands) /\ Len(queued') = Len(queued) + 1
        /\ queued'[Len(queued) + 1] = command
        /\ \A i \in 1 .. Len(queued) : queued'[i] = queued[i]
    BY <2>2
  <2>4. TypeOK'
    BY <1>1, <1>2, <1>4, <2>3 DEF TypeOK
  <2>5. \A i \in 1 .. Len(queued') :
            \/ i \in 1 .. Len(queued) /\ queued'[i].click = queued[i].click
            \/ i = Len(queued) + 1 /\ queued'[i].click = l.click
    BY <2>1, <2>2, <2>3
  <2>6. EachOnce'
    BY <1>1, <1>2, <1>7, <2>5 DEF EachOnce
  <2> QED BY <1>5, <2>4, <2>6 DEF SellersInv
<1> QED BY <1>6, <1>7

\* A command that waited reaches the clipboard.
LEMMA DeliverKeeps ==
    ASSUME SellersInv, Deliver
    PROVE  SellersInv'
<1>1. TypeOK /\ EachOnce /\ LastOnly
  BY DEF SellersInv
<1>2. PICK command \in Commands : command = Head(queued)
  BY <1>1 DEF TypeOK, Deliver
<1>3. /\ UNCHANGED <<phase, names, resolving, lookups, asked, clicks, overlaps>>
      /\ queued' = Tail(queued) /\ clipboard' = command
      /\ copied' = copied \cup {command.click}
  BY <1>2 DEF Deliver, PutOnClipboard
<1>4. /\ queued' \in Seq(Commands) /\ 1 \in 1 .. Len(queued) /\ queued[1] = command
      /\ \A i \in 1 .. Len(queued') : /\ i + 1 \in 1 .. Len(queued) /\ i + 1 # 1
                                       /\ queued'[i] = queued[i + 1]
  BY <1>1, <1>2, <1>3 DEF TypeOK, Deliver
<1>5. command.click \in Nat /\ command.click \in Waiting
  BY <1>1, <1>4, CommandsClick DEF EachOnce
<1>6. Waiting' = Waiting \ {command.click}
  BY <1>3 DEF Waiting
<1>7. TypeOK'
  BY <1>1, <1>3, <1>4, <1>5 DEF TypeOK
<1>8. EachOnce'
  <2>1. copied' \subseteq 1 .. clicks'
    BY <1>1, <1>3, <1>5 DEF EachOnce, Waiting
  <2>2. \A l \in lookups' : l.click # 0 => l.click \in Waiting'
    BY <1>1, <1>3, <1>4, <1>6 DEF EachOnce
  <2>3. \A i \in 1 .. Len(queued') : queued'[i].click \in Waiting'
    BY <1>1, <1>4, <1>6 DEF EachOnce
  <2>4. \A i, j \in 1 .. Len(queued') : queued'[i].click = queued'[j].click => i = j
    BY <1>1, <1>4 DEF EachOnce
  <2>5. \A l \in lookups', i \in 1 .. Len(queued') : l.click # queued'[i].click
    BY <1>1, <1>3, <1>4 DEF EachOnce
  <2> QED BY <1>1, <1>3, <2>1, <2>2, <2>3, <2>4, <2>5 DEF EachOnce
<1>9. LastOnly'
  BY <1>1, <1>3, <1>5, <1>6 DEF LastOnly
<1> QED BY <1>7, <1>8, <1>9 DEF SellersInv

LEMMA StopKeeps ==
    ASSUME SellersInv, Stop
    PROVE  SellersInv'
<1>1. TypeOK /\ EachOnce /\ LastOnly
  BY DEF SellersInv
<1>2. /\ UNCHANGED <<names, asked, queued, clipboard, clicks, copied, overlaps>>
      /\ Waiting' = Waiting /\ lookups' = {} /\ phase' = "stopped"
      /\ resolving' \subseteq resolving
  BY DEF Stop, gui, Waiting
<1> QED BY <1>1, <1>2 DEF SellersInv, TypeOK, EachOnce, LastOnly

LEMMA SellersInvNext == SellersInv /\ [Next]_vars => SellersInv'
<1> SUFFICES ASSUME SellersInv, [Next]_vars PROVE SellersInv'
  OBVIOUS
<1>t. TypeOK
  BY DEF SellersInv
<1>c. clicks \in Nat /\ (NewClick => clicks' \in Nat)
  BY <1>t DEF TypeOK, NewClick
<1>1. ASSUME NEW listing \in Listings, CopyAh(listing) PROVE SellersInv'
  <2>1. PICK text \in {"/ah", "/viewauction", "exact"} :
            PutOnClipboard(Command(clicks', listing, text))
    BY <1>1 DEF CopyAh
  <2>2. NewClick /\ UNCHANGED <<phase, names, resolving, lookups, asked, queued>>
    BY <1>1 DEF CopyAh
  <2> QED BY <2>1, <2>2, CopiedAtOnce
<1>2. ASSUME NEW listing \in Listings, LookUp(listing) PROVE SellersInv'
  <2>1. PICK seller \in Sellers : seller = SellerOf[listing]
    BY <1>2, SellersAssumption DEF LookUp
  <2>2. PICK click \in Nat : click = clicks'
    BY <1>2, <1>c DEF LookUp
  <2>3. /\ NewClick /\ Submit(seller, click, listing)
        /\ UNCHANGED <<phase, names, queued, clipboard, copied>>
    BY <1>2, <2>1, <2>2 DEF LookUp
  <2> QED BY <2>2, <2>3, LookupStarted
<1>3. ASSUME NEW listing \in Listings, Prefetch(listing) PROVE SellersInv'
  <2>1. PICK seller \in Sellers : seller = SellerOf[listing]
    BY <1>3, SellersAssumption DEF Prefetch
  <2>2. /\ Submit(seller, 0, listing)
        /\ UNCHANGED <<phase, names, queued, clipboard, copied, clicks, overlaps>>
    BY <1>3, <2>1 DEF Prefetch, gui
  <2> QED BY <2>2, LookupStarted
<1>4. ASSUME NEW listing \in Listings, NEW text \in {"/viewauction", "exact"},
             CopyAtOnce(listing, text)
      PROVE  SellersInv'
  <2>1. /\ NewClick /\ PutOnClipboard(Command(clicks', listing, text))
        /\ UNCHANGED <<phase, names, resolving, lookups, asked, queued>>
    BY <1>4 DEF CopyAtOnce
  <2> QED BY <2>1, CopiedAtOnce
<1>5. CASE Start
  BY <1>5 DEF Start, gui, SellersInv, TypeOK, EachOnce, LastOnly, Waiting
<1>6. CASE UNCHANGED vars
  BY <1>6 DEF vars, gui, SellersInv, TypeOK, EachOnce, LastOnly, Waiting
<1> QED
  BY <1>1, <1>2, <1>3, <1>4, <1>5, <1>6, AnswerKeeps, ConcludeKeeps, DeliverKeeps,
     StopKeeps DEF Next

LEMMA SellersInvHolds == Spec => []SellersInv
BY SellersInvInit, SellersInvNext, PTL DEF Spec

\* With no overlap, what the clipboard holds when nothing waits is what the last click
\* was for (_on_clipboard, the callbacks of copy_ah_command).
THEOREM LastClickStaysHolds == Spec => []LastClickStays
<1>1. SellersInv => LastClickStays
  <2> SUFFICES ASSUME SellersInv, ~ overlaps, clicks > 0, Waiting = {}
               PROVE  clipboard # None /\ clipboard.click = clicks
    BY DEF LastClickStays
  <2>1. clicks \in copied
    BY DEF SellersInv, TypeOK, Waiting
  <2> QED BY <2>1, NoCommandAssumption DEF SellersInv, LastOnly
<1> QED BY <1>1, SellersInvHolds, PTL

-----------------------------------------------------------------------------
(***************************************************************************)
(* The ledger tab, the statistics tab and the outcome dialog, which share  *)
(* no variable with the clicks. What a tab lists is decided by the ledger  *)
(* and the filter.                                                         *)
(***************************************************************************)
LEMMA ListedSame ==
    UNCHANGED <<stock, outcome, filter>> => Listed' = Listed
BY DEF Listed

LEMMA FiguresSame ==
    UNCHANGED <<stock, outcome>> => Figures' = Figures
BY DEF Figures, Bought

\* What the table hides is what the last click asked for, behind another tab as well.
Narrowed ==
    /\ narrowed = "all" => hidden = {}
    /\ narrowed \in Bands =>
          /\ filter = "In stock" /\ rows = Listed
          /\ hidden = FilterToItems(InBand(narrowed), rows)

FrontInv == FrontIsCurrent /\ Narrowed

\* Both parts follow from what is filled in and what is hidden.
LEMMA FrontParts ==
    ASSUME tab' = "ledger" => rows' = Listed', tab' = "statistics" => figures' = Figures',
           Narrowed'
    PROVE  FrontInv'
BY DEF FrontInv, FrontIsCurrent, Narrowed, FilterToItems

\* A step that leaves the ledger, the tab, its filter and what is shown as they are.
LEMMA NothingToRefresh ==
    ASSUME FrontInv,
           UNCHANGED <<stock, outcome, old, tab, filter, rows, hidden, figures, narrowed>>
    PROVE  FrontInv'
BY ListedSame, FiguresSame
   DEF FrontInv, FrontIsCurrent, Narrowed, FilterToItems, InBand, In, Bought

\* A step after which nothing but what was hidden before may be hidden, and no band is
\* claimed any more.
LEMMA OutgrownKeeps ==
    ASSUME FrontInv, narrowed' = Outgrown, hidden' = hidden \/ hidden' \subseteq hidden
    PROVE  Narrowed'
BY DEF FrontInv, Narrowed, Outgrown, Bands

\* A refresh of what has not changed hides what was hidden.
LEMMA RefreshedNarrowed ==
    ASSUME FrontInv, UNCHANGED <<stock, outcome, old, filter, narrowed>>,
           RefreshLedger \/ UNCHANGED <<rows, hidden>>
    PROVE  Narrowed'
<1>1. Listed' = Listed /\ InBand(narrowed)' = InBand(narrowed)
  BY ListedSame DEF InBand, In, Bought
<1>2. ASSUME narrowed \in Bands, RefreshLedger PROVE rows' = rows /\ hidden' = hidden
  <2>1. rows' = rows /\ hidden = FilterToItems(InBand(narrowed), rows)
    BY <1>1, <1>2 DEF FrontInv, Narrowed, RefreshLedger
  <2> QED BY <1>2, <2>1 DEF RefreshLedger, StillHidden, FilterToItems
<1>3. RefreshLedger => hidden' \subseteq hidden
  BY DEF RefreshLedger, StillHidden
<1> QED BY <1>1, <1>2, <1>3 DEF FrontInv, Narrowed, FilterToItems

LEMMA FrontKept == FrontInv /\ [BooksNext]_booksVars => FrontInv'
<1> SUFFICES ASSUME FrontInv, [BooksNext]_booksVars
             PROVE  FrontInv'
  OBVIOUS
<1>f. ASSUME RefreshFront, Narrowed' PROVE FrontInv'
  BY <1>f, FrontParts DEF RefreshFront, RefreshLedger, RefreshStatistics
<1>r. ASSUME RefreshLedger, RefreshStatistics, Narrowed' PROVE FrontInv'
  BY <1>r, FrontParts DEF RefreshLedger, RefreshStatistics
<1>h. RefreshLedger \/ UNCHANGED <<rows, hidden>> => hidden' \subseteq hidden
  BY DEF RefreshLedger, StillHidden
<1>1. ASSUME NEW i \in Items, Buy(i) PROVE FrontInv'
  <2>1. RefreshFront /\ narrowed' = Outgrown
    BY <1>1 DEF Buy
  <2> QED BY <2>1, <1>f, <1>h, OutgrownKeeps DEF RefreshFront
<1>2. ASSUME NEW i \in Items, Week(i) PROVE FrontInv'
  <2>1. narrowed' = Outgrown /\ UNCHANGED <<stock, outcome, tab, filter, rows, hidden, figures>>
    BY <1>2 DEF Week, shown
  <2>2. Narrowed'
    BY <2>1, OutgrownKeeps
  <2>3. /\ tab' = "ledger" => rows' = Listed'
        /\ tab' = "statistics" => figures' = Figures'
    BY <2>1, ListedSame, FiguresSame DEF FrontInv, FrontIsCurrent
  <2> QED BY <2>2, <2>3, FrontParts
<1>3. ASSUME NEW t \in Tabs, Turn(t) PROVE FrontInv'
  BY <1>3, <1>f, RefreshedNarrowed DEF Turn, RefreshFront, ledger
<1>4. ASSUME NEW f \in Filters, ChangeFilter(f) PROVE FrontInv'
  <2>1. tab' = "ledger" /\ rows' = Listed' /\ narrowed' = Outgrown /\ hidden' \subseteq hidden
    BY <1>4, <1>h DEF ChangeFilter, RefreshLedger
  <2> QED BY <2>1, FrontParts, OutgrownKeeps
<1>5. ASSUME NEW band \in Bands, ClickBand(band) PROVE FrontInv'
  <2>1. /\ tab' = "ledger" /\ rows' = Listed' /\ filter' = "In stock" /\ narrowed' = band
        /\ hidden' = FilterToItems(InBand(band), rows')
    BY <1>5 DEF ClickBand
  <2>2. InBand(band)' = InBand(band)
    BY <1>5 DEF ClickBand, ledger, InBand, In, Bought
  <2>3. Narrowed'
    BY <2>1, <2>2 DEF Narrowed, Bands
  <2> QED BY <2>1, <2>3, FrontParts
<1>6. ASSUME NEW n, OpenOutcome(n) PROVE FrontInv'
  BY <1>6, NothingToRefresh DEF OpenOutcome, ledger, shown
<1>7. CASE Settled
  <2>1. tab' = "valuation" /\ UNCHANGED <<stock, outcome, old, filter, rows, hidden, narrowed>>
    BY <1>7 DEF Settled, ledger, shown
  <2> QED BY <2>1, FrontParts, RefreshedNarrowed
<1>8. CASE RebuildProjections
  BY <1>8, <1>r, RefreshedNarrowed DEF RebuildProjections, ledger
<1>9. CASE ClearHistory
  <2>1. /\ RefreshLedger /\ RefreshStatistics
        /\ narrowed' = IF hidden' = {} THEN "all" ELSE Outgrown
    BY <1>9 DEF ClearHistory
  <2>2. CASE hidden' = {}
    BY <1>r, <2>1, <2>2 DEF Narrowed, Bands
  <2>3. CASE hidden' # {}
    BY <1>r, <1>h, <2>1, <2>3, OutgrownKeeps
  <2> QED BY <2>2, <2>3
<1>10. CASE Edit
  BY <1>10, NothingToRefresh DEF Edit, ledger, shown
<1>11. CASE Save
  BY <1>11, <1>r, <1>h, OutgrownKeeps DEF Save
<1>12. CASE Cancel
  BY <1>12, NothingToRefresh DEF Cancel, ledger, shown
<1>13. CASE UNCHANGED booksVars
  BY <1>13, NothingToRefresh DEF booksVars, ledger, shown
<1> QED
  BY <1>1, <1>2, <1>3, <1>4, <1>5, <1>6, <1>7, <1>8, <1>9, <1>10, <1>11, <1>12, <1>13
  DEF BooksNext

\* The ledger tab in front is filled with what its filter lists and hides none of it, or
\* all but the band that was clicked, until the ledger or the filter changes; the statistics
\* tab in front shows the figures of now (_on_ledger_changed, _on_tab_changed,
\* _on_bucket_clicked, filter_to_items, _open_outcome).
THEOREM FrontIsCurrentHolds == BooksSpec => []FrontIsCurrent
<1>1. BooksInit => FrontInv
  BY DEF BooksInit, FrontInv, FrontIsCurrent, Narrowed, Bands
<1>2. FrontInv => FrontIsCurrent
  BY DEF FrontInv
<1> QED BY <1>1, <1>2, FrontKept, PTL DEF BooksSpec

-----------------------------------------------------------------------------
(***************************************************************************)
(* The outcome dialog.                                                     *)
(***************************************************************************)
\* Only what has left the stock has an amount and may be taxed, and only a sale is.
Consistent(exit) ==
    /\ exit = [state |-> exit.state, gross |-> exit.gross, taxed |-> exit.taxed]
    /\ exit.state \in {"HELD", "SOLD", "KEPT"} /\ exit.taxed \in BOOLEAN
    /\ exit.state # "HELD" => exit.gross # Nothing
    /\ exit.state # "SOLD" => ~ exit.taxed

Recorded == outcome = [i \in Items |-> outcome[i]] /\ \A i \in Items : Consistent(outcome[i])

\* The dialog is as it opened until it is touched, although a settled trade may turn the
\* tab and a week may pass behind it.
AsOpened ==
    dialog # Nothing =>
        /\ {"item", "touched"} \subseteq DOMAIN dialog
        /\ dialog.item \in Items =>
               /\ {"route", "price", "taxed"} \subseteq DOMAIN dialog
               /\ dialog.route \in {"HELD", "SOLD", "KEPT"} /\ dialog.taxed \in BOOLEAN
               /\ dialog.touched \/ dialog = Opened(dialog.item)

DialogInv == Recorded /\ AsOpened

LEMMA HeldIsConsistent == Consistent(Held)
BY DEF Consistent, Held

LEMMA DialogInvInit == BooksInit => DialogInv
<1> SUFFICES ASSUME BooksInit PROVE DialogInv
  OBVIOUS
<1>1. AsOpened
  BY DEF BooksInit, AsOpened
<1>2. outcome = [i \in Items |-> Held]
  BY DEF BooksInit
<1>3. Recorded
  BY <1>2, HeldIsConsistent DEF Recorded
<1> QED BY <1>1, <1>3 DEF DialogInv

\* A step that leaves the outcomes and the dialog as they are.
LEMMA DialogSame ==
    ASSUME DialogInv, UNCHANGED <<outcome, dialog>>
    PROVE  DialogInv'
BY DEF DialogInv, Recorded, AsOpened, Opened

LEMMA OpenKeeps ==
    ASSUME DialogInv, NEW n, OpenOutcome(n)
    PROVE  DialogInv'
<1>1. UNCHANGED <<outcome, rows>> /\ dialog' = Opened(rows[n].item)
  BY DEF OpenOutcome, ledger, shown
<1> DEFINE i == rows[n].item
<1>2. Opened(i).item = i /\ {"item", "touched", "route", "price", "taxed"} \subseteq DOMAIN Opened(i)
  BY DEF Opened
<1>3. i \in Items => Opened(i).route \in {"HELD", "SOLD", "KEPT"} /\ Opened(i).taxed \in BOOLEAN
  BY DEF Opened, DialogInv, Recorded, Consistent
<1>4. Opened(i)' = Opened(i)
  BY <1>1 DEF Opened
<1> QED BY <1>1, <1>2, <1>3 DEF DialogInv, Recorded, AsOpened, Opened

LEMMA EditKeeps ==
    ASSUME DialogInv, Edit
    PROVE  DialogInv'
<1>1. outcome' = outcome /\ dialog # Nothing
  BY DEF Edit, ledger
<1>2. \/ \E route \in {"HELD", "SOLD", "KEPT"} :
              dialog' = [dialog EXCEPT !.route = route, !.touched = TRUE]
      \/ \E price : dialog' = [dialog EXCEPT !.price = price, !.touched = TRUE]
      \/ dialog' = [dialog EXCEPT !.taxed = ~ @, !.touched = TRUE]
  BY Zenon DEF Edit
<1>3. DOMAIN dialog' = DOMAIN dialog /\ {"item", "touched"} \subseteq DOMAIN dialog
  BY <1>1, <1>2 DEF DialogInv, AsOpened
<1>4. dialog'.item = dialog.item /\ dialog'.touched
  BY <1>2, <1>3
<1>5. dialog.item \in Items =>
          /\ {"route", "price", "taxed"} \subseteq DOMAIN dialog'
          /\ dialog'.route \in {"HELD", "SOLD", "KEPT"} /\ dialog'.taxed \in BOOLEAN
  <2> SUFFICES ASSUME dialog.item \in Items
               PROVE  /\ {"route", "price", "taxed"} \subseteq DOMAIN dialog'
                      /\ dialog'.route \in {"HELD", "SOLD", "KEPT"} /\ dialog'.taxed \in BOOLEAN
    OBVIOUS
  <2>1. /\ {"route", "price", "taxed"} \subseteq DOMAIN dialog
        /\ dialog.route \in {"HELD", "SOLD", "KEPT"} /\ dialog.taxed \in BOOLEAN
    BY <1>1 DEF DialogInv, AsOpened
  <2> QED BY <1>2, <1>3, <2>1
<1>6. AsOpened'
  BY <1>1, <1>3, <1>4, <1>5 DEF AsOpened
<1> QED BY <1>1, <1>6 DEF DialogInv, Recorded

\* What is saved has an amount, unless the item goes back into stock.
LEMMA SaveKeeps ==
    ASSUME DialogInv, Save
    PROVE  DialogInv'
<1>1. /\ dialog # Nothing /\ dialog' = Nothing
      /\ dialog.route = "HELD" \/ dialog.price # Nothing
      /\ outcome' = [outcome EXCEPT ![dialog.item] = Chosen(dialog)]
  BY DEF Save
<1>2. outcome = [i \in Items |-> outcome[i]] /\ DOMAIN outcome = Items
  BY <1>1 DEF DialogInv, Recorded
<1>3. ASSUME NEW i \in Items
      PROVE  outcome'[i] = IF i = dialog.item THEN Chosen(dialog) ELSE outcome[i]
  BY <1>1, <1>2
<1>4. dialog.item \in Items => dialog.route \in {"HELD", "SOLD", "KEPT"} /\ dialog.taxed \in BOOLEAN
  BY <1>1 DEF DialogInv, AsOpened
<1>5. dialog.item \in Items => Consistent(Chosen(dialog))
  <2>1. CASE dialog.route = "HELD"
    BY <2>1, HeldIsConsistent DEF Chosen
  <2>2. CASE dialog.route # "HELD"
    BY <1>1, <1>4, <2>2 DEF Consistent, Chosen
  <2> QED BY <2>1, <2>2
<1>6. outcome' = [i \in Items |-> outcome'[i]]
  BY <1>1, <1>2
<1>7. Recorded'
  BY <1>3, <1>5, <1>6 DEF DialogInv, Recorded
<1> QED BY <1>1, <1>7 DEF DialogInv, AsOpened

LEMMA ClearKeeps ==
    ASSUME DialogInv, ClearHistory
    PROVE  DialogInv'
<1>1. dialog' = Nothing /\ outcome' = [i \in Items |-> Held]
  BY DEF ClearHistory
<1>2. Recorded'
  BY <1>1, HeldIsConsistent DEF Recorded
<1> QED BY <1>1, <1>2 DEF DialogInv, AsOpened

LEMMA DialogInvNext == DialogInv /\ [BooksNext]_booksVars => DialogInv'
<1> SUFFICES ASSUME DialogInv, [BooksNext]_booksVars
             PROVE  DialogInv'
  OBVIOUS
<1>1. CASE \E i \in Items : Buy(i) \/ Week(i)
  BY <1>1, DialogSame DEF Buy, Week
<1>2. CASE \E t \in Tabs : Turn(t)
  BY <1>2, DialogSame DEF Turn, ledger
<1>3. CASE \E f \in Filters : ChangeFilter(f)
  BY <1>3, DialogSame DEF ChangeFilter, ledger
<1>4. CASE \E band \in Bands : ClickBand(band)
  BY <1>4, DialogSame DEF ClickBand, ledger
<1>5. CASE \E n \in 1 .. Len(rows) : OpenOutcome(n)
  BY <1>5, OpenKeeps
<1>6. CASE Settled \/ RebuildProjections
  BY <1>6, DialogSame DEF Settled, RebuildProjections, ledger
<1>7. CASE Cancel
  BY <1>7 DEF Cancel, ledger, DialogInv, Recorded, AsOpened
<1>8. CASE UNCHANGED booksVars
  BY <1>8, DialogSame DEF booksVars, ledger
<1> QED
  BY <1>1, <1>2, <1>3, <1>4, <1>5, <1>6, <1>7, <1>8, EditKeeps, SaveKeeps, ClearKeeps
  DEF BooksNext

LEMMA DialogInvHolds == BooksSpec => []DialogInv
BY DialogInvInit, DialogInvNext, PTL DEF BooksSpec

\* Opening an outcome and saving it untouched records what was on record
\* (OutcomeDialog.__init__, _on_save).
THEOREM SavedAsItWasHolds == BooksSpec => SavedAsItWas
<1>1. ASSUME DialogInv, Save, NEW i \in Items, dialog.item = i, ~ dialog.touched,
             outcome[i].state # "HELD", outcome[i].gross # 0
      PROVE  outcome' = outcome
  <2>1. dialog # Nothing /\ outcome' = [outcome EXCEPT ![i] = Chosen(dialog)]
    BY <1>1 DEF Save
  <2>2. dialog = Opened(i)
    BY <1>1, <2>1 DEF DialogInv, AsOpened
  <2>3. outcome = [j \in Items |-> outcome[j]] /\ Consistent(outcome[i])
    BY <1>1 DEF DialogInv, Recorded
  <2>4. /\ dialog.route = outcome[i].state /\ dialog.price = outcome[i].gross
        /\ (dialog.route = "SOLD" /\ dialog.taxed) = outcome[i].taxed
    BY <1>1, <2>2, <2>3 DEF Consistent, Opened
  <2>5. Chosen(dialog) = outcome[i]
    BY <1>1, <2>3, <2>4 DEF Consistent, Chosen
  <2> QED BY <2>1, <2>3, <2>5
<1>2. DialogInv /\ [BooksNext]_booksVars =>
          [\A i \in Items :
              Save /\ dialog.item = i /\ ~ dialog.touched
                   /\ outcome[i].state # "HELD" /\ outcome[i].gross # 0
                => outcome' = outcome]_booksVars
  BY <1>1
<1> QED BY <1>2, DialogInvHolds, PTL DEF BooksSpec, SavedAsItWas

=============================================================================
