---------------------------- MODULE ScreenProofs ----------------------------
(***************************************************************************)
(* Proofs about the two screens the user works in, the valuation and the   *)
(* configuration, which share no variable.                                 *)
(*                                                                         *)
(* The valuation (Desk.tla): whatever the order in which selections,       *)
(* valuations that come late, signals and clicks follow each other, the    *)
(* window ends up showing what the controller has, and a rung that is      *)
(* expanded is an offer that was made. Two lists of items are compared     *)
(* that are updated by different threads, so the invariant speaks of what  *)
(* is still in the queue: the last list on its way, the prices behind it,  *)
(* and the last signal that sets the total.                                *)
(*                                                                         *)
(* The configuration (Config.tla): what holds of its three editors for     *)
(* every file a user may leave, every text that is typed and every answer  *)
(* of the bazaar.                                                          *)
(***************************************************************************)
EXTENDS Desk, Config, LogInduction, SequenceTheorems


-----------------------------------------------------------------------------
(***************************************************************************)
(* What the window does to its screen, field by field.                     *)
(***************************************************************************)
\* What a screen is made of.
LEMMA ScreenFields ==
    ASSUME NEW s \in Screen
    PROVE  /\ s.rows \in Chosen /\ s.figures \in [Places -> Item \cup {None}]
           /\ s.selected \in 0..MaxItems /\ s.rungs \in Ladder \cup {None}
           /\ s.expanded \in Rungs \cup {None} /\ s.known \in [Places -> Item \cup {None}]
           /\ s.total \in Total
  BY DEF Screen, Total

\* What an item is made of.
LEMMA ItemFields ==
    ASSUME NEW i \in Item
    PROVE  /\ i[1] \in Generations /\ i[2] \in Places /\ i = <<i[1], i[2]>>
           /\ i[1] \in Nat /\ i[2] \in Nat /\ i[1] >= 1 /\ i[2] >= 1
  BY DeskAssumption DEF Item, Generations, Places

\* A price is shown: its row gets the figure if there is such a row, and the ladder
\* follows if it is the row that is selected.
LEMMA ShowingFields ==
    ASSUME NEW s \in Screen, NEW i \in Item, NEW basis \in Basis
    PROVE  LET t == Showing(s, i, basis)
           IN /\ t \in Screen /\ t.rows = s.rows /\ t.selected = s.selected /\ t.total = s.total
              /\ t.figures = [p \in Places |->
                    IF p = i[2] /\ i[2] <= s.rows.size THEN i ELSE s.figures[p]]
              /\ t.rungs = IF i[2] = s.selected THEN [item |-> i, basis |-> basis] ELSE s.rungs
              /\ t.expanded = IF i[2] = s.selected THEN None ELSE s.expanded
<1> DEFINE f == Figured(s, i)
<1>1. i[2] \in Places
  BY ItemFields
<1>2. /\ f \in Screen /\ f.rows = s.rows /\ f.selected = s.selected /\ f.total = s.total
      /\ f.rungs = s.rungs /\ f.expanded = s.expanded
      /\ f.figures = [p \in Places |->
            IF p = i[2] /\ i[2] <= s.rows.size THEN i ELSE s.figures[p]]
  BY <1>1 DEF Figured, Screen
<1>3. [item |-> i, basis |-> basis] \in Ladder
  BY DEF Ladder
<1>4. CASE i[2] = s.selected
  <2> DEFINE t == LadderShown(f, i, basis)
  <2>1. Showing(s, i, basis) = t
    BY <1>4 DEF Showing
  <2> HIDE DEF f
  <2>2. /\ t \in Screen /\ t.rows = f.rows /\ t.selected = f.selected /\ t.total = f.total
        /\ t.figures = f.figures /\ t.rungs = [item |-> i, basis |-> basis]
        /\ t.expanded = None
    BY <1>2, <1>3 DEF LadderShown, Screen
  <2> QED BY <1>2, <1>4, <2>1, <2>2
<1>5. CASE i[2] # s.selected
  <2>1. Showing(s, i, basis) = f
    BY <1>5 DEF Showing
  <2> HIDE DEF f
  <2> QED BY <1>2, <1>5, <2>1
<1> QED
  BY <1>4, <1>5

\* A row that has no price yet.
LEMMA PendingFields ==
    ASSUME NEW s \in Screen, NEW place \in Places
    PROVE  LET t == ShownPending(s, place)
           IN /\ t \in Screen /\ t.rows = s.rows /\ t.selected = s.selected /\ t.total = s.total
              /\ t.figures = [p \in Places |-> IF p = place THEN None ELSE s.figures[p]]
              /\ t.rungs = s.rungs /\ t.expanded = s.expanded
  BY DEF ShownPending, Screen

\* Turning to another place: the ladder of the item there is shown if it has one.
LEMMA TurnedFields ==
    ASSUME DeskTypeOK, NEW s \in Screen, NEW place \in Places, place # s.selected
    PROVE  LET t == TurnedTo(s, place)
               i == Listed(place)
               priced == place <= items.size /\ i \in valued /\ ladder[i] # None
           IN /\ t \in Screen /\ t.rows = s.rows /\ t.selected = place /\ t.total = s.total
              /\ t.expanded = None
              /\ \A p \in Places \ {place} : t.figures[p] = s.figures[p]
              /\ priced => t.rungs = [item |-> i, basis |-> ladder[i]]
              /\ priced => t.figures[place] = IF place <= s.rows.size THEN i ELSE s.figures[place]
              /\ place <= items.size /\ ~ priced => t.figures[place] = None
<1> DEFINE u == [s EXCEPT !.selected = place, !.expanded = None]
           i == Listed(place)
           t == TurnedTo(s, place)
<1>1. t = ShownAt(u, place)
  BY DEF TurnedTo
<1>2. /\ u \in Screen /\ u.rows = s.rows /\ u.selected = place /\ u.total = s.total
      /\ u.figures = s.figures /\ u.rungs = s.rungs /\ u.expanded = None
  <2>1. place \in 0..MaxItems
    BY DeskAssumption DEF Places
  <2> QED BY <2>1 DEF Screen
<1> HIDE DEF u, t
<1>3. CASE place > items.size
  <2>1. t = u
    BY <1>1, <1>3 DEF ShownAt
  <2>2. ~ place <= items.size
    BY <1>3, DeskAssumption DEF DeskTypeOK, Chosen, Places
  <2> QED BY <1>2, <2>1, <2>2 DEF t
<1>4. CASE ~ place > items.size /\ i \in valued /\ ladder[i] # None
  <2>1. t = Showing(u, i, ladder[i])
    BY <1>1, <1>4 DEF ShownAt
  <2>2. i \in Item /\ ladder[i] \in Basis /\ i[2] = place
    BY <1>4 DEF DeskTypeOK, Listed
  <2>3. /\ t \in Screen /\ t.rows = u.rows /\ t.selected = u.selected /\ t.total = u.total
        /\ t.figures = [p \in Places |->
              IF p = place /\ place <= u.rows.size THEN i ELSE u.figures[p]]
        /\ t.rungs = [item |-> i, basis |-> ladder[i]]
        /\ t.expanded = None
    BY <1>2, <2>1, <2>2, ShowingFields
  <2> QED BY <1>2, <1>4, <2>3 DEF t
<1>5. CASE ~ place > items.size /\ ~ (i \in valued /\ ladder[i] # None)
  <2>1. t = ShownPending(u, place)
    BY <1>1, <1>5 DEF ShownAt
  <2>2. /\ t \in Screen /\ t.rows = u.rows /\ t.selected = u.selected /\ t.total = u.total
        /\ t.figures = [p \in Places |-> IF p = place THEN None ELSE u.figures[p]]
        /\ t.rungs = u.rungs /\ t.expanded = u.expanded
    BY <1>2, <2>1, PendingFields
  <2> QED BY <1>2, <1>5, <2>2 DEF t
<1> QED
  BY <1>3, <1>4, <1>5

\* Another list: its first item is turned to, and no other has a figure.
LEMMA RelistedFields ==
    ASSUME DeskTypeOK, NEW s \in Screen, NEW told \in Chosen
    PROVE  LET t == Relisted(s, told)
               i == Listed(1)
               priced == 1 <= items.size /\ i \in valued /\ ladder[i] # None
           IN /\ t \in Screen /\ t.rows = told /\ t.total = None /\ t.expanded = None
              /\ t.selected = IF told.size > 0 THEN 1 ELSE 0
              /\ \A p \in Places \ {1} : t.figures[p] = None
              /\ told.size > 0 /\ priced => /\ t.rungs = [item |-> i, basis |-> ladder[i]]
                                            /\ t.figures[1] = i
              /\ ~ (told.size > 0 /\ priced) => t.figures[1] = None
<1> DEFINE blank == [s EXCEPT !.known = [p \in Places |-> None]]
           bare == [blank EXCEPT !.rows = told, !.figures = [p \in Places |-> None],
                                 !.selected = 0, !.total = None]
           t == Relisted(s, told)
<1>1. 1 \in Places /\ told.size \in 0..MaxItems
  BY DeskAssumption DEF Places, Chosen
<1>2. /\ bare \in Screen /\ bare.rows = told /\ bare.selected = 0 /\ bare.total = None
      /\ bare.figures = [p \in Places |-> None]
  <2>1. blank \in Screen
    BY DEF Screen
  <2> HIDE DEF blank
  <2>2. 0 \in 0..MaxItems
    BY DeskAssumption
  <2> QED BY <2>1, <2>2 DEF Screen, Total
<1> HIDE DEF blank
<1>3. CASE told.size > 0
  <2>1. t = TurnedTo(bare, 1)
    BY <1>3 DEF Relisted, Filled, blank
  <2> HIDE DEF bare, t
  <2>2. 1 # bare.selected /\ 1 <= told.size
    BY <1>1, <1>2, <1>3
  <2> DEFINE i == Listed(1)
             priced == 1 <= items.size /\ i \in valued /\ ladder[i] # None
  <2>3. /\ t \in Screen /\ t.rows = told /\ t.selected = 1 /\ t.total = None
        /\ t.expanded = None
        /\ \A p \in Places \ {1} : t.figures[p] = bare.figures[p]
        /\ priced => t.rungs = [item |-> i, basis |-> ladder[i]]
        /\ priced => t.figures[1] = IF 1 <= bare.rows.size THEN i ELSE bare.figures[1]
        /\ 1 <= items.size /\ ~ priced => t.figures[1] = None
    BY <1>1, <1>2, <2>1, <2>2, TurnedFields
  <2>4. \A p \in Places : bare.figures[p] = None
    BY <1>2
  <2>5. ~ 1 <= items.size => t.figures[1] = None
    <3>1. items.size \in Nat
      BY DeskAssumption DEF DeskTypeOK, Chosen
    <3> SUFFICES ASSUME items.size = 0 PROVE t.figures[1] = None
      BY <3>1
    <3>2. t = [bare EXCEPT !.selected = 1, !.expanded = None]
      BY <1>2, <2>1, <2>2 DEF TurnedTo, ShownAt
    <3>3. t.figures = bare.figures
      BY <1>2, <3>2 DEF Screen
    <3> QED BY <1>1, <2>4, <3>3
  <2> QED BY <1>1, <1>2, <1>3, <2>2, <2>3, <2>4, <2>5 DEF t
<1>4. CASE ~ told.size > 0
  <2>1. t = [bare EXCEPT !.rungs = None, !.expanded = None]
    BY <1>4 DEF Relisted, Filled, blank
  <2> HIDE DEF bare, t
  <2>2. /\ t \in Screen /\ t.rows = told /\ t.selected = 0 /\ t.total = None
        /\ t.figures = [p \in Places |-> None] /\ t.expanded = None
    BY <1>2, <2>1 DEF Screen
  <2> QED BY <1>1, <1>4, <2>2 DEF t
<1> QED
  BY <1>3, <1>4

-----------------------------------------------------------------------------
(***************************************************************************)
(* Types.                                                                  *)
(***************************************************************************)
\* What the asyncio thread may be in the middle of.
LEMMA DoingFields ==
    ASSUME NEW x \in Doing
    PROVE  /\ x.at \in {"idle", "listing", "pricing"} /\ x.at = "idle" <=> x = Idle
           /\ x.at = "pricing" => x.item \in Item /\ x.basis \in Basis
  BY DEF Doing, Idle

\* What each kind of signal carries.
LEMMA SignalFields ==
    ASSUME NEW x \in Signal
    PROVE  /\ x.kind \in {"selection_changed", "item_valued", "settled_trade"}
           /\ x.kind = "selection_changed" => x.rows \in Chosen
           /\ x.kind = "item_valued" => x.item \in Item /\ x.ladder \in Basis /\ x.total \in Total
           /\ x.kind = "settled_trade" => x.place \in Places
  BY DEF Signal

\* A total is none, or the estimates of some items.
LEMMA CountedIsTotal ==
    ASSUME DeskTypeOK, NEW typed
    PROVE  Counted(typed) \in Total
<1> DEFINE priced == {i \in valued : i[1] = items.of}
           t == [i \in priced |-> IF i \in typed THEN "manual" ELSE "market"]
<1>1. priced \in SUBSET Item
  BY DEF DeskTypeOK
<1>2. t \in [priced -> Basis]
  BY DEF Basis
<1>3. t \in UNION {[s -> Basis] : s \in SUBSET Item}
  <2> HIDE DEF t, priced
  <2> QED BY <1>1, <1>2
<1>4. Counted(typed) \in {None, t}
  BY DEF Counted
<1> HIDE DEF t
<1> QED
  BY <1>3, <1>4 DEF Total

\* The item at a place of the list.
LEMMA ListedIsItem ==
    ASSUME DeskTypeOK, NEW place \in 1..items.size, items.of # 0
    PROVE  Listed(place) \in Item /\ Listed(place)[1] = items.of /\ Listed(place)[2] = place
  BY DeskAssumption DEF Listed, Item, DeskTypeOK, Chosen, Generations, Places

\* An offer leaves sessions.
LEMMA OfferedIsSessions ==
    ASSUME DeskTypeOK, NEW f \in [Item -> Session \cup {None}], NEW rung \in Rungs,
           screen.rungs # None
    PROVE  Offered(f, rung) \in [Item -> Session \cup {None}]
<1> DEFINE q == [of |-> screen.rungs.item, rung |-> rung]
           about == Listed(screen.selected)
<1>1. q \in Quoted
  BY DEF Quoted, DeskTypeOK, Screen, Ladder
<1>2. CASE OnTable /\ Key \in Item
  <2> HIDE DEF q
  <2>1. about \in Item
    BY <1>2 DEF OnTable, DeskTypeOK
  <2> HIDE DEF about
  <2>2. [about |-> about, open |-> TRUE, offer |-> q] \in Session
    BY <1>1, <2>1 DEF Session
  <2>3. f[Key] # None => [f[Key] EXCEPT !.offer = q] \in Session
    <3>1. f[Key] # None => f[Key] \in Session
      BY <1>2
    <3> QED BY <1>1, <3>1 DEF Session
  <2>4. Offered(f, rung) = [f EXCEPT ![Key] =
           IF f[Key] = None \/ ~ f[Key].open THEN [about |-> about, open |-> TRUE, offer |-> q]
           ELSE [f[Key] EXCEPT !.offer = q]]
    BY <1>2 DEF Offered, q, about
  <2> HIDE DEF Key
  <2> QED BY <1>2, <2>2, <2>3, <2>4
<1>3. CASE ~ OnTable
  BY <1>3 DEF Offered
<1>4. CASE Key \notin Item
  BY <1>4 DEF Offered
<1> QED
  BY <1>2, <1>3, <1>4

\* So does an offer that is turned down.
LEMMA RefusedIsSessions ==
    ASSUME NEW f \in [Item -> Session \cup {None}]
    PROVE  Refused(f) \in [Item -> Session \cup {None}]
<1>1. CASE Key \in Item /\ f[Key] # None
  <2>1. [f[Key] EXCEPT !.offer = None] \in Session
    <3>1. f[Key] \in Session
      BY <1>1
    <3> QED BY <3>1 DEF Session
  <2>2. Refused(f) = [f EXCEPT ![Key] = [f[Key] EXCEPT !.offer = None]]
    BY <1>1 DEF Refused
  <2> HIDE DEF Key
  <2> QED BY <1>1, <2>1, <2>2
<1>2. CASE ~ (Key \in Item /\ f[Key] # None)
  BY <1>2 DEF Refused
<1> QED
  BY <1>1, <1>2

\* And a sale that is confirmed.
LEMMA ConfirmedIsSessions ==
    ASSUME NEW f \in [Item -> Session \cup {None}]
    PROVE  Confirmed(f) \in [Item -> Session \cup {None}]
<1>1. CASE OnTable /\ f[Key] # None /\ Key \in Item
  <2>1. [f[Key] EXCEPT !.open = FALSE, !.offer = None] \in Session
    <3>1. f[Key] \in Session
      BY <1>1
    <3> QED BY <3>1 DEF Session
  <2>2. Confirmed(f) = [f EXCEPT ![Key] = [f[Key] EXCEPT !.open = FALSE, !.offer = None]]
    BY <1>1 DEF Confirmed
  <2> HIDE DEF Key
  <2> QED BY <1>1, <2>1, <2>2
<1>2. CASE ~ (OnTable /\ f[Key] # None /\ Key \in Item)
  BY <1>2 DEF Confirmed
<1> QED
  BY <1>1, <1>2

\* Every step keeps the types. The generation is not 0 once a selection has come, so the
\* items that are listed for it are items.
LEMMA DeskTypeKept ==
    ASSUME DeskTypeOK, [Next]_vars, net.at = "listing" => generation # 0
    PROVE  DeskTypeOK'
<1> USE DEF controller, thread, window
<1>0. /\ MaxItems \in Nat \ {0} /\ MaxSelections \in Nat /\ Idle \in Doing
      /\ [at |-> "listing"] \in Doing
  BY DeskAssumption DEF Doing
<1>1. ASSUME NEW n \in 0..MaxItems, Pick(n) PROVE DeskTypeOK'
  BY <1>0, <1>1 DEF Pick, DeskTypeOK
<1>2. CASE List
  <2>1. [of |-> generation, size |-> picked] \in Chosen
    BY DEF DeskTypeOK, Chosen
  <2>2. [kind |-> "selection_changed", rows |-> items'] \in Signal
    BY <1>2, <2>1 DEF List, Signal
  <2>3. queue' \in Seq(Signal)
    BY <1>2, <2>2 DEF List, DeskTypeOK
  <2>4. inflight' \subseteq Item
    <3>1. generation \in Generations /\ inflight \subseteq Item /\ picked \in 0..MaxItems
      BY <1>0, <1>2 DEF List, DeskTypeOK, Generations
    <3>2. \A p \in 1..picked : <<generation, p>> \in Item
      BY <1>0, <3>1 DEF Item, Places
    <3> QED BY <1>2, <3>1, <3>2 DEF List
  <2> QED BY <1>0, <1>2, <2>1, <2>3, <2>4 DEF List, DeskTypeOK
<1>3. ASSUME NEW i \in Item, Value(i) PROVE DeskTypeOK'
  <2>1. net' \in Doing
    BY <1>3 DEF Value, Doing, Basis
  <2> QED BY <1>3, <2>1 DEF Value, DeskTypeOK
<1>4. ASSUME NEW i \in Item, Drop(i) \/ Fail(i) PROVE DeskTypeOK'
  BY <1>4 DEF Drop, Fail, DeskTypeOK
<1>5. CASE Quote
  <2>1. net.item \in Item /\ net.basis \in Basis
    BY <1>5, DoingFields DEF Quote, DeskTypeOK
  <2>2. Counted(manual) \in Total
    BY CountedIsTotal
  <2>3. [kind |-> "item_valued", item |-> net.item, ladder |-> net.basis,
         total |-> Counted(manual)] \in Signal
    BY <2>1, <2>2 DEF Signal
  <2>4. queue' \in Seq(Signal)
    BY <1>5, <2>3 DEF Quote, DeskTypeOK
  <2>5. ladder' \in [Item -> Basis \cup {None}]
    BY <1>5, <2>1 DEF Quote, DeskTypeOK
  <2> QED BY <1>0, <1>5, <2>4, <2>5 DEF Quote, DeskTypeOK
<1>6. ASSUME NEW place \in Places, Settle(place) PROVE DeskTypeOK'
  <2>1. [kind |-> "settled_trade", place |-> place] \in Signal
    BY DEF Signal
  <2>2. queue' \in Seq(Signal)
    BY <1>6, <2>1 DEF Settle, DeskTypeOK
  <2> QED BY <1>6, <2>2 DEF Settle, DeskTypeOK
<1>7. CASE Deliver
  <2>1. Head(queue) \in Signal /\ queue' \in Seq(Signal) /\ screen \in Screen
    BY <1>7 DEF Deliver, DeskTypeOK
  <2>2. screen' \in Screen
    <3>1. CASE Head(queue).kind = "selection_changed"
      <4>1. screen' = Relisted(screen, Head(queue).rows)
        BY <1>7, <3>1 DEF Deliver
      <4> QED BY <2>1, <3>1, <4>1, SignalFields, RelistedFields
    <3>2. CASE Head(queue).kind = "item_valued"
      <4> DEFINE x == Head(queue)
                 t == Showing(screen, x.item, x.ladder)
      <4>1. screen' = [t EXCEPT !.total = x.total]
        BY <1>7, <3>2 DEF Deliver
      <4>2. x.total \in Total /\ t \in Screen
        BY <2>1, <3>2, SignalFields, ShowingFields
      <4> HIDE DEF x, t
      <4> QED BY <4>1, <4>2 DEF Screen, Total
    <3>3. CASE Head(queue).kind = "settled_trade"
      <4>1. screen' = TurnedTo(screen, Head(queue).place) /\ Head(queue).place \in Places
        BY <1>7, <2>1, <3>3, SignalFields DEF Deliver, SettledAt
      <4>2. CASE Head(queue).place = screen.selected
        BY <2>1, <4>1, <4>2 DEF TurnedTo
      <4>3. CASE Head(queue).place # screen.selected
        BY <2>1, <4>1, <4>3, TurnedFields
      <4> QED BY <4>2, <4>3
    <3> QED BY <2>1, <3>1, <3>2, <3>3, SignalFields
  <2> QED BY <1>7, <2>1, <2>2 DEF Deliver, DeskTypeOK
<1>8. ASSUME NEW place \in Places, Turn(place) PROVE DeskTypeOK'
  <2>1. screen' \in Screen
    <3>1. screen' = TurnedTo(screen, place) /\ screen \in Screen
      BY <1>8 DEF Turn, DeskTypeOK
    <3>2. CASE place = screen.selected
      BY <3>1, <3>2 DEF TurnedTo
    <3>3. CASE place # screen.selected
      BY <3>1, <3>3, TurnedFields
    <3> QED BY <3>2, <3>3
  <2> QED BY <1>8, <2>1 DEF Turn, Click, DeskTypeOK
<1>9. \A x \in Rungs \cup {None} : [screen EXCEPT !.expanded = x] \in Screen
  BY DEF DeskTypeOK, Screen
<1>10. CASE Fold
  BY <1>9, <1>10 DEF Fold, Click, DeskTypeOK
<1>11. ASSUME NEW rung \in Rungs, Offer(rung) PROVE DeskTypeOK'
  <2>1. sessions' \in [Item -> Session \cup {None}]
    <3>1. sessions \in [Item -> Session \cup {None}] /\ screen.rungs # None
      BY <1>11 DEF DeskTypeOK, Offer
    <3> QED BY <1>11, <3>1, RefusedIsSessions, OfferedIsSessions DEF Offer
  <2> QED BY <1>9, <1>11, <2>1 DEF Offer, Click, DeskTypeOK
<1>12. CASE Reject
  <2>1. sessions' \in [Item -> Session \cup {None}]
    BY <1>12, RefusedIsSessions DEF Reject, DeskTypeOK
  <2> QED BY <1>9, <1>12, <2>1 DEF Reject, Click, DeskTypeOK
<1>13. CASE Confirm
  <2>1. sessions' \in [Item -> Session \cup {None}]
    BY <1>13, ConfirmedIsSessions DEF Confirm, DeskTypeOK
  <2> QED BY <1>9, <1>13, <2>1 DEF Confirm, Click, DeskTypeOK
<1>14. CASE OpenBreakdown
  <2>1. dialog' \in [index : Places, item : Item]
    <3>1. screen.selected \in 0..MaxItems /\ screen.known \in [Places -> Item \cup {None}]
      BY DEF DeskTypeOK, Screen
    <3>2. screen.selected \in Places
      BY <1>0, <1>14, <3>1 DEF OpenBreakdown, Places
    <3> QED BY <1>14, <3>1, <3>2 DEF OpenBreakdown
  <2> QED BY <1>14, <2>1 DEF OpenBreakdown, Click, DeskTypeOK
<1>15. CASE CloseBreakdown
  BY <1>15 DEF CloseBreakdown, DeskTypeOK
<1>16. ASSUME NEW typed \in BOOLEAN, Override(typed) PROVE DeskTypeOK'
  <2> DEFINE i == Listed(dialog.index)
             basis == IF typed THEN "manual" ELSE "market"
  <2>1. CASE dialog.index <= items.size /\ i \in valued
    <3>1. /\ manual' = IF typed THEN manual \cup {i} ELSE manual \ {i}
          /\ ladder' = [ladder EXCEPT ![i] = basis]
          /\ screen' = [Showing(screen, i, ladder'[i]) EXCEPT !.total = Counted(manual')]
      BY <1>16, <2>1 DEF Override, Reestimate
    <3>2. i \in Item /\ basis \in Basis
      BY <2>1 DEF DeskTypeOK, Basis
    <3> HIDE DEF i, basis
    <3>3. ladder' \in [Item -> Basis \cup {None}] /\ ladder'[i] = basis
      BY <3>1, <3>2 DEF DeskTypeOK
    <3> DEFINE t == Showing(screen, i, basis)
    <3>4. t \in Screen
      BY <3>2, ShowingFields DEF DeskTypeOK
    <3>5. Counted(manual') \in Total
      BY CountedIsTotal
    <3>6. screen' = [t EXCEPT !.total = Counted(manual')]
      BY <3>1, <3>3
    <3> HIDE DEF t
    <3>7. screen' \in Screen
      BY <3>4, <3>5, <3>6 DEF Screen, Total
    <3>8. manual' \subseteq valued
      BY <2>1, <3>1 DEF DeskTypeOK, i
    <3> QED BY <1>16, <3>3, <3>7, <3>8 DEF Override, DeskTypeOK
  <2>2. CASE ~ (dialog.index <= items.size /\ i \in valued)
    <3>1. UNCHANGED <<manual, ladder, overruled, screen>>
      BY <1>16, <2>2 DEF Override, Reestimate
    <3> QED BY <1>16, <3>1 DEF Override, DeskTypeOK
  <2> QED BY <2>1, <2>2
<1>17. CASE UNCHANGED vars
  BY <1>17 DEF vars, DeskTypeOK
<1> QED
  BY <1>1, <1>2, <1>3, <1>4, <1>5, <1>6, <1>7, <1>8, <1>10, <1>11, <1>12, <1>13, <1>14, <1>15,
     <1>16, <1>17 DEF Next, Net

-----------------------------------------------------------------------------
(***************************************************************************)
(* The signals on their way to the window.                                 *)
(***************************************************************************)
Lists(n)  == queue[n].kind = "selection_changed"
Values(n) == queue[n].kind = "item_valued"

\* A list is on its way, and the last of those is R.
Relisting == \E n \in DOMAIN queue : Lists(n)
RelistsTo(R) ==
    \A n \in DOMAIN queue :
        Lists(n) /\ (\A m \in DOMAIN queue : Lists(m) => m <= n) => queue[n].rows = R

\* The price of an item is on its way, after every list.
Arriving(i) ==
    \E n \in DOMAIN queue : /\ Values(n) /\ queue[n].item = i
                            /\ \A m \in DOMAIN queue : Lists(m) => m < n

\* The last signal that sets the total sets it to T; there is none.
LastOf(n) == \A m \in DOMAIN queue : Lists(m) \/ Values(m) => m <= n
Totals(T) ==
    \A n \in DOMAIN queue : LastOf(n) =>
        /\ Values(n) => queue[n].total = T
        /\ Lists(n) => T = None
Untotalled == \A n \in DOMAIN queue : ~ Lists(n) /\ ~ Values(n)

\* Positions after a signal has been added.
LEMMA QueueGrows ==
    ASSUME DeskTypeOK, NEW x, queue' = Append(queue, x)
    PROVE  /\ DOMAIN queue' = DOMAIN queue \cup {Len(queue) + 1}
           /\ Len(queue) + 1 \in Nat /\ queue'[Len(queue) + 1] = x
           /\ \A n \in DOMAIN queue : n \in Nat /\ n < Len(queue) + 1 /\ queue'[n] = queue[n]
<1>1. queue \in Seq(Signal) /\ Len(queue) \in Nat
  BY DEF DeskTypeOK
<1>2. DOMAIN queue' = 1..Len(queue) + 1
  BY <1>1
<1>3. queue'[Len(queue) + 1] = x
  BY <1>1
<1>4. \A n \in DOMAIN queue : n \in Nat /\ n < Len(queue) + 1 /\ queue'[n] = queue[n]
  BY <1>1
<1> QED
  BY <1>1, <1>2, <1>3, <1>4

\* Positions after one has been delivered.
LEMMA QueueShrinks ==
    ASSUME DeskTypeOK, queue # <<>>, queue' = Tail(queue)
    PROVE  /\ 1 \in DOMAIN queue /\ queue[1] = Head(queue) /\ Head(queue) \in Signal
           /\ \A n \in DOMAIN queue : n \in Nat /\ n >= 1
           /\ \A n \in DOMAIN queue : n # 1 => \E m \in DOMAIN queue' : n = m + 1
           /\ \A n \in DOMAIN queue' : /\ n \in Nat /\ n + 1 \in DOMAIN queue /\ n >= 1
                                       /\ queue'[n] = queue[n + 1]
<1>1. queue \in Seq(Signal) /\ Len(queue) \in Nat /\ Len(queue) # 0
  BY DEF DeskTypeOK
<1>2. DOMAIN queue' = 1..Len(queue) - 1
  BY <1>1
<1>3. ASSUME NEW n \in DOMAIN queue, n # 1 PROVE \E m \in DOMAIN queue' : n = m + 1
  <2>1. n - 1 \in DOMAIN queue' /\ n = (n - 1) + 1
    BY <1>1, <1>2, <1>3
  <2> QED BY <2>1
<1>4. \A n \in DOMAIN queue' : queue'[n] = queue[n + 1]
  BY <1>1
<1> QED
  BY <1>1, <1>2, <1>3, <1>4

\* A trade that is queued changes nothing of the lists and the prices that wait.
LEMMA SettledAdded ==
    ASSUME DeskTypeOK, NEW x, queue' = Append(queue, x), x.kind = "settled_trade"
    PROVE  /\ Relisting' = Relisting /\ Untotalled' = Untotalled
           /\ \A i : Arriving(i)' = Arriving(i)
           /\ \A R : RelistsTo(R) => RelistsTo(R)'
           /\ \A T : Totals(T) => Totals(T)'
<1>1. \A n \in DOMAIN queue' : Lists(n)' => n \in DOMAIN queue /\ Lists(n)
  BY QueueGrows DEF Lists
<1>2. \A n \in DOMAIN queue' : Values(n)' => n \in DOMAIN queue /\ Values(n)
  BY QueueGrows DEF Values
<1>3. \A n \in DOMAIN queue : /\ n \in DOMAIN queue' /\ queue'[n] = queue[n]
                              /\ Lists(n)' = Lists(n) /\ Values(n)' = Values(n)
  BY QueueGrows DEF Lists, Values
<1>4. Relisting' = Relisting /\ Untotalled' = Untotalled
  BY <1>1, <1>2, <1>3 DEF Relisting, Untotalled
<1>5. \A i : Arriving(i)' = Arriving(i)
  BY <1>1, <1>2, <1>3 DEF Arriving
<1>6. \A R : RelistsTo(R) => RelistsTo(R)'
  BY <1>1, <1>3 DEF RelistsTo
<1>7. \A T : Totals(T) => Totals(T)'
  BY <1>1, <1>2, <1>3 DEF Totals, LastOf
<1> QED
  BY <1>4, <1>5, <1>6, <1>7

\* A price that is queued arrives after every list, and sets the last total.
LEMMA ValuedAdded ==
    ASSUME DeskTypeOK, NEW x, queue' = Append(queue, x), x.kind = "item_valued"
    PROVE  /\ Relisting' = Relisting /\ ~ Untotalled'
           /\ \A i : Arriving(i)' = (Arriving(i) \/ i = x.item)
           /\ \A R : RelistsTo(R) => RelistsTo(R)'
           /\ Totals(x.total)'
<1> PICK q : q = Len(queue) + 1
  OBVIOUS
<1>1. \A n \in DOMAIN queue' : Lists(n)' => n \in DOMAIN queue /\ Lists(n) /\ n < q
  BY QueueGrows DEF Lists
<1>2. \A n \in DOMAIN queue' : n = q \/ (n \in DOMAIN queue /\ n \in Nat /\ n < q)
  BY QueueGrows
<1>3. \A n \in DOMAIN queue : /\ n \in DOMAIN queue' /\ queue'[n] = queue[n]
                              /\ Lists(n)' = Lists(n) /\ Values(n)' = Values(n)
  BY QueueGrows DEF Lists, Values
<1>4. q \in DOMAIN queue' /\ Values(q)' /\ ~ Lists(q)' /\ queue'[q] = x /\ q \in Nat
  BY QueueGrows DEF Lists, Values
<1>5. Relisting' = Relisting /\ ~ Untotalled'
  BY <1>1, <1>3, <1>4 DEF Relisting, Untotalled
<1>6. \A i : Arriving(i)' = (Arriving(i) \/ i = x.item)
  BY <1>1, <1>2, <1>3, <1>4 DEF Arriving
<1>7. \A R : RelistsTo(R) => RelistsTo(R)'
  BY <1>1, <1>3 DEF RelistsTo
<1>8. Totals(x.total)'
  <2>1. ASSUME NEW n \in DOMAIN queue', LastOf(n)' PROVE n = q
    <3>1. q <= n
      BY <1>4, <2>1 DEF LastOf
    <3> QED BY <1>2, <1>4, <3>1
  <2>2. ASSUME NEW n \in DOMAIN queue', LastOf(n)'
        PROVE  ~ Lists(n)' /\ queue'[n].total = x.total
    BY <1>4, <2>1, <2>2
  <2> QED BY <2>2 DEF Totals
<1> QED
  BY <1>5, <1>6, <1>7, <1>8

\* A list that is queued is the last, no price waits behind it, and it clears the total.
LEMMA ListedAdded ==
    ASSUME DeskTypeOK, NEW x, queue' = Append(queue, x), x.kind = "selection_changed"
    PROVE  /\ Relisting' /\ ~ Untotalled' /\ \A i : ~ Arriving(i)'
           /\ RelistsTo(x.rows)' /\ Totals(None)'
<1> PICK q : q = Len(queue) + 1
  OBVIOUS
<1>1. \A n \in DOMAIN queue' : n \in Nat /\ (n = q \/ n < q)
  BY QueueGrows
<1>2. q \in DOMAIN queue' /\ Lists(q)' /\ ~ Values(q)' /\ queue'[q] = x /\ q \in Nat
  BY QueueGrows DEF Lists, Values
<1>3. Relisting' /\ ~ Untotalled'
  BY <1>2 DEF Relisting, Untotalled
<1>4. \A i : ~ Arriving(i)'
  <2>1. ASSUME NEW n \in DOMAIN queue', q < n PROVE FALSE
    BY <1>1, <1>2, <2>1
  <2> QED BY <1>2, <2>1 DEF Arriving
<1>5. ASSUME NEW n \in DOMAIN queue', q <= n PROVE n = q
  BY <1>1, <1>2, <1>5
<1>6. RelistsTo(x.rows)'
  <2>1. ASSUME NEW n \in DOMAIN queue', Lists(n)',
               \A m \in DOMAIN queue' : Lists(m)' => m <= n
        PROVE  queue'[n].rows = x.rows
    BY <1>2, <1>5, <2>1
  <2> QED BY <2>1 DEF RelistsTo
<1>7. Totals(None)'
  <2>1. ASSUME NEW n \in DOMAIN queue', LastOf(n)' PROVE n = q
    BY <1>2, <1>5, <2>1 DEF LastOf
  <2>2. ASSUME NEW n \in DOMAIN queue', LastOf(n)' PROVE ~ Values(n)'
    BY <1>2, <2>1, <2>2
  <2> QED BY <2>2 DEF Totals
<1> QED
  BY <1>3, <1>4, <1>6, <1>7

\* A delivered trade: nothing changes of the lists and the prices that wait.
LEMMA SettledTaken ==
    ASSUME DeskTypeOK, queue # <<>>, queue' = Tail(queue), Head(queue).kind = "settled_trade"
    PROVE  /\ Relisting' = Relisting /\ Untotalled' = Untotalled
           /\ \A i : Arriving(i)' = Arriving(i)
           /\ \A R : RelistsTo(R) => RelistsTo(R)'
           /\ \A T : Totals(T) => Totals(T)'
<1>1. \A n \in DOMAIN queue' : /\ n \in Nat /\ n + 1 \in DOMAIN queue
                               /\ Lists(n)' = Lists(n + 1) /\ Values(n)' = Values(n + 1)
                               /\ queue'[n] = queue[n + 1]
  BY QueueShrinks DEF Lists, Values
<1>2. /\ 1 \in DOMAIN queue /\ ~ Lists(1) /\ ~ Values(1)
      /\ \A n \in DOMAIN queue : n # 1 => \E m \in DOMAIN queue' : n = m + 1
  BY QueueShrinks DEF Lists, Values
<1>3. Relisting' = Relisting
  BY <1>1, <1>2 DEF Relisting
<1>4. Untotalled' = Untotalled
  BY <1>1, <1>2 DEF Untotalled
<1>5. ASSUME NEW n \in DOMAIN queue'
      PROVE  /\ (\A m \in DOMAIN queue' : Lists(m)' => m < n)
                    <=> (\A m \in DOMAIN queue : Lists(m) => m < n + 1)
             /\ (\A m \in DOMAIN queue' : Lists(m)' => m <= n)
                    <=> (\A m \in DOMAIN queue : Lists(m) => m <= n + 1)
             /\ LastOf(n)' <=> LastOf(n + 1)
  <2>1. ASSUME NEW m \in DOMAIN queue'
        PROVE  (m < n <=> m + 1 < n + 1) /\ (m <= n <=> m + 1 <= n + 1)
    BY <1>1, <1>5, <2>1
  <2>2. ASSUME NEW m \in DOMAIN queue, m # 1 PROVE \E l \in DOMAIN queue' : m = l + 1
    BY <1>2, <2>2
  <2>4. (\A m \in DOMAIN queue' : Lists(m)' => m < n)
           <=> (\A m \in DOMAIN queue : Lists(m) => m < n + 1)
    BY <1>1, <1>2, <2>1, <2>2
  <2>5. (\A m \in DOMAIN queue' : Lists(m)' => m <= n)
           <=> (\A m \in DOMAIN queue : Lists(m) => m <= n + 1)
    BY <1>1, <1>2, <2>1, <2>2
  <2>6. LastOf(n)' <=> LastOf(n + 1)
    BY <1>1, <1>2, <2>1, <2>2 DEF LastOf
  <2> QED BY <2>4, <2>5, <2>6
<1>6. \A i : Arriving(i)' = Arriving(i)
  <2>1. ASSUME NEW i, Arriving(i) PROVE Arriving(i)'
    <3>1. PICK n \in DOMAIN queue : /\ Values(n) /\ queue[n].item = i
                                    /\ \A m \in DOMAIN queue : Lists(m) => m < n
      BY <2>1 DEF Arriving
    <3>2. PICK l \in DOMAIN queue' : n = l + 1
      BY <1>2, <3>1
    <3>3. Values(l)' /\ queue'[l].item = i
      BY <1>1, <3>1, <3>2
    <3>4. \A m \in DOMAIN queue' : Lists(m)' => m < l
      BY <1>5, <3>1, <3>2
    <3> QED BY <3>3, <3>4 DEF Arriving
  <2>2. ASSUME NEW i, Arriving(i)' PROVE Arriving(i)
    <3>1. PICK n \in DOMAIN queue' : /\ Values(n)' /\ queue'[n].item = i
                                     /\ \A m \in DOMAIN queue' : Lists(m)' => m < n
      BY <2>2 DEF Arriving
    <3>2. n + 1 \in DOMAIN queue /\ Values(n + 1) /\ queue[n + 1].item = i
      BY <1>1, <3>1
    <3>3. \A m \in DOMAIN queue : Lists(m) => m < n + 1
      BY <1>5, <3>1
    <3> QED BY <3>2, <3>3 DEF Arriving
  <2>3. \A i : Arriving(i)' \in BOOLEAN /\ Arriving(i) \in BOOLEAN
    BY DEF Arriving
  <2> QED BY <2>1, <2>2, <2>3
<1>7. \A R : RelistsTo(R) => RelistsTo(R)'
  BY <1>1, <1>5 DEF RelistsTo
<1>8. \A T : Totals(T) => Totals(T)'
  BY <1>1, <1>5 DEF Totals
<1> QED
  BY <1>3, <1>4, <1>6, <1>7, <1>8

\* A delivered price: if no list waits behind it, it was arriving.
LEMMA ValuedTaken ==
    ASSUME DeskTypeOK, NEW x, x = Head(queue), queue # <<>>, queue' = Tail(queue),
           x.kind = "item_valued"
    PROVE  /\ Relisting' = Relisting /\ (~ Relisting => Arriving(x.item))
           /\ \A i : Arriving(i)' => Arriving(i)
           /\ \A i : Arriving(i) => Arriving(i)' \/ (i = x.item /\ ~ Relisting)
           /\ \A R : RelistsTo(R) => RelistsTo(R)'
           /\ \A T : Totals(T) => Totals(T)' /\ (Untotalled' => x.total = T)
<1>1. \A n \in DOMAIN queue' : /\ n \in Nat /\ n + 1 \in DOMAIN queue /\ n >= 1
                               /\ Lists(n)' = Lists(n + 1) /\ Values(n)' = Values(n + 1)
                               /\ queue'[n] = queue[n + 1]
  BY QueueShrinks DEF Lists, Values
<1>2. /\ 1 \in DOMAIN queue /\ ~ Lists(1) /\ Values(1) /\ queue[1] = x
      /\ \A n \in DOMAIN queue : n # 1 => \E m \in DOMAIN queue' : n = m + 1
  BY QueueShrinks DEF Lists, Values
<1>3. Relisting' = Relisting
  BY <1>1, <1>2 DEF Relisting
<1>4. ~ Relisting => Arriving(x.item)
  BY <1>2 DEF Relisting, Arriving
<1>5. ASSUME NEW n \in DOMAIN queue'
      PROVE  /\ (\A m \in DOMAIN queue' : Lists(m)' => m < n)
                    <=> (\A m \in DOMAIN queue : Lists(m) => m < n + 1)
             /\ (\A m \in DOMAIN queue' : Lists(m)' => m <= n)
                    <=> (\A m \in DOMAIN queue : Lists(m) => m <= n + 1)
             /\ LastOf(n)' <=> LastOf(n + 1)
  <2>1. ASSUME NEW m \in DOMAIN queue'
        PROVE  (m < n <=> m + 1 < n + 1) /\ (m <= n <=> m + 1 <= n + 1)
    BY <1>1, <1>5, <2>1
  <2>2. ASSUME NEW m \in DOMAIN queue, m # 1 PROVE \E l \in DOMAIN queue' : m = l + 1
    BY <1>2, <2>2
  <2>3. 1 <= n + 1
    BY <1>1, <1>5
  <2>4. (\A m \in DOMAIN queue' : Lists(m)' => m < n)
           <=> (\A m \in DOMAIN queue : Lists(m) => m < n + 1)
    BY <1>1, <1>2, <2>1, <2>2, <2>3
  <2>5. (\A m \in DOMAIN queue' : Lists(m)' => m <= n)
           <=> (\A m \in DOMAIN queue : Lists(m) => m <= n + 1)
    BY <1>1, <1>2, <2>1, <2>2, <2>3
  <2>6. LastOf(n)' <=> LastOf(n + 1)
    BY <1>1, <1>2, <2>1, <2>2, <2>3 DEF LastOf
  <2> QED BY <2>4, <2>5, <2>6
<1>6. ASSUME NEW i, Arriving(i) PROVE Arriving(i)' \/ (i = x.item /\ ~ Relisting)
  <2>1. PICK n \in DOMAIN queue : /\ Values(n) /\ queue[n].item = i
                                  /\ \A m \in DOMAIN queue : Lists(m) => m < n
    BY <1>6 DEF Arriving
  <2>2. CASE n = 1
    <3>1. \A m \in DOMAIN queue : ~ Lists(m)
      <4>1. \A m \in DOMAIN queue : m \in Nat /\ m >= 1
        BY QueueShrinks
      <4> QED BY <2>1, <2>2, <4>1
    <3> QED BY <1>2, <2>1, <2>2, <3>1 DEF Relisting
  <2>3. CASE n # 1
    <3>1. PICK l \in DOMAIN queue' : n = l + 1
      BY <1>2, <2>1, <2>3
    <3>2. Values(l)' /\ queue'[l].item = i
      BY <1>1, <2>1, <3>1
    <3>3. \A m \in DOMAIN queue' : Lists(m)' => m < l
      BY <1>5, <2>1, <3>1
    <3> QED BY <3>2, <3>3 DEF Arriving
  <2> QED BY <2>2, <2>3
<1>7. ASSUME NEW i, Arriving(i)' PROVE Arriving(i)
  <2>1. PICK n \in DOMAIN queue' : /\ Values(n)' /\ queue'[n].item = i
                                   /\ \A m \in DOMAIN queue' : Lists(m)' => m < n
    BY <1>7 DEF Arriving
  <2>2. n + 1 \in DOMAIN queue /\ Values(n + 1) /\ queue[n + 1].item = i
    BY <1>1, <2>1
  <2>3. \A m \in DOMAIN queue : Lists(m) => m < n + 1
    BY <1>5, <2>1
  <2> QED BY <2>2, <2>3 DEF Arriving
<1>8. \A R : RelistsTo(R) => RelistsTo(R)'
  BY <1>1, <1>5 DEF RelistsTo
<1>9. ASSUME NEW T, Totals(T) PROVE Totals(T)' /\ (Untotalled' => x.total = T)
  <2>1. Totals(T)'
    BY <1>1, <1>5, <1>9 DEF Totals
  <2>2. ASSUME Untotalled' PROVE x.total = T
    <3>1. \A m \in DOMAIN queue : Lists(m) \/ Values(m) => m = 1
      BY <1>1, <1>2, <2>2 DEF Untotalled
    <3>2. LastOf(1)
      BY <3>1 DEF LastOf
    <3> QED BY <1>2, <1>9, <3>2 DEF Totals
  <2> QED BY <2>1, <2>2
<1> QED
  BY <1>3, <1>4, <1>6, <1>7, <1>8, <1>9

\* A delivered list: if it was the last, the rows are those.
LEMMA ListedTaken ==
    ASSUME DeskTypeOK, NEW x, x = Head(queue), queue # <<>>, queue' = Tail(queue),
           x.kind = "selection_changed"
    PROVE  /\ Relisting
           /\ \A i : Arriving(i)' = Arriving(i)
           /\ \A R : RelistsTo(R) => RelistsTo(R)' /\ (~ Relisting' => x.rows = R)
           /\ \A T : Totals(T) => Totals(T)' /\ (Untotalled' => T = None)
<1>1. \A n \in DOMAIN queue' : /\ n \in Nat /\ n + 1 \in DOMAIN queue /\ n >= 1
                               /\ Lists(n)' = Lists(n + 1) /\ Values(n)' = Values(n + 1)
                               /\ queue'[n] = queue[n + 1]
  BY QueueShrinks DEF Lists, Values
<1>2. /\ 1 \in DOMAIN queue /\ Lists(1) /\ ~ Values(1) /\ queue[1] = x
      /\ \A n \in DOMAIN queue : n # 1 => \E m \in DOMAIN queue' : n = m + 1
  BY QueueShrinks DEF Lists, Values
<1>3. Relisting
  BY <1>2 DEF Relisting
<1>5. ASSUME NEW n \in DOMAIN queue'
      PROVE  /\ (\A m \in DOMAIN queue' : Lists(m)' => m < n)
                    <=> (\A m \in DOMAIN queue : Lists(m) => m < n + 1)
             /\ (\A m \in DOMAIN queue' : Lists(m)' => m <= n)
                    <=> (\A m \in DOMAIN queue : Lists(m) => m <= n + 1)
             /\ LastOf(n)' <=> LastOf(n + 1)
  <2>1. ASSUME NEW m \in DOMAIN queue'
        PROVE  (m < n <=> m + 1 < n + 1) /\ (m <= n <=> m + 1 <= n + 1)
    BY <1>1, <1>5, <2>1
  <2>2. ASSUME NEW m \in DOMAIN queue, m # 1 PROVE \E l \in DOMAIN queue' : m = l + 1
    BY <1>2, <2>2
  <2>3. 1 <= n + 1 /\ 1 < n + 1
    BY <1>1, <1>5
  <2>4. (\A m \in DOMAIN queue' : Lists(m)' => m < n)
           <=> (\A m \in DOMAIN queue : Lists(m) => m < n + 1)
    BY <1>1, <1>2, <2>1, <2>2, <2>3
  <2>5. (\A m \in DOMAIN queue' : Lists(m)' => m <= n)
           <=> (\A m \in DOMAIN queue : Lists(m) => m <= n + 1)
    BY <1>1, <1>2, <2>1, <2>2, <2>3
  <2>6. LastOf(n)' <=> LastOf(n + 1)
    BY <1>1, <1>2, <2>1, <2>2, <2>3 DEF LastOf
  <2> QED BY <2>4, <2>5, <2>6
<1>6. ASSUME NEW i, Arriving(i) PROVE Arriving(i)'
  <2>1. PICK n \in DOMAIN queue : /\ Values(n) /\ queue[n].item = i
                                  /\ \A m \in DOMAIN queue : Lists(m) => m < n
    BY <1>6 DEF Arriving
  <2>2. n # 1
    BY <1>2, <2>1
  <2>3. PICK l \in DOMAIN queue' : n = l + 1
    BY <1>2, <2>1, <2>2
  <2>4. Values(l)' /\ queue'[l].item = i
    BY <1>1, <2>1, <2>3
  <2>5. \A m \in DOMAIN queue' : Lists(m)' => m < l
    BY <1>5, <2>1, <2>3
  <2> QED BY <2>4, <2>5 DEF Arriving
<1>7. ASSUME NEW i, Arriving(i)' PROVE Arriving(i)
  <2>1. PICK n \in DOMAIN queue' : /\ Values(n)' /\ queue'[n].item = i
                                   /\ \A m \in DOMAIN queue' : Lists(m)' => m < n
    BY <1>7 DEF Arriving
  <2>2. n + 1 \in DOMAIN queue /\ Values(n + 1) /\ queue[n + 1].item = i
    BY <1>1, <2>1
  <2>3. \A m \in DOMAIN queue : Lists(m) => m < n + 1
    BY <1>5, <2>1
  <2> QED BY <2>2, <2>3 DEF Arriving
<1>8. \A i : Arriving(i)' \in BOOLEAN /\ Arriving(i) \in BOOLEAN
  BY DEF Arriving
<1>9. ASSUME NEW R, RelistsTo(R) PROVE RelistsTo(R)' /\ (~ Relisting' => x.rows = R)
  <2>1. RelistsTo(R)'
    BY <1>1, <1>5, <1>9 DEF RelistsTo
  <2>2. ASSUME ~ Relisting' PROVE x.rows = R
    <3>1. \A m \in DOMAIN queue : Lists(m) => m = 1
      BY <1>1, <1>2, <2>2 DEF Relisting
    <3>2. \A m \in DOMAIN queue : Lists(m) => m <= 1
      BY <3>1
    <3> QED BY <1>2, <1>9, <3>2 DEF RelistsTo
  <2> QED BY <2>1, <2>2
<1>10. ASSUME NEW T, Totals(T) PROVE Totals(T)' /\ (Untotalled' => T = None)
  <2>1. Totals(T)'
    BY <1>1, <1>5, <1>10 DEF Totals
  <2>2. ASSUME Untotalled' PROVE T = None
    <3>1. \A m \in DOMAIN queue : Lists(m) \/ Values(m) => m = 1
      BY <1>1, <1>2, <2>2 DEF Untotalled
    <3>2. LastOf(1)
      BY <3>1 DEF LastOf
    <3> QED BY <1>2, <1>10, <3>2 DEF Totals
  <2> QED BY <2>1, <2>2
<1> QED
  BY <1>3, <1>6, <1>7, <1>8, <1>9, <1>10

-----------------------------------------------------------------------------
(***************************************************************************)
(* The inductive invariant.                                                *)
(***************************************************************************)
\* The ladder of an item is being handed over; its price is on its way to the window.
Pricing(i) == net.at = "pricing" /\ net.item = i
Coming(i)  == Pricing(i) \/ Arriving(i)

\* Between two selections the items are those of the generation. A valuation is of an
\* item that is or was picked, and has its ladder unless it is being handed over.
Threads ==
    /\ IF net.at = "listing" THEN items.of < generation
                             ELSE generation = items.of /\ picked = items.size
    /\ items.size # 0 => items.of # 0
    /\ \A i \in valued \cup inflight :
          i[1] < items.of \/ (i[1] = items.of /\ i[2] <= items.size)
    /\ \A i \in Item : Pricing(i) => i \in valued /\ i[1] = items.of
    /\ \A i \in Item : ladder[i] # None => i \in valued
    /\ \A i \in valued : ladder[i] # None \/ Pricing(i)

\* The last list that is on its way is the controller's; with none, the rows are. A
\* price behind it is of an item of that list.
Ordered ==
    /\ \A R \in {items} : RelistsTo(R)
    /\ ~ Relisting => screen.rows = items
    /\ \A i \in Item : Arriving(i) => i[1] = items.of /\ i[2] <= items.size /\ ladder[i] # None

\* The row of an item that has a ladder shows it, and the rungs are its if it is
\* selected, unless its price is on its way.
Drawn(p) == /\ ~ Relisting /\ screen.figures[p] = Listed(p)
            /\ screen.selected = p => screen.rungs # None /\ screen.rungs.item = Listed(p)
Figures ==
    \A p \in 1..items.size :
        /\ \/ Relisting \/ screen.figures[p] = None
           \/ screen.figures[p] = Listed(p) /\ ladder[Listed(p)] # None
        /\ ladder[Listed(p)] # None => Coming(Listed(p)) \/ Drawn(p)

\* The rung that is expanded is what the session of the selected item says, unless its
\* price is on its way, which folds it.
SaidOf ==
    ~ Relisting /\ net.at # "listing" /\ OnTable /\ screen.expanded # None =>
        \/ Coming(Listed(screen.selected))
        \/ /\ sessions[Key] # None
           /\ sessions[Key].offer = [of |-> Listed(screen.selected), rung |-> screen.expanded]

\* The total the window will end up with counts what the controller's does.
Counts ==
    items.of \notin overruled /\ net.at # "pricing" =>
        \A T \in {Counted(manual)} : Totals(T) /\ (Untotalled => screen.total = T)

DeskInv == DeskTypeOK /\ Threads /\ Ordered /\ Figures /\ SaidOf /\ Counts

\* The fields whose types the steps below need.
LEMMA DeskFields ==
    ASSUME DeskTypeOK
    PROVE  /\ items.of \in Nat /\ items.size \in Nat /\ items.size <= MaxItems
           /\ items.of <= MaxSelections /\ generation \in Nat /\ Idle.at = "idle"
           /\ screen \in Screen /\ net \in Doing /\ items \in Chosen
  BY DeskAssumption DEF DeskTypeOK, Chosen, Idle

\* An item on the list.
LEMMA OnList ==
    ASSUME DeskTypeOK, Threads, NEW p \in 1..items.size
    PROVE  /\ Listed(p) \in Item /\ Listed(p)[1] = items.of /\ Listed(p)[2] = p
           /\ p \in Places /\ p \in Nat
<1>1. items.size # 0 /\ p \in Nat /\ p \in Places
  BY DeskFields, DeskAssumption DEF Places
<1>2. items.of # 0
  BY <1>1 DEF Threads
<1> QED
  BY <1>1, <1>2, ListedIsItem

\* The queue stays.
LEMMA QueueSame ==
    ASSUME queue' = queue
    PROVE  /\ Relisting' = Relisting /\ Untotalled' = Untotalled
           /\ \A i : Arriving(i)' = Arriving(i)
           /\ \A R : RelistsTo(R)' = RelistsTo(R)
           /\ \A T : Totals(T)' = Totals(T)
  BY DEF Relisting, Untotalled, Arriving, RelistsTo, Totals, LastOf, Lists, Values

\* A step that leaves the screen, but for the rung that is expanded, and the controller
\* as they are, and adds at most a trade to the queue.
LEMMA Framed ==
    ASSUME DeskInv,
           Relisting' = Relisting, Untotalled' = Untotalled,
           \A i : Arriving(i)' = Arriving(i),
           \A R : RelistsTo(R) => RelistsTo(R)',
           \A T : Totals(T) => Totals(T)',
           inflight' \subseteq inflight,
           UNCHANGED <<generation, picked, items, valued, manual, overruled, ladder, net>>,
           screen'.rows = screen.rows, screen'.figures = screen.figures,
           screen'.selected = screen.selected, screen'.rungs = screen.rungs,
           screen'.total = screen.total
    PROVE  Threads' /\ Ordered' /\ Figures' /\ Counts'
<1>1. /\ \A i : Pricing(i)' = Pricing(i)
      /\ \A i : Coming(i)' = Coming(i)
  BY DEF Pricing, Coming
<1>2. Threads'
  BY <1>1 DEF DeskInv, Threads
<1>3. Ordered'
  BY DEF DeskInv, Ordered
<1>4. Figures'
  <2>1. \A p : Listed(p)' = Listed(p)
    BY DEF Listed
  <2>2. \A p : Drawn(p)' = Drawn(p)
    BY <2>1 DEF Drawn
  <2> QED BY <1>1, <2>1, <2>2 DEF DeskInv, Figures
<1>5. Counts'
  <2>1. Counted(manual)' = Counted(manual)
    BY DEF Counted
  <2> QED BY <2>1 DEF DeskInv, Counts
<1> QED
  BY <1>2, <1>3, <1>4, <1>5

-----------------------------------------------------------------------------
(***************************************************************************)
(* The steps of the asyncio thread.                                        *)
(***************************************************************************)
\* A selection comes: nothing that is shown changes.
LEMMA PickKept ==
    ASSUME DeskInv, NEW n \in 0..MaxItems, Pick(n)
    PROVE  Threads' /\ Ordered' /\ Figures' /\ SaidOf' /\ Counts'
<1> USE DEF window
<1>1. /\ queue' = queue /\ net.at = "idle" /\ net'.at = "listing" /\ screen' = screen
      /\ UNCHANGED <<items, valued, manual, ladder, overruled, inflight, sessions>>
      /\ generation' = generation + 1
  BY DEF Pick, Idle
<1>2. \A i : ~ Pricing(i) /\ ~ Pricing(i)'
  BY <1>1 DEF Pricing
<1>3. \A i : Coming(i)' = Coming(i)
  BY <1>1, <1>2, QueueSame DEF Coming
<1>4. Threads'
  <2>1. items.of < generation'
    BY <1>1, DeskFields DEF DeskInv, Threads
  <2> QED BY <1>1, <1>2, <2>1 DEF DeskInv, Threads
<1>5. Ordered'
  BY <1>1, QueueSame DEF DeskInv, Ordered
<1>6. Figures'
  <2>1. \A p : Listed(p)' = Listed(p)
    BY <1>1 DEF Listed
  <2>2. \A p : Drawn(p)' = Drawn(p)
    BY <1>1, <2>1, QueueSame DEF Drawn
  <2> QED BY <1>1, <1>3, <2>1, <2>2, QueueSame DEF DeskInv, Figures
<1>7. SaidOf'
  BY <1>1 DEF SaidOf
<1>8. Counts'
  <2>1. Counted(manual)' = Counted(manual)
    BY <1>1 DEF Counted
  <2> QED BY <1>1, <2>1, QueueSame DEF DeskInv, Counts
<1> QED
  BY <1>4, <1>5, <1>6, <1>7, <1>8

\* The items follow, none of which has a valuation yet.
LEMMA ListKept ==
    ASSUME DeskInv, List
    PROVE  Threads' /\ Ordered' /\ Figures' /\ SaidOf' /\ Counts'
<1> PICK x : x = [kind |-> "selection_changed", rows |-> items']
  OBVIOUS
<1>1. /\ queue' = Append(queue, x) /\ net.at = "listing" /\ net'.at = "idle"
      /\ items'.of = generation /\ items'.size = picked
      /\ inflight' = inflight \cup {<<generation, p>> : p \in 1..picked}
      /\ UNCHANGED <<generation, picked, valued, manual, ladder, overruled>>
  BY DEF List, Idle
<1>2. /\ x.kind = "selection_changed" /\ x.rows = items'
  OBVIOUS
<1>3. /\ Relisting' /\ ~ Untotalled' /\ \A i : ~ Arriving(i)'
      /\ RelistsTo(x.rows)' /\ Totals(None)'
  BY <1>1, <1>2, ListedAdded DEF DeskInv
<1>4. \A i : ~ Pricing(i) /\ ~ Pricing(i)'
  BY <1>1 DEF Pricing
<1>5. items.of < generation /\ generation # 0
  BY <1>1, DeskFields DEF DeskInv, Threads
<1>6. \A i \in valued : i \in Item /\ i[1] < generation /\ i[1] # generation
  <2>1. \A i \in valued : i \in Item /\ i[1] <= items.of /\ i[1] \in Nat
    BY ItemFields, DeskFields DEF DeskInv, Threads, DeskTypeOK
  <2>2. items.of \in Nat /\ generation \in Nat
    BY DeskFields DEF DeskInv
  <2> QED BY <1>5, <2>1, <2>2
<1>7. Threads'
  <2>1. ASSUME NEW i \in inflight PROVE i[1] < generation
    <3>1. i \in Item /\ i[1] <= items.of /\ i[1] \in Nat
      BY ItemFields, DeskFields DEF DeskInv, Threads, DeskTypeOK
    <3>2. items.of \in Nat /\ generation \in Nat
      BY DeskFields DEF DeskInv
    <3> QED BY <1>5, <3>1, <3>2
  <2>2. ASSUME NEW p \in 1..picked
        PROVE  <<generation, p>>[1] = generation /\ <<generation, p>>[2] <= picked
    BY DEF DeskInv, DeskTypeOK
  <2>3. \A i \in (valued \cup inflight)' :
           i[1] < items'.of \/ (i[1] = items'.of /\ i[2] <= items'.size)
    BY <1>1, <1>6, <2>1, <2>2
  <2>4. \A i \in valued' : ladder'[i] # None
    BY <1>1, <1>4 DEF DeskInv, Threads
  <2>5. \A i \in Item : ladder'[i] # None => i \in valued'
    BY <1>1 DEF DeskInv, Threads
  <2> QED BY <1>1, <1>4, <1>5, <2>3, <2>4, <2>5 DEF Threads
<1>8. Ordered'
  <2>1. PICK R : R = x.rows
    OBVIOUS
  <2>2. RelistsTo(R)'
    BY <1>3, <2>1 DEF RelistsTo, Lists
  <2> QED BY <1>2, <1>3, <2>1, <2>2 DEF Ordered
<1>9. Figures'
  <2>1. ASSUME NEW p \in 1..items'.size PROVE ladder'[Listed(p)'] = None
    <3>1. Listed(p)' = <<generation, p>>
      BY <1>1 DEF Listed
    <3>2. generation \in Generations /\ p \in Places
      <4>1. generation \in 0..MaxSelections /\ picked \in 0..MaxItems
        BY DEF DeskInv, DeskTypeOK
      <4> QED BY <1>1, <1>5, <4>1, DeskAssumption DEF Generations, Places
    <3>3. <<generation, p>> \in Item
      BY <3>2 DEF Item
    <3>4. <<generation, p>> \notin valued
      BY <1>6
    <3> QED BY <1>1, <3>1, <3>3, <3>4 DEF DeskInv, Threads
  <2> QED BY <1>3, <2>1 DEF Figures
<1>10. SaidOf'
  BY <1>3 DEF SaidOf
<1>11. Counts'
  <2>1. Counted(manual)' = None
    <3>1. {i \in valued' : i[1] = items'.of} = {}
      BY <1>1, <1>6
    <3> QED BY <3>1 DEF Counted
  <2> QED BY <1>3, <2>1 DEF Counts
<1> QED
  BY <1>7, <1>8, <1>9, <1>10, <1>11

\* A valuation is there: its price is being handed over.
LEMMA ValueKept ==
    ASSUME DeskInv, NEW i \in Item, Value(i)
    PROVE  Threads' /\ Ordered' /\ Figures' /\ SaidOf' /\ Counts'
<1> USE DEF window
<1>1. /\ queue' = queue /\ net.at = "idle" /\ net'.at = "pricing" /\ net'.item = i
      /\ UNCHANGED <<generation, picked, items, manual, ladder, overruled, inflight, screen,
                     sessions>>
      /\ i \in inflight /\ i[1] = generation /\ valued' = valued \cup {i}
  BY DEF Value, Idle
<1>2. /\ \A j : ~ Pricing(j) /\ Pricing(j)' = (j = i)
      /\ \A j : Coming(j) => Coming(j)'
  BY <1>1, QueueSame DEF Pricing, Coming
<1>3. Threads'
  <2>1. generation = items.of /\ picked = items.size
    BY <1>1 DEF DeskInv, Threads
  <2>2. \A j \in Item : Pricing(j)' => j \in valued' /\ j[1] = items'.of
    BY <1>1, <1>2, <2>1
  <2>3. \A j \in valued' : ladder'[j] # None \/ Pricing(j)'
    BY <1>1, <1>2 DEF DeskInv, Threads
  <2>4. \A j \in (valued \cup inflight)' : j \in valued \cup inflight
    BY <1>1
  <2>5. \A j \in (valued \cup inflight)' :
           j[1] < items'.of \/ (j[1] = items'.of /\ j[2] <= items'.size)
    BY <1>1, <2>4 DEF DeskInv, Threads
  <2>6. items'.size # 0 => items'.of # 0
    BY <1>1 DEF DeskInv, Threads
  <2>7. \A j \in Item : ladder'[j] # None => j \in valued'
    BY <1>1 DEF DeskInv, Threads
  <2> QED BY <1>1, <2>1, <2>2, <2>3, <2>5, <2>6, <2>7 DEF Threads
<1>4. Ordered'
  BY <1>1, QueueSame DEF DeskInv, Ordered
<1>5. \A p : Listed(p)' = Listed(p)
  BY <1>1 DEF Listed
<1>6. Figures'
  <2>1. \A p : Drawn(p)' = Drawn(p)
    BY <1>1, <1>5, QueueSame DEF Drawn
  <2> QED BY <1>1, <1>2, <1>5, <2>1, QueueSame DEF DeskInv, Figures
<1>7. SaidOf'
  <2> SUFFICES ASSUME ~ Relisting', OnTable', screen'.expanded # None,
                      ~ Coming(Listed(screen.selected))'
               PROVE  /\ sessions'[Key'] # None
                      /\ sessions'[Key'].offer =
                            [of |-> Listed(screen.selected)', rung |-> screen'.expanded]
    BY DEF SaidOf
  <2>1. PICK k : k = screen.selected
    OBVIOUS
  <2>2. Listed(screen.selected)' = Listed(k) /\ Key' = Key
    BY <1>1, <2>1 DEF Listed, Key
  <2>3. ~ Coming(Listed(k))'
    BY <1>1, <2>1, <2>2 DEF Coming, Pricing, Arriving, Listed, Values, Lists
  <2>4. Listed(k) # i /\ ~ Coming(Listed(k))
    <3>1. PICK j : j = Listed(k)
      OBVIOUS
    <3>2. ~ Coming(j)'
      BY <1>1, <2>3, <3>1 DEF Coming, Pricing, Arriving, Listed, Values, Lists
    <3> QED BY <1>2, <3>1, <3>2 DEF Coming
  <2>5. OnTable
    BY <1>1, <2>1, <2>4 DEF OnTable, Listed
  <2>6. ~ Relisting /\ net.at # "listing" /\ screen.expanded # None
    BY <1>1, QueueSame
  <2> QED BY <1>1, <2>1, <2>2, <2>4, <2>5, <2>6 DEF DeskInv, SaidOf
<1>8. Counts'
  BY <1>1 DEF Counts
<1> QED
  BY <1>3, <1>4, <1>6, <1>7, <1>8

\* The ladder is handed over and its price queued in one go.
LEMMA QuoteKept ==
    ASSUME DeskInv, Quote
    PROVE  Threads' /\ Ordered' /\ Figures' /\ SaidOf' /\ Counts'
<1> USE DEF window
<1> PICK i, x : /\ i = net.item
                /\ x = [kind |-> "item_valued", item |-> net.item, ladder |-> net.basis,
                        total |-> Counted(manual)]
  OBVIOUS
<1>1. /\ net.at = "pricing" /\ net'.at = "idle" /\ queue' = Append(queue, x)
      /\ UNCHANGED <<generation, picked, items, valued, manual, overruled, sessions, screen>>
      /\ inflight' \subseteq inflight
      /\ x.kind = "item_valued" /\ x.item = i /\ x.total = Counted(manual)
  BY DEF Quote, Idle
<1>2. /\ i \in Item /\ i \in valued /\ i[1] = items.of /\ i[2] <= items.size
      /\ generation = items.of /\ picked = items.size
  <2>1. i \in Item
    BY <1>1, DoingFields DEF DeskInv, DeskTypeOK
  <2>2. i \in valued /\ i[1] = items.of
    BY <1>1, <2>1 DEF DeskInv, Threads, Pricing
  <2>3. ~ (i[1] < items.of)
    BY <2>2, DeskFields DEF DeskInv
  <2> QED BY <1>1, <2>1, <2>2, <2>3 DEF DeskInv, Threads
<1>3. /\ ladder'[i] # None
      /\ \A j \in Item : j # i => ladder'[j] = ladder[j]
  <2>1. net.basis \in Basis
    BY <1>1, DoingFields DEF DeskInv, DeskTypeOK
  <2>2. ladder \in [Item -> Basis \cup {None}]
    BY DEF DeskInv, DeskTypeOK
  <2>3. ladder' = [ladder EXCEPT ![i] = net.basis]
    BY DEF Quote
  <2> QED BY <1>2, <2>1, <2>2, <2>3, DeskAssumption
<1>4. /\ Relisting' = Relisting /\ ~ Untotalled'
      /\ \A j : Arriving(j)' = (Arriving(j) \/ j = i)
      /\ \A R : RelistsTo(R) => RelistsTo(R)'
      /\ Totals(x.total)'
  BY <1>1, ValuedAdded DEF DeskInv
<1>5. /\ \A j : ~ Pricing(j)' /\ (Pricing(j) <=> j = i)
      /\ \A j : Coming(j) => Coming(j)'
      /\ Coming(i)'
  <2>1. \A j : ~ Pricing(j)' /\ (Pricing(j) <=> j = i)
    BY <1>1 DEF Pricing
  <2>2. \A j : Coming(j) => Coming(j)'
    BY <1>4, <2>1 DEF Coming
  <2>3. Coming(i)'
    BY <1>4 DEF Coming
  <2> QED BY <2>1, <2>2, <2>3
<1>6. Threads'
  <2>1. \A j \in Item : ladder'[j] # None => j \in valued'
    BY <1>1, <1>2, <1>3 DEF DeskInv, Threads
  <2>2. \A j \in valued' : ladder'[j] # None
    <3>1. valued \subseteq Item
      BY DEF DeskInv, DeskTypeOK
    <3> QED BY <1>1, <1>3, <1>5, <3>1 DEF DeskInv, Threads
  <2>3. \A j \in (valued \cup inflight)' :
           j[1] < items'.of \/ (j[1] = items'.of /\ j[2] <= items'.size)
    BY <1>1 DEF DeskInv, Threads
  <2>4. items'.size # 0 => items'.of # 0
    BY <1>1 DEF DeskInv, Threads
  <2> QED BY <1>1, <1>2, <1>5, <2>1, <2>2, <2>3, <2>4 DEF Threads
<1>7. Ordered'
  <2>1. \A j \in Item : Arriving(j)' => j[1] = items.of /\ j[2] <= items.size /\ ladder'[j] # None
    BY <1>2, <1>3, <1>4 DEF DeskInv, Ordered
  <2> QED BY <1>1, <1>4, <2>1 DEF DeskInv, Ordered
<1>8. \A p : Listed(p)' = Listed(p)
  BY <1>1 DEF Listed
<1>9. Figures'
  <2>1. \A p : Drawn(p)' = Drawn(p)
    BY <1>1, <1>4, <1>8 DEF Drawn
  <2>2. ASSUME NEW p \in 1..items.size
        PROVE  /\ \/ Relisting' \/ screen'.figures[p] = None
                  \/ screen'.figures[p] = Listed(p) /\ ladder'[Listed(p)] # None
               /\ ladder'[Listed(p)] # None => Coming(Listed(p))' \/ Drawn(p)'
    <3> PICK j : j = Listed(p)
      OBVIOUS
    <3>1. j \in Item
      BY OnList DEF DeskInv
    <3>2. /\ \/ Relisting \/ screen.figures[p] = None
             \/ screen.figures[p] = j /\ ladder[j] # None
          /\ ladder[j] # None => Coming(j) \/ Drawn(p)
      BY DEF DeskInv, Figures
    <3>3. /\ \/ Relisting' \/ screen'.figures[p] = None
             \/ screen'.figures[p] = j /\ ladder'[j] # None
          /\ ladder'[j] # None => Coming(j)' \/ Drawn(p)'
      BY <1>1, <1>3, <1>4, <1>5, <2>1, <3>1, <3>2
    <3>4. Coming(j)' => Coming(Listed(p))'
      BY <1>1 DEF Coming, Pricing, Arriving, Values, Lists, Listed
    <3> QED BY <3>3, <3>4
  <2> QED BY <1>1, <1>8, <2>2 DEF Figures
<1>10. SaidOf'
  <2> SUFFICES ASSUME ~ Relisting', OnTable', screen'.expanded # None,
                      ~ Coming(Listed(screen.selected))'
               PROVE  /\ sessions'[Key'] # None
                      /\ sessions'[Key'].offer =
                            [of |-> Listed(screen.selected)', rung |-> screen'.expanded]
    BY DEF SaidOf
  <2> PICK j : j = Listed(screen.selected)
    OBVIOUS
  <2>1. j = Listed(screen.selected)' /\ Key' = Key
    BY <1>1 DEF Listed, Key
  <2>2. ~ Coming(j)'
    BY <1>1 DEF Coming, Pricing, Arriving, Values, Lists, Listed
  <2>3. ~ Coming(j)
    BY <1>5, <2>2
  <2>4. OnTable /\ ~ Relisting /\ screen.expanded # None /\ net.at # "listing"
    BY <1>1, <1>4 DEF OnTable, Listed
  <2> QED BY <1>1, <2>1, <2>3, <2>4 DEF DeskInv, SaidOf
<1>11. Counts'
  <2>1. PICK T : T = x.total
    OBVIOUS
  <2>2. T = Counted(manual)'
    BY <1>1, <2>1 DEF Counted
  <2>3. Totals(T)'
    BY <1>4, <2>1 DEF Totals, LastOf, Values, Lists
  <2> QED BY <1>4, <2>2, <2>3 DEF Counts
<1> QED
  BY <1>6, <1>7, <1>9, <1>10, <1>11

-----------------------------------------------------------------------------
(***************************************************************************)
(* What the window makes of a click on a row, and of a signal.             *)
(***************************************************************************)
\* A row is turned to: by the user, or because a trade settled its item.
LEMMA TurnedKept ==
    ASSUME DeskInv, NEW place \in Places, screen' = TurnedTo(screen, place),
           Relisting' = Relisting, Untotalled' = Untotalled,
           \A i : Arriving(i)' = Arriving(i),
           \A R : RelistsTo(R) => RelistsTo(R)',
           \A T : Totals(T) => Totals(T)',
           UNCHANGED <<controller, thread, sessions>>
    PROVE  Threads' /\ Ordered' /\ Figures' /\ SaidOf' /\ Counts'
<1> USE DEF controller, thread
<1>1. CASE place = screen.selected
  <2>1. screen' = screen
    BY <1>1 DEF TurnedTo
  <2>2. Threads' /\ Ordered' /\ Figures' /\ Counts'
    BY <2>1, Framed
  <2>3. SaidOf'
    <3>1. \A i : Coming(i)' = Coming(i)
      BY DEF Pricing, Coming
    <3>2. /\ Listed(screen.selected)' = Listed(screen.selected) /\ Key' = Key
          /\ OnTable' = OnTable
      BY <2>1 DEF Listed, Key, OnTable
    <3>3. Coming(Listed(screen.selected))' = Coming(Listed(screen.selected))
      <4> PICK j : j = Listed(screen.selected)
        OBVIOUS
      <4>1. Coming(Listed(screen.selected))' = Coming(j)'
        BY <2>1 DEF Listed, Coming, Pricing, Arriving, Values, Lists
      <4> QED BY <3>1, <4>1
    <3> QED BY <2>1, <3>2, <3>3 DEF DeskInv, SaidOf
  <2> QED BY <2>2, <2>3
<1>2. CASE place # screen.selected
  <2> DEFINE i == Listed(place)
             priced == place <= items.size /\ i \in valued /\ ladder[i] # None
  <2>1. /\ screen'.rows = screen.rows /\ screen'.selected = place
        /\ screen'.total = screen.total /\ screen'.expanded = None
        /\ \A p \in Places \ {place} : screen'.figures[p] = screen.figures[p]
        /\ priced => screen'.rungs = [item |-> i, basis |-> ladder[i]]
        /\ priced => screen'.figures[place] =
                        IF place <= screen.rows.size THEN i ELSE screen.figures[place]
        /\ place <= items.size /\ ~ priced => screen'.figures[place] = None
    BY <1>2, TurnedFields, DeskFields DEF DeskInv
  <2>2. /\ \A j : Pricing(j)' = Pricing(j)
        /\ \A j : Coming(j)' = Coming(j)
    BY DEF Pricing, Coming
  <2>3. Threads'
    BY <2>2 DEF DeskInv, Threads
  <2>4. Ordered'
    BY <2>1 DEF DeskInv, Ordered
  <2>5. SaidOf'
    BY <2>1 DEF SaidOf
  <2>6. Counts'
    <3>1. Counted(manual)' = Counted(manual)
      BY DEF Counted
    <3> QED BY <2>1, <3>1 DEF DeskInv, Counts
  <2>7. Figures'
    <3>1. \A p : Listed(p)' = Listed(p)
      BY DEF Listed
    <3>2. ASSUME NEW p \in 1..items.size
          PROVE  /\ \/ Relisting \/ screen'.figures[p] = None
                    \/ screen'.figures[p] = Listed(p) /\ ladder[Listed(p)] # None
                 /\ ladder[Listed(p)] # None => Coming(Listed(p)) \/ Drawn(p)'
      <4>1. Listed(p) \in Item /\ p \in Places /\ p <= items.size
        BY OnList DEF DeskInv
      <4>2. /\ \/ Relisting \/ screen.figures[p] = None
               \/ screen.figures[p] = Listed(p) /\ ladder[Listed(p)] # None
            /\ ladder[Listed(p)] # None => Coming(Listed(p)) \/ Drawn(p)
        BY DEF DeskInv, Figures
      <4>3. Drawn(p)' <=> /\ ~ Relisting /\ screen'.figures[p] = Listed(p)
                          /\ place = p => screen'.rungs # None /\ screen'.rungs.item = Listed(p)
        BY <2>1, <3>1 DEF Drawn
      <4>4. CASE p # place
        BY <2>1, <4>1, <4>2, <4>3, <4>4 DEF Drawn
      <4>5. CASE p = place /\ priced
        <5>1. ~ Relisting => place <= screen.rows.size
          BY <4>1, <4>5 DEF DeskInv, Ordered
        <5>2. screen'.rungs # None /\ screen'.rungs.item = i
          <6>1. [item |-> i, basis |-> ladder[i]] \in Ladder
            BY <4>1, <4>5 DEF DeskInv, DeskTypeOK, Ladder
          <6> QED BY <2>1, <4>5, <6>1, DeskAssumption
        <5> QED BY <2>1, <4>2, <4>3, <4>5, <5>1, <5>2 DEF Drawn
      <4>6. CASE p = place /\ ~ priced
        <5>1. ladder[i] = None
          BY <4>1, <4>6 DEF DeskInv, Threads
        <5> QED BY <2>1, <4>1, <4>6, <5>1
      <4> QED BY <4>4, <4>5, <4>6
    <3>3. ASSUME NEW p PROVE Coming(Listed(p))' = Coming(Listed(p))
      <4> PICK j : j = Listed(p)
        OBVIOUS
      <4>1. Coming(Listed(p))' = Coming(j)'
        BY DEF Listed, Coming, Pricing, Arriving, Values, Lists
      <4> QED BY <2>2, <4>1
    <3> QED BY <3>1, <3>2, <3>3 DEF Figures
  <2> QED BY <2>3, <2>4, <2>5, <2>6, <2>7
<1> QED
  BY <1>1, <1>2

\* A list is delivered.
LEMMA RelistKept ==
    ASSUME DeskInv, Deliver, Head(queue).kind = "selection_changed"
    PROVE  Threads' /\ Ordered' /\ Figures' /\ SaidOf' /\ Counts'
<1> USE DEF controller, thread
<1> PICK x : x = Head(queue)
  OBVIOUS
<1>1. /\ queue # <<>> /\ queue' = Tail(queue) /\ screen' = Relisted(screen, x.rows)
      /\ x \in Signal /\ x.rows \in Chosen
      /\ UNCHANGED <<generation, picked, items, valued, manual, ladder, overruled, inflight, net,
                     sessions>>
  <2>1. queue # <<>> /\ queue \in Seq(Signal)
    BY DEF Deliver, DeskInv, DeskTypeOK
  <2>2. x \in Signal
    BY <2>1
  <2> QED BY <2>1, <2>2, SignalFields DEF Deliver
<1>2. /\ Relisting
      /\ \A i : Arriving(i)' = Arriving(i)
      /\ \A R : RelistsTo(R) => RelistsTo(R)' /\ (~ Relisting' => x.rows = R)
      /\ \A T : Totals(T) => Totals(T)' /\ (Untotalled' => T = None)
  BY <1>1, ListedTaken DEF DeskInv
<1> DEFINE i == Listed(1)
           priced == 1 <= items.size /\ i \in valued /\ ladder[i] # None
<1>3. /\ screen'.rows = x.rows /\ screen'.total = None /\ screen'.expanded = None
      /\ screen'.selected = IF x.rows.size > 0 THEN 1 ELSE 0
      /\ \A p \in Places \ {1} : screen'.figures[p] = None
      /\ x.rows.size > 0 /\ priced => /\ screen'.rungs = [item |-> i, basis |-> ladder[i]]
                                      /\ screen'.figures[1] = i
      /\ ~ (x.rows.size > 0 /\ priced) => screen'.figures[1] = None
  BY <1>1, RelistedFields, DeskFields DEF DeskInv
<1>4. /\ \A j : Pricing(j)' = Pricing(j)
      /\ \A j : Coming(j)' = Coming(j)
  BY <1>1, <1>2 DEF Pricing, Coming
<1>5. Threads'
  BY <1>1, <1>4 DEF DeskInv, Threads
<1>6. Ordered'
  BY <1>1, <1>2, <1>3 DEF DeskInv, Ordered
<1>7. SaidOf'
  BY <1>3 DEF SaidOf
<1>8. Counts'
  <2>1. Counted(manual)' = Counted(manual)
    BY <1>1 DEF Counted
  <2> QED BY <1>1, <1>2, <1>3, <2>1 DEF DeskInv, Counts
<1>9. Figures'
  <2>1. \A p : Listed(p)' = Listed(p)
    BY <1>1 DEF Listed
  <2>2. ASSUME NEW p \in 1..items.size
        PROVE  /\ \/ screen'.figures[p] = None
                  \/ screen'.figures[p] = Listed(p) /\ ladder[Listed(p)] # None
               /\ ladder[Listed(p)] # None => Coming(Listed(p))
    <3>1. p \in Places
      BY OnList DEF DeskInv
    <3>2. ladder[Listed(p)] # None => Coming(Listed(p))
      BY <1>2 DEF DeskInv, Figures, Drawn
    <3>3. CASE p # 1
      BY <1>3, <3>1, <3>2, <3>3
    <3>4. CASE p = 1
      BY <1>3, <3>2, <3>4
    <3> QED BY <3>3, <3>4
  <2>3. ASSUME NEW p PROVE Coming(Listed(p))' = Coming(Listed(p))
    <3> PICK j : j = Listed(p)
      OBVIOUS
    <3>1. Coming(Listed(p))' = Coming(j)'
      BY <1>1 DEF Listed, Coming, Pricing, Arriving, Values, Lists
    <3> QED BY <1>4, <3>1
  <2> QED BY <1>1, <2>1, <2>2, <2>3 DEF Figures
<1> QED
  BY <1>5, <1>6, <1>7, <1>8, <1>9

\* A price is delivered.
LEMMA ShowKept ==
    ASSUME DeskInv, Deliver, Head(queue).kind = "item_valued"
    PROVE  Threads' /\ Ordered' /\ Figures' /\ SaidOf' /\ Counts'
<1> USE DEF controller, thread
<1> PICK x, i : x = Head(queue) /\ i = x.item
  OBVIOUS
<1>1. /\ queue # <<>> /\ queue' = Tail(queue)
      /\ screen' = [Showing(screen, i, x.ladder) EXCEPT !.total = x.total]
      /\ i \in Item /\ x.ladder \in Basis /\ x.total \in Total
      /\ UNCHANGED <<generation, picked, items, valued, manual, ladder, overruled, inflight, net,
                     sessions>>
  <2>1. queue # <<>> /\ queue \in Seq(Signal)
    BY DEF Deliver, DeskInv, DeskTypeOK
  <2>2. x \in Signal
    BY <2>1
  <2> QED BY <2>1, <2>2, SignalFields DEF Deliver
<1>2. /\ Relisting' = Relisting /\ (~ Relisting => Arriving(i))
      /\ \A j : Arriving(j)' => Arriving(j)
      /\ \A j : Arriving(j) => Arriving(j)' \/ (j = i /\ ~ Relisting)
      /\ \A R : RelistsTo(R) => RelistsTo(R)'
      /\ \A T : Totals(T) => Totals(T)' /\ (Untotalled' => x.total = T)
  BY <1>1, ValuedTaken DEF DeskInv
<1>3. /\ screen'.rows = screen.rows /\ screen'.selected = screen.selected
      /\ screen'.total = x.total
      /\ screen'.figures = [p \in Places |->
            IF p = i[2] /\ i[2] <= screen.rows.size THEN i ELSE screen.figures[p]]
      /\ screen'.rungs = IF i[2] = screen.selected THEN [item |-> i, basis |-> x.ladder]
                                                   ELSE screen.rungs
      /\ screen'.expanded = IF i[2] = screen.selected THEN None ELSE screen.expanded
  <2> DEFINE t == Showing(screen, i, x.ladder)
  <2>1. /\ t \in Screen /\ t.rows = screen.rows /\ t.selected = screen.selected
        /\ t.figures = [p \in Places |->
              IF p = i[2] /\ i[2] <= screen.rows.size THEN i ELSE screen.figures[p]]
        /\ t.rungs = IF i[2] = screen.selected THEN [item |-> i, basis |-> x.ladder]
                                               ELSE screen.rungs
        /\ t.expanded = IF i[2] = screen.selected THEN None ELSE screen.expanded
    BY <1>1, ShowingFields, DeskFields DEF DeskInv
  <2>2. screen' = [t EXCEPT !.total = x.total]
    BY <1>1
  <2> HIDE DEF t
  <2>3. /\ screen'.rows = t.rows /\ screen'.selected = t.selected /\ screen'.total = x.total
        /\ screen'.figures = t.figures /\ screen'.rungs = t.rungs
        /\ screen'.expanded = t.expanded
    BY <2>1, <2>2 DEF Screen
  <2> QED BY <2>1, <2>3
<1>4. /\ \A j : Pricing(j)' = Pricing(j)
      /\ \A j : Coming(j) => Coming(j)' \/ (j = i /\ ~ Relisting)
  BY <1>1, <1>2 DEF Pricing, Coming
<1>5. ~ Relisting => i = Listed(i[2]) /\ i[2] <= items.size /\ ladder[i] # None
  BY <1>1, <1>2, ItemFields DEF DeskInv, Ordered, Listed
<1>6. Threads'
  BY <1>1, <1>4 DEF DeskInv, Threads
<1>7. Ordered'
  BY <1>1, <1>2, <1>3 DEF DeskInv, Ordered
<1>8. Counts'
  <2>1. Counted(manual)' = Counted(manual)
    BY <1>1 DEF Counted
  <2> QED BY <1>1, <1>2, <1>3, <2>1 DEF DeskInv, Counts
<1>9. \A p : Listed(p)' = Listed(p)
  BY <1>1 DEF Listed
<1>10. ASSUME NEW p PROVE Coming(Listed(p)) => Coming(Listed(p))' \/ (Listed(p) = i /\ ~ Relisting)
  <2> PICK j : j = Listed(p)
    OBVIOUS
  <2>1. Coming(Listed(p))' = Coming(j)'
    BY <1>1 DEF Listed, Coming, Pricing, Arriving, Values, Lists
  <2> QED BY <1>4, <2>1
<1>11. SaidOf'
  <2>1. PICK k : k = screen.selected
    OBVIOUS
  <2>2. Listed(screen.selected)' = Listed(k) /\ Key' = Key /\ OnTable' = OnTable
    <3>1. UNCHANGED <<items, valued, generation>> /\ screen'.selected = screen.selected
      BY <1>1, <1>3
    <3>2. Listed(screen.selected)' = Listed(k)
      BY <2>1, <3>1 DEF Listed
    <3>3. Key' = Key
      BY <3>1 DEF Key
    <3>4. OnTable' = OnTable
      BY <3>1 DEF OnTable, Listed
    <3> QED BY <3>2, <3>3, <3>4
  <2>3. Coming(Listed(screen.selected))' = Coming(Listed(k))'
    BY <1>1, <1>3, <2>1 DEF Listed, Coming, Pricing, Arriving, Values, Lists
  <2>4. screen'.expanded # None => screen.expanded = screen'.expanded /\ i[2] # k
    BY <1>3, <2>1
  <2>5. Listed(k) = i => i[2] = k
    BY DEF Listed
  <2>6. \/ ~ (~ Relisting /\ net.at # "listing" /\ OnTable /\ screen.expanded # None)
        \/ Coming(Listed(k))
        \/ /\ sessions[Key] # None
           /\ sessions[Key].offer = [of |-> Listed(k), rung |-> screen.expanded]
    BY <2>1 DEF DeskInv, SaidOf
  <2>7. Coming(Listed(k)) => Coming(Listed(k))' \/ Listed(k) = i
    BY <1>10
  <2> QED BY <1>1, <1>2, <2>2, <2>3, <2>4, <2>5, <2>6, <2>7 DEF SaidOf
<1>12. Figures'
  <2>1. ASSUME NEW p \in 1..items.size
        PROVE  /\ \/ Relisting \/ screen'.figures[p] = None
                  \/ screen'.figures[p] = Listed(p) /\ ladder[Listed(p)] # None
               /\ ladder[Listed(p)] # None => Coming(Listed(p))' \/ Drawn(p)'
    <3>1. Listed(p) \in Item /\ p \in Places /\ p <= items.size /\ Listed(p)[2] = p
      BY OnList DEF DeskInv
    <3>2. /\ \/ Relisting \/ screen.figures[p] = None
             \/ screen.figures[p] = Listed(p) /\ ladder[Listed(p)] # None
          /\ ladder[Listed(p)] # None => Coming(Listed(p)) \/ Drawn(p)
      BY DEF DeskInv, Figures
    <3>3. Drawn(p)' <=> /\ ~ Relisting /\ screen'.figures[p] = Listed(p)
                        /\ screen.selected = p => /\ screen'.rungs # None
                                                  /\ screen'.rungs.item = Listed(p)
      BY <1>2, <1>3, <1>9 DEF Drawn
    <3>4. CASE Relisting
      BY <1>10, <3>2, <3>4 DEF Drawn
    <3>5. CASE ~ Relisting /\ p # i[2]
      BY <1>3, <1>10, <3>1, <3>2, <3>3, <3>5 DEF Drawn
    <3>6. CASE ~ Relisting /\ p = i[2]
      <4>1. i = Listed(p) /\ ladder[i] # None
        BY <1>5, <3>6
      <4>2. screen.rows = items
        BY <3>6 DEF DeskInv, Ordered
      <4>3. screen'.figures[p] = Listed(p)
        BY <1>3, <3>1, <3>6, <4>1, <4>2
      <4>4. [item |-> i, basis |-> x.ladder] # None
        BY <1>1, DeskAssumption DEF Ladder
      <4>5. Drawn(p)'
        BY <1>3, <3>3, <3>6, <4>1, <4>3, <4>4
      <4> QED BY <4>1, <4>3, <4>5
    <3> QED BY <3>4, <3>5, <3>6
  <2> QED BY <1>1, <1>2, <1>9, <2>1 DEF Figures
<1> QED
  BY <1>6, <1>7, <1>8, <1>11, <1>12

\* A signal is delivered, of whatever kind.
LEMMA DeliverKept ==
    ASSUME DeskInv, Deliver
    PROVE  Threads' /\ Ordered' /\ Figures' /\ SaidOf' /\ Counts'
<1>1. Head(queue) \in Signal /\ queue # <<>>
  BY DEF Deliver, DeskInv, DeskTypeOK
<1>2. CASE Head(queue).kind = "settled_trade"
  <2>1. screen' = TurnedTo(screen, Head(queue).place) /\ Head(queue).place \in Places
    BY <1>1, <1>2, SignalFields DEF Deliver, SettledAt
  <2>2. /\ Relisting' = Relisting /\ Untotalled' = Untotalled
        /\ \A i : Arriving(i)' = Arriving(i)
        /\ \A R : RelistsTo(R) => RelistsTo(R)'
        /\ \A T : Totals(T) => Totals(T)'
    BY <1>1, <1>2, SettledTaken DEF Deliver, DeskInv
  <2>3. UNCHANGED <<controller, thread, sessions>>
    BY DEF Deliver
  <2> QED BY <2>1, <2>2, <2>3, TurnedKept
<1> QED
  BY <1>1, <1>2, RelistKept, ShowKept, SignalFields

-----------------------------------------------------------------------------
(***************************************************************************)
(* The user's clicks.                                                      *)
(***************************************************************************)
\* A rung is offered: the rungs are those of the selected item, or its price is on its way.
LEMMA OfferKept ==
    ASSUME DeskInv, NEW rung \in Rungs, Offer(rung)
    PROVE  Threads' /\ Ordered' /\ Figures' /\ SaidOf' /\ Counts'
<1> USE DEF controller, thread
<1>1. /\ queue' = queue /\ screen' = [screen EXCEPT !.expanded = rung] /\ screen.rungs # None
      /\ UNCHANGED <<generation, picked, items, valued, manual, ladder, overruled, inflight, net>>
  BY DEF Offer
<1>2. /\ screen'.rows = screen.rows /\ screen'.figures = screen.figures
      /\ screen'.selected = screen.selected /\ screen'.rungs = screen.rungs
      /\ screen'.total = screen.total /\ screen'.expanded = rung
  BY <1>1, DeskFields DEF DeskInv, Screen
<1>3. Threads' /\ Ordered' /\ Figures' /\ Counts'
  BY <1>1, <1>2, QueueSame, Framed
<1>4. SaidOf'
  <2> PICK k : k = screen.selected
    OBVIOUS
  <2> SUFFICES ASSUME ~ Relisting', net'.at # "listing", OnTable',
                      ~ Coming(Listed(screen.selected))'
               PROVE  /\ sessions'[Key'] # None
                      /\ sessions'[Key'].offer =
                            [of |-> Listed(screen.selected)', rung |-> screen'.expanded]
    BY DEF SaidOf
  <2>1. Listed(screen.selected)' = Listed(k) /\ Key' = Key
    BY <1>1, <1>2 DEF Listed, Key
  <2>2. OnTable
    BY <1>1, <1>2 DEF OnTable, Listed
  <2>3. ~ Coming(Listed(k))
    BY <1>1, <1>2 DEF Coming, Pricing, Arriving, Values, Lists, Listed
  <2>4. k \in 1..items.size /\ Listed(k) \in valued /\ Listed(k) \in Item
    BY <2>2, OnList DEF OnTable, DeskInv
  <2>5. screen.rungs.item = Listed(k)
    <3>1. ladder[Listed(k)] # None
      BY <2>3, <2>4 DEF DeskInv, Threads, Coming
    <3> QED BY <2>3, <2>4, <3>1 DEF DeskInv, Figures, Drawn
  <2>6. Key = Listed(k)
    BY <1>1 DEF DeskInv, Threads, Key, Listed
  <2> DEFINE f == IF screen.expanded # None THEN Refused(sessions) ELSE sessions
             said == [of |-> Listed(k), rung |-> rung]
  <2>7. f \in [Item -> Session \cup {None}] /\ sessions' = Offered(f, rung)
    BY RefusedIsSessions DEF DeskInv, DeskTypeOK, Offer
  <2> HIDE DEF f
  <2>8. sessions'[Key] # None /\ sessions'[Key].offer = said
    <3>1. said \in Quoted
      BY <2>4 DEF Quoted
    <3> HIDE DEF said
    <3>2. CASE f[Key] = None \/ ~ f[Key].open
      <4> DEFINE new == [about |-> Listed(k), open |-> TRUE, offer |-> said]
      <4>1. sessions' = [f EXCEPT ![Key] = new]
        BY <2>2, <2>5, <2>7, <3>2 DEF Offered, said
      <4>2. new \in Session /\ new.offer = said
        BY <2>4, <3>1 DEF Session
      <4> HIDE DEF new
      <4>3. sessions'[Key] = new
        BY <2>4, <2>6, <2>7, <4>1
      <4> QED BY <4>2, <4>3, DeskAssumption
    <3>3. CASE ~ (f[Key] = None \/ ~ f[Key].open)
      <4> DEFINE new == [f[Key] EXCEPT !.offer = said]
      <4>1. sessions' = [f EXCEPT ![Key] = new]
        BY <2>2, <2>5, <2>7, <3>3 DEF Offered, said
      <4>2. f[Key] \in Session
        BY <2>4, <2>6, <2>7, <3>3
      <4>3. new \in Session /\ new.offer = said
        BY <3>1, <4>2 DEF Session
      <4> HIDE DEF new
      <4>4. sessions'[Key] = new
        BY <2>4, <2>6, <2>7, <4>1
      <4> QED BY <4>3, <4>4, DeskAssumption
    <3> QED BY <3>2, <3>3
  <2> QED BY <1>2, <2>1, <2>8
<1> QED
  BY <1>3, <1>4

\* A rung folds: it is folded, turned down or confirmed.
LEMMA FoldedKept ==
    ASSUME DeskInv, queue' = queue, screen' = [screen EXCEPT !.expanded = None],
           UNCHANGED <<controller, thread>>
    PROVE  Threads' /\ Ordered' /\ Figures' /\ SaidOf' /\ Counts'
<1> USE DEF controller, thread
<1>1. /\ screen'.rows = screen.rows /\ screen'.figures = screen.figures
      /\ screen'.selected = screen.selected /\ screen'.rungs = screen.rungs
      /\ screen'.total = screen.total /\ screen'.expanded = None
  BY DeskFields DEF DeskInv, Screen
<1>2. Threads' /\ Ordered' /\ Figures' /\ Counts'
  BY <1>1, QueueSame, Framed
<1>3. SaidOf'
  BY <1>1 DEF SaidOf
<1> QED
  BY <1>2, <1>3

\* The screen and the sessions stay, and the queue has at most one more trade.
LEMMA ShownKept ==
    ASSUME DeskInv,
           Relisting' = Relisting, Untotalled' = Untotalled,
           \A i : Arriving(i)' = Arriving(i),
           \A R : RelistsTo(R) => RelistsTo(R)',
           \A T : Totals(T) => Totals(T)',
           inflight' \subseteq inflight,
           UNCHANGED <<generation, picked, items, valued, manual, overruled, ladder, net, screen,
                       sessions>>
    PROVE  Threads' /\ Ordered' /\ Figures' /\ SaidOf' /\ Counts'
<1>1. Threads' /\ Ordered' /\ Figures' /\ Counts'
  BY Framed
<1>2. SaidOf'
  <2> PICK k : k = Listed(screen.selected)
    OBVIOUS
  <2>1. /\ Listed(screen.selected)' = k /\ Key' = Key /\ OnTable' = OnTable
    BY DEF Listed, Key, OnTable
  <2>2. Coming(k)' = Coming(k)
    BY DEF Coming, Pricing
  <2>3. Coming(Listed(screen.selected))' = Coming(k)'
    BY DEF Coming, Pricing, Arriving, Values, Lists, Listed
  <2> QED BY <2>1, <2>2, <2>3 DEF DeskInv, SaidOf
<1> QED
  BY <1>1, <1>2

\* An estimate is typed: its ladder is shown at once, whatever list the rows are of.
LEMMA OverrideKept ==
    ASSUME DeskInv, NEW typed \in BOOLEAN, Override(typed)
    PROVE  Threads' /\ Ordered' /\ Figures' /\ SaidOf' /\ Counts'
<1> USE DEF thread
<1> PICK i, basis : /\ i = Listed(dialog.index)
                    /\ basis = IF typed THEN "manual" ELSE "market"
  OBVIOUS
<1>1. /\ queue' = queue /\ dialog.index \in Places
      /\ UNCHANGED <<generation, picked, items, valued, net, inflight, sessions>>
  BY DEF Override, DeskInv, DeskTypeOK
<1>2. CASE dialog.index <= items.size /\ i \in valued
  <2>1. /\ ladder' = [ladder EXCEPT ![i] = basis]
        /\ screen' = [Showing(screen, i, ladder'[i]) EXCEPT !.total = Counted(manual')]
        /\ overruled' = overruled \cup {items.of}
    BY <1>2 DEF Override, Reestimate
  <2>2. i \in Item /\ basis \in Basis /\ i[2] = dialog.index /\ i = Listed(i[2])
    BY <1>2 DEF DeskInv, DeskTypeOK, Basis, Listed
  <2>3. ladder'[i] = basis /\ \A j \in Item : j # i => ladder'[j] = ladder[j]
    BY <2>1, <2>2 DEF DeskInv, DeskTypeOK
  <2>4. ladder'[i] # None /\ (\A j \in Item : ladder[j] # None => ladder'[j] # None)
    BY <2>2, <2>3, DeskAssumption
  <2>5. /\ screen'.rows = screen.rows /\ screen'.selected = screen.selected
        /\ screen'.figures = [p \in Places |->
              IF p = i[2] /\ i[2] <= screen.rows.size THEN i ELSE screen.figures[p]]
        /\ screen'.rungs = IF i[2] = screen.selected THEN [item |-> i, basis |-> basis]
                                                     ELSE screen.rungs
        /\ screen'.expanded = IF i[2] = screen.selected THEN None ELSE screen.expanded
    <3> PICK t : t = Showing(screen, i, basis)
      OBVIOUS
    <3>1. /\ t \in Screen /\ t.rows = screen.rows /\ t.selected = screen.selected
          /\ t.figures = [p \in Places |->
                IF p = i[2] /\ i[2] <= screen.rows.size THEN i ELSE screen.figures[p]]
          /\ t.rungs = IF i[2] = screen.selected THEN [item |-> i, basis |-> basis]
                                                 ELSE screen.rungs
          /\ t.expanded = IF i[2] = screen.selected THEN None ELSE screen.expanded
      BY <2>2, ShowingFields, DeskFields DEF DeskInv
    <3>2. screen' = [t EXCEPT !.total = Counted(manual')]
      BY <2>1, <2>3
    <3>3. /\ screen'.rows = t.rows /\ screen'.selected = t.selected
          /\ screen'.figures = t.figures /\ screen'.rungs = t.rungs
          /\ screen'.expanded = t.expanded
      BY <3>1, <3>2 DEF Screen
    <3> QED BY <3>1, <3>3
  <2>6. /\ \A j : Pricing(j)' = Pricing(j)
        /\ \A j : Coming(j)' = Coming(j)
    BY <1>1, QueueSame DEF Pricing, Coming
  <2>7. Threads'
    <3>1. \A j \in Item : ladder'[j] # None => j \in valued
      BY <1>2, <2>3 DEF DeskInv, Threads
    <3>2. \A j \in valued : ladder'[j] # None \/ Pricing(j)
      BY <2>4 DEF DeskInv, Threads, DeskTypeOK
    <3> QED BY <1>1, <2>6, <3>1, <3>2 DEF DeskInv, Threads
  <2>8. Ordered'
    BY <1>1, <2>4, <2>5, QueueSame DEF DeskInv, Ordered
  <2>9. Counts'
    BY <1>1, <2>1 DEF Counts
  <2>10. \A p : Listed(p)' = Listed(p)
    BY <1>1 DEF Listed
  <2>11. ASSUME NEW p PROVE Coming(Listed(p))' = Coming(Listed(p))
    <3> PICK j : j = Listed(p)
      OBVIOUS
    <3>1. Coming(Listed(p))' = Coming(j)'
      BY <1>1 DEF Listed, Coming, Pricing, Arriving, Values, Lists
    <3> QED BY <2>6, <3>1
  <2>12. SaidOf'
    <3> PICK k : k = screen.selected
      OBVIOUS
    <3>1. Listed(screen.selected)' = Listed(k) /\ Key' = Key
      BY <1>1, <2>5 DEF Listed, Key
    <3>2. OnTable' = OnTable
      <4>1. UNCHANGED <<items, valued>> /\ screen'.selected = screen.selected
        BY <1>1, <2>5
      <4> QED BY <4>1 DEF OnTable, Listed
    <3>3. Coming(Listed(screen.selected))' = Coming(Listed(k))
      <4>1. Coming(Listed(screen.selected))' = Coming(Listed(k))'
        BY <1>1, <2>5 DEF Listed, Coming, Pricing, Arriving, Values, Lists
      <4> QED BY <2>11, <4>1
    <3>4. screen'.expanded # None => screen'.expanded = screen.expanded
      BY <2>5
    <3>5. \/ ~ (~ Relisting /\ net.at # "listing" /\ OnTable /\ screen.expanded # None)
          \/ Coming(Listed(k))
          \/ /\ sessions[Key] # None
             /\ sessions[Key].offer = [of |-> Listed(k), rung |-> screen.expanded]
      BY DEF DeskInv, SaidOf
    <3> QED BY <1>1, <3>1, <3>2, <3>3, <3>4, <3>5, QueueSame DEF SaidOf
  <2>13. Figures'
    <3>1. ASSUME NEW p \in 1..items.size
          PROVE  /\ \/ Relisting \/ screen'.figures[p] = None
                    \/ screen'.figures[p] = Listed(p) /\ ladder'[Listed(p)] # None
                 /\ ladder'[Listed(p)] # None => Coming(Listed(p)) \/ Drawn(p)'
      <4>1. Listed(p) \in Item /\ p \in Places /\ p <= items.size /\ Listed(p)[2] = p
        BY OnList DEF DeskInv
      <4>2. /\ \/ Relisting \/ screen.figures[p] = None
               \/ screen.figures[p] = Listed(p) /\ ladder[Listed(p)] # None
            /\ ladder[Listed(p)] # None => Coming(Listed(p)) \/ Drawn(p)
        BY DEF DeskInv, Figures
      <4>3. Drawn(p)' <=> /\ ~ Relisting /\ screen'.figures[p] = Listed(p)
                          /\ screen.selected = p => /\ screen'.rungs # None
                                                    /\ screen'.rungs.item = Listed(p)
        BY <1>1, <2>5, <2>10, QueueSame DEF Drawn
      <4>4. CASE p # i[2]
        <5>1. ladder'[Listed(p)] = ladder[Listed(p)]
          BY <2>3, <4>1, <4>4
        <5> QED BY <2>5, <4>1, <4>2, <4>3, <4>4, <5>1 DEF Drawn
      <4>5. CASE p = i[2]
        <5>1. i = Listed(p)
          BY <2>2, <4>5
        <5>2. CASE Relisting
          <6>1. ladder[i] # None \/ Coming(i)
            BY <1>2 DEF DeskInv, Threads, Coming
          <6> QED BY <4>2, <5>1, <5>2, <6>1 DEF Drawn
        <5>3. CASE ~ Relisting
          <6>1. screen.rows = items
            BY <5>3 DEF DeskInv, Ordered
          <6>2. screen'.figures[p] = Listed(p)
            BY <2>5, <4>1, <4>5, <5>1, <6>1
          <6>3. [item |-> i, basis |-> basis] # None
            BY <2>2, DeskAssumption DEF Ladder
          <6>4. Drawn(p)'
            BY <2>5, <4>3, <4>5, <5>1, <5>3, <6>2, <6>3
          <6> QED BY <2>4, <5>1, <6>2, <6>4
        <5> QED BY <5>2, <5>3
      <4> QED BY <4>4, <4>5
    <3> QED BY <1>1, <2>10, <2>11, <3>1, QueueSame DEF Figures
  <2> QED BY <2>7, <2>8, <2>9, <2>12, <2>13
<1>3. CASE ~ (dialog.index <= items.size /\ i \in valued)
  <2>1. UNCHANGED <<manual, ladder, overruled, screen>>
    BY <1>3 DEF Override, Reestimate
  <2> QED BY <1>1, <2>1, QueueSame, ShownKept
<1> QED
  BY <1>2, <1>3

-----------------------------------------------------------------------------
(***************************************************************************)
(* The invariant holds, and what follows from it.                          *)
(***************************************************************************)
\* Nothing is picked, shown or queued at first.
LEMMA DeskInvInit ==
    DeskInit => DeskInv
<1> SUFFICES ASSUME DeskInit PROVE DeskInv
  OBVIOUS
<1>1. /\ generation = 0 /\ picked = 0 /\ items = [of |-> 0, size |-> 0]
      /\ valued = {} /\ manual = {} /\ ladder = [i \in Item |-> None] /\ inflight = {}
      /\ net.at = "idle" /\ queue = <<>> /\ sessions = [i \in Item |-> None] /\ dialog = None
      /\ screen = [rows |-> [of |-> 0, size |-> 0], figures |-> [p \in Places |-> None],
                   selected |-> 0, rungs |-> None, expanded |-> None,
                   known |-> [p \in Places |-> None], total |-> None]
  BY DEF DeskInit, Idle
<1>2. DeskTypeOK
  <2>1. 0 \in 0..MaxSelections /\ 0 \in 0..MaxItems
    BY DeskAssumption
  <2>2. [of |-> 0, size |-> 0] \in Chosen
    BY <2>1 DEF Chosen
  <2>3. screen \in Screen
    BY <1>1, <2>1, <2>2 DEF Screen
  <2>4. net \in Doing
    BY DEF DeskInit, Doing
  <2>5. queue \in Seq(Signal)
    BY <1>1
  <2> QED BY <1>1, <2>1, <2>2, <2>3, <2>4, <2>5 DEF DeskTypeOK
<1>3. DOMAIN queue = {}
  BY <1>1
<1>4. Threads
  BY <1>1 DEF Threads, Pricing
<1>5. Ordered
  BY <1>1, <1>3 DEF Ordered, RelistsTo, Relisting, Arriving
<1>6. Figures
  BY <1>1 DEF Figures
<1>7. SaidOf
  BY <1>1 DEF SaidOf
<1>8. Counts
  BY <1>1, <1>3 DEF Counts, Totals, Counted
<1> QED
  BY <1>2, <1>4, <1>5, <1>6, <1>7, <1>8 DEF DeskInv

\* Every step keeps the invariant.
LEMMA DeskInvKept ==
    DeskInv /\ [Next]_vars => DeskInv'
<1> SUFFICES ASSUME DeskInv, [Next]_vars PROVE DeskInv'
  OBVIOUS
<1>0. DeskTypeOK'
  <2>1. generation \in Nat /\ items.of \in Nat
    BY DeskFields DEF DeskInv
  <2>2. net.at = "listing" => generation # 0
    BY <2>1 DEF DeskInv, Threads
  <2> QED BY <2>2, DeskTypeKept DEF DeskInv
<1> USE DEF controller, thread, window
<1>1. ASSUME NEW i \in Item, Drop(i) \/ Fail(i)
      PROVE  Threads' /\ Ordered' /\ Figures' /\ SaidOf' /\ Counts'
  BY <1>1, QueueSame, ShownKept DEF Drop, Fail
<1>2. ASSUME NEW place \in Places, Settle(place)
      PROVE  Threads' /\ Ordered' /\ Figures' /\ SaidOf' /\ Counts'
  <2> PICK x : x = [kind |-> "settled_trade", place |-> place]
    OBVIOUS
  <2>1. queue' = Append(queue, x) /\ x.kind = "settled_trade"
    BY <1>2 DEF Settle
  <2>2. /\ Relisting' = Relisting /\ Untotalled' = Untotalled
        /\ \A i : Arriving(i)' = Arriving(i)
        /\ \A R : RelistsTo(R) => RelistsTo(R)'
        /\ \A T : Totals(T) => Totals(T)'
    BY <2>1, SettledAdded DEF DeskInv
  <2>3. UNCHANGED <<generation, picked, items, valued, manual, overruled, ladder, net, inflight,
                    screen, sessions>>
    BY <1>2 DEF Settle
  <2> QED BY <2>2, <2>3, ShownKept
<1>3. ASSUME NEW place \in Places, Turn(place)
      PROVE  Threads' /\ Ordered' /\ Figures' /\ SaidOf' /\ Counts'
  <2>1. /\ queue' = queue /\ screen' = TurnedTo(screen, place)
        /\ UNCHANGED <<controller, thread, sessions>>
    BY <1>3 DEF Turn
  <2> QED BY <2>1, QueueSame, TurnedKept
<1>4. ASSUME Fold \/ Reject \/ Confirm
      PROVE  Threads' /\ Ordered' /\ Figures' /\ SaidOf' /\ Counts'
  <2>1. /\ queue' = queue /\ screen' = [screen EXCEPT !.expanded = None]
        /\ UNCHANGED <<controller, thread>>
    BY <1>4 DEF Fold, Reject, Confirm
  <2> QED BY <2>1, FoldedKept
<1>5. ASSUME OpenBreakdown \/ CloseBreakdown \/ UNCHANGED vars
      PROVE  Threads' /\ Ordered' /\ Figures' /\ SaidOf' /\ Counts'
  <2>1. /\ queue' = queue
        /\ UNCHANGED <<generation, picked, items, valued, manual, overruled, ladder, net, inflight,
                       screen, sessions>>
    BY <1>5 DEF OpenBreakdown, CloseBreakdown, vars
  <2> QED BY <2>1, QueueSame, ShownKept
<1>6. Threads' /\ Ordered' /\ Figures' /\ SaidOf' /\ Counts'
  BY <1>1, <1>2, <1>3, <1>4, <1>5, PickKept, ListKept, ValueKept, QuoteKept, DeliverKept, OfferKept,
     OverrideKept DEF Next, Net
<1> QED
  BY <1>0, <1>6 DEF DeskInv

\* The invariant holds in every state.
THEOREM DeskInvHolds ==
    DeskSpec => []DeskInv
<1> QED
  BY DeskInvInit, DeskInvKept, PTL DEF DeskSpec

\* With both threads quiet nothing is on its way.
LEMMA QuietMeansShown ==
    ASSUME DeskInv, Quiet
    PROVE  /\ ~ Relisting /\ Untotalled /\ net.at = "idle"
           /\ \A i : ~ Coming(i)
<1>1. DOMAIN queue = {} /\ net.at = "idle"
  BY DEF Quiet, Idle
<1> QED
  BY <1>1 DEF Relisting, Untotalled, Coming, Pricing, Arriving

\* Once both threads are quiet, the window shows the rows, prices, total and rungs the
\* controller has, in whatever order selections, late valuations, clicks and signals came.
THEOREM ScreenCatchesUpHolds ==
    DeskSpec => []ScreenCatchesUp
<1>1. DeskInv => ScreenCatchesUp
  <2> SUFFICES ASSUME DeskInv, Quiet
               PROVE  /\ screen.rows = items
                      /\ \A p \in 1..items.size :
                            screen.figures[p] = IF ladder[Listed(p)] # None THEN Listed(p) ELSE None
                      /\ items.of \in overruled \/ screen.total = Counted(manual)
                      /\ OnTable => /\ screen.rungs # None
                                    /\ screen.rungs.item = Listed(screen.selected)
    BY DEF ScreenCatchesUp
  <2>1. screen.rows = items
    BY QuietMeansShown DEF DeskInv, Ordered
  <2>2. ASSUME NEW p \in 1..items.size
        PROVE  screen.figures[p] = IF ladder[Listed(p)] # None THEN Listed(p) ELSE None
    BY QuietMeansShown DEF DeskInv, Figures, Drawn
  <2>3. items.of \in overruled \/ screen.total = Counted(manual)
    BY QuietMeansShown DEF DeskInv, Counts
  <2>4. ASSUME OnTable
        PROVE  screen.rungs # None /\ screen.rungs.item = Listed(screen.selected)
    <3>1. ladder[Listed(screen.selected)] # None
      BY <2>4, QuietMeansShown DEF DeskInv, Threads, OnTable, Coming
    <3> QED BY <2>4, <3>1, QuietMeansShown DEF DeskInv, Figures, Drawn, OnTable
  <2> QED BY <2>1, <2>2, <2>3, <2>4
<1> QED
  BY <1>1, DeskInvHolds, PTL

\* A rung that is expanded, once both threads are quiet, is the offer of the session of the
\* item that is selected.
THEOREM ExpandedWasOfferedHolds ==
    DeskSpec => []ExpandedWasOffered
<1>1. DeskInv => ExpandedWasOffered
  BY QuietMeansShown DEF DeskInv, SaidOf, ExpandedWasOffered
<1> QED
  BY <1>1, DeskInvHolds, PTL

-----------------------------------------------------------------------------
(***************************************************************************)
(* The configuration.                                                      *)
(***************************************************************************)
\* Each editor steps on its own; only a restart steps all three.
LEMMA EditorSteps ==
    ASSUME [ConfigNext]_configVars
    PROVE  /\ \/ PricesStep \/ HandEditPrices \/ FetchReturns \/ ShowReply \/ RestartPrices
              \/ UNCHANGED priceVars
           /\ \/ SettingsStep \/ HandEditSettings \/ (\E flags : SettingsStart(flags))
              \/ UNCHANGED settingsVars
           /\ RulesStep \/ HandEdit \/ RestartRules \/ UNCHANGED ruleVars
BY DEF ConfigNext, configVars, OnRules, OnPrices, OnSettings, Background, Restart

-----------------------------------------------------------------------------
(***************************************************************************)
(* The prices.                                                             *)
(***************************************************************************)
\* A price and a level that may stand together.
MayStand(price, level) == price \in TypedCoins \/ <<price, level>> \in Pairs

\* A table with a price of every enchantment, of one source with its level or the tier.
Sourced(table) ==
    /\ Enchants \subseteq DOMAIN table.price
    /\ DOMAIN DefaultTable.level \subseteq DOMAIN table.level
    /\ \A e \in Enchants : \/ TierTyped(table, e)
                           \/ MayStand(table.price[e], ReferenceLevel(table, e))

\* The same of the screen, whose levels are those of the table behind it.
ScreenSourced ==
    /\ Enchants \subseteq DOMAIN cells
    /\ DOMAIN DefaultTable.level \subseteq DOMAIN base.level
    /\ \A e \in Enchants : \/ cells[e] = Illegible \/ TierTyped(Collected, e)
                           \/ MayStand(cells[e], ReferenceLevel(Collected, e))

PricesInv ==
    /\ Sourced(applied) /\ Sourced(LoadValues(store)) /\ ScreenSourced
    /\ reply \in Quotes \cup {Failed, Nothing}

\* What the application writes itself is never taken for a file it cannot read.
LEMMA TableIsLegible == ASSUME NEW price, NEW level, NEW tier
                        PROVE  [price |-> price, level |-> level, tier |-> tier] # Spoilt
<1> DEFINE table == [price |-> price, level |-> level, tier |-> tier]
<1>1. "price" \in DOMAIN table /\ "price" \notin DOMAIN Spoilt
  BY DEF Spoilt
<1> QED BY <1>1

LEMMA LoadValuesSourced ==
    ASSUME NEW content \in HandTables \cup {Spoilt}
    PROVE  Sourced(LoadValues(content))
<1> DEFINE table == LoadValues(content)
<1>1. PairsOf(table) \subseteq Pairs
  BY DEF Pairs
<1>2. /\ Enchants \subseteq DOMAIN table.price
      /\ DOMAIN DefaultTable.level \subseteq DOMAIN table.level
  BY PricesAssumption DEF LoadValues, FromDict, Over
<1> HIDE DEF table
<1>3. \A e \in Enchants : <<table.price[e], ReferenceLevel(table, e)>> \in PairsOf(table)
  BY DEF PairsOf
<1> QED BY <1>1, <1>2, <1>3 DEF Sourced, MayStand, table

LEMMA DefaultsSourced == Sourced(DefaultTable)
BY LoadValuesSourced DEF LoadValues

\* A table shown is the table collected, as far as anything reads it.
LEMMA PopulateSourced ==
    ASSUME NEW table, Sourced(table), Populate(table)
    PROVE  ScreenSourced'
<1>1. base' = table /\ cells' = table.price /\ tierBox' = table.tier
  BY DEF Populate
<1> QED
  BY <1>1 DEF Sourced, ScreenSourced, MayStand, Collected, TierTyped, ReferenceLevel, Pairs

LEMMA PricesInit0 == PricesInit => PricesInv
<1> SUFFICES ASSUME PricesInit PROVE PricesInv
  OBVIOUS
<1>1. store = DefaultTable /\ applied = store /\ base = store /\ cells = store.price
      /\ tierBox = store.tier /\ reply = Nothing
  BY DEF PricesInit
<1>2. ScreenSourced
  BY <1>1, DefaultsSourced
     DEF ScreenSourced, Sourced, Collected, TierTyped, ReferenceLevel
<1>3. Sourced(LoadValues(DefaultTable))
  BY DefaultsSourced DEF LoadValues, FromDict, Over, Sourced, TierTyped, ReferenceLevel
<1> QED BY <1>1, <1>2, <1>3, DefaultsSourced DEF PricesInv

\* A save puts on file what is on screen; the file, read back, says the same.
LEMMA SaveSourced ==
    ASSUME PricesInv, SavePrices
    PROVE  PricesInv'
<1> DEFINE table == Collected
<1>1. Sourced(table)
  BY DEF PricesInv, ScreenSourced, SavePrices, Legible, Sourced, Collected
<1>2. LoadValues(table) = FromDict(table)
  BY TableIsLegible DEF LoadValues, Collected
<1>3. /\ FromDict(table).tier = table.tier
      /\ FromDict(table).level = Over(table.level, DefaultTable.level)
      /\ FromDict(table).price = Over(table.price, DefaultTable.price)
  BY DEF FromDict, Collected
<1>4. Sourced(FromDict(table))
  BY <1>1, <1>3 DEF Sourced, Over, TierTyped, ReferenceLevel
<1>5. /\ base' = table /\ store' = table /\ applied' = LoadValues(store')
      /\ cells' = cells /\ tierBox' = tierBox /\ reply' = reply
  BY DEF SavePrices
<1>6. ScreenSourced'
  BY <1>5 DEF PricesInv, ScreenSourced, Collected, TierTyped, ReferenceLevel, MayStand, Pairs
<1>7. Sourced(applied') /\ Sourced(LoadValues(store'))
  BY <1>2, <1>4, <1>5
<1> QED BY <1>5, <1>6, <1>7 DEF PricesInv, Sourced

\* The answer brings its prices with their levels, and leaves the others as they are.
LEMMA ReplySourced ==
    ASSUME PricesInv, ShowReply
    PROVE  ScreenSourced'
<1>1. CASE UNCHANGED <<base, cells, tierBox>>
  BY <1>1 DEF PricesInv, ScreenSourced, Collected, TierTyped, ReferenceLevel, MayStand, Pairs
<1>2. CASE reply \in Quotes /\ Legible /\ Populate(RefreshValues(Collected, reply))
  <2> DEFINE table == RefreshValues(Collected, reply)
  <2>1. \A e \in DOMAIN reply : MayStand(reply[e].price, reply[e].level)
    <3> DEFINE Of(q) == {<<q[e].price, q[e].level>> : e \in DOMAIN q}
    <3>1. Of(reply) \in {Of(q) : q \in Quotes}
      BY <1>2, Zenon
    <3>2. Of(reply) \subseteq Pairs
      BY <3>1, Zenon DEF Pairs
    <3> QED BY <3>2 DEF MayStand
  <2>2. /\ table.price = [e \in DOMAIN cells |->
                             IF e \in DOMAIN reply THEN reply[e].price ELSE cells[e]]
        /\ table.level = Over([e \in DOMAIN reply |-> reply[e].level], base.level)
        /\ table.tier = tierBox
    BY DEF RefreshValues, Collected
  <2> HIDE DEF table
  <2>3. \A e \in Enchants \cap DOMAIN reply :
           table.price[e] = reply[e].price /\ ReferenceLevel(table, e) = reply[e].level
    BY <2>2 DEF ReferenceLevel, Over, PricesInv, ScreenSourced
  <2>4. \A e \in Enchants \ DOMAIN reply :
           /\ table.price[e] = cells[e]
           /\ ReferenceLevel(table, e) = ReferenceLevel(Collected, e)
           /\ TierTyped(table, e) <=> TierTyped(Collected, e)
    BY <2>2 DEF ReferenceLevel, TierTyped, Collected, Over, PricesInv, ScreenSourced
  <2>5. \A e \in Enchants : cells[e] # Illegible
    BY <1>2 DEF Legible, PricesInv, ScreenSourced
  <2>6. /\ Enchants \subseteq DOMAIN table.price
        /\ DOMAIN DefaultTable.level \subseteq DOMAIN table.level
    BY <2>2 DEF PricesInv, ScreenSourced, Over
  <2>7. Sourced(table)
    BY <2>1, <2>3, <2>4, <2>5, <2>6 DEF PricesInv, ScreenSourced, Sourced
  <2> QED BY <1>2, <2>7, PopulateSourced DEF table
<1> QED BY <1>1, <1>2 DEF ShowReply, PricesInv

LEMMA PricesNext == PricesInv /\ [ConfigNext]_configVars => PricesInv'
<1> SUFFICES ASSUME PricesInv, [ConfigNext]_configVars PROVE PricesInv'
  OBVIOUS
<1> USE DEF PricesInv
<1>0. ASSUME UNCHANGED <<base, tierBox>>, Enchants \subseteq DOMAIN cells',
             \A e \in Enchants : \/ cells'[e] \in TypedCoins \cup {Illegible}
                                 \/ cells'[e] = cells[e]
      PROVE  ScreenSourced'
  BY <1>0 DEF ScreenSourced, MayStand, Collected, TierTyped, ReferenceLevel, Pairs
<1>1. CASE TypePrice
  <2>1. PICK m \in DOMAIN cells, coins \in TypedCoins \cup {Illegible} :
            cells' = [cells EXCEPT ![m] = coins]
    BY <1>1 DEF TypePrice
  <2>2. UNCHANGED <<store, applied, base, tierBox, reply>>
    BY <1>1 DEF TypePrice
  <2>3. ScreenSourced'
    BY <1>0, <2>1, <2>2 DEF ScreenSourced
  <2> QED BY <2>2, <2>3 DEF Sourced
<1>2. CASE AddSkin \/ RemoveSkin
  <2>1. /\ UNCHANGED <<store, applied, base, tierBox, reply>> /\ Enchants \subseteq DOMAIN cells'
        /\ \A e \in Enchants : cells'[e] = cells[e]
    BY <1>2, PricesAssumption DEF AddSkin, RemoveSkin, Restrict, ScreenSourced
  <2> QED BY <1>0, <2>1 DEF Sourced
<1>3. CASE SavePrices
  BY <1>3, SaveSourced
<1>4. CASE ReloadPrices \/ RestoreDefaultPrices
  <2>1. ScreenSourced'
    BY <1>4, PopulateSourced, DefaultsSourced DEF ReloadPrices, RestoreDefaultPrices
  <2> QED BY <1>4, <2>1 DEF ReloadPrices, RestoreDefaultPrices, Sourced
<1>5. CASE Fetch \/ FetchReturns
  <2>1. /\ UNCHANGED <<store, applied, base, cells, tierBox>>
        /\ reply' \in Quotes \cup {Failed, Nothing}
    BY <1>5 DEF Fetch, FetchReturns
  <2>2. ScreenSourced'
    BY <1>0, <2>1 DEF ScreenSourced
  <2> QED BY <2>1, <2>2 DEF Sourced
<1>6. CASE ShowReply
  BY <1>6, ReplySourced DEF ShowReply, Sourced
<1>7. CASE HandEditPrices
  <2>1. Sourced(LoadValues(store'))
    BY <1>7, LoadValuesSourced DEF HandEditPrices
  <2>2. UNCHANGED <<applied, base, cells, tierBox, reply>>
    BY <1>7 DEF HandEditPrices
  <2>3. ScreenSourced'
    BY <1>0, <2>2 DEF ScreenSourced
  <2> QED BY <2>1, <2>2, <2>3 DEF Sourced
<1>8. CASE RestartPrices
  <2>1. ScreenSourced'
    BY <1>8, PopulateSourced DEF RestartPrices
  <2>2. store' = store /\ applied' = LoadValues(store) /\ reply' = Nothing
    BY <1>8 DEF RestartPrices
  <2> QED BY <2>1, <2>2 DEF Sourced
<1>9. CASE TypeTier
  <2>1. tierBox' \in TypedTiers /\ UNCHANGED <<store, applied, base, cells, reply>>
    BY <1>9 DEF TypeTier
  <2>2. ScreenSourced'
    BY <2>1 DEF ScreenSourced, Collected, TierTyped, ReferenceLevel, MayStand, Pairs
  <2> QED BY <2>1, <2>2 DEF Sourced
<1>10. CASE UNCHANGED priceVars
  <2>1. UNCHANGED <<store, applied, base, cells, tierBox, reply>>
    BY <1>10 DEF priceVars
  <2>2. ScreenSourced'
    BY <1>0, <2>1 DEF ScreenSourced
  <2> QED BY <2>1, <2>2 DEF Sourced
<1> QED
  BY <1>1, <1>2, <1>3, <1>4, <1>5, <1>6, <1>7, <1>8, <1>9, <1>10, EditorSteps DEF PricesStep

LEMMA PricesHold == ConfigSpec => []PricesInv
BY PricesInit0, PricesNext, PTL DEF ConfigSpec, ConfigInit

\* No valuation reads a price beside a level of another source (SavePrices,
\* refresh_values), whatever the bazaar answers between which edits: each price that
\* nobody typed came with its level, or the user has set the level of all that have none.
THEOREM PriceAtItsLevelHolds == ConfigSpec => []PriceAtItsLevel
<1>1. PricesInv => PriceAtItsLevel
  BY DEF PricesInv, Sourced, MayStand, PriceAtItsLevel
<1> QED BY <1>1, PricesHold, PTL

\* The answer to a fetch changes no cell but those it has a price for, however the screen
\* was edited while it was under way, and none if it failed or cannot be shown
\* (_on_bazaar_prices).
THEOREM EditsSurviveFetchHolds == ConfigSpec => EditsSurviveFetch
<1> DEFINE Survive == /\ tierBox' = tierBox
                      /\ IF reply = Failed \/ ~Legible
                         THEN cells' = cells
                         ELSE /\ DOMAIN cells' = DOMAIN cells
                              /\ \A m \in DOMAIN cells \ DOMAIN reply : cells'[m] = cells[m]
<1>1. ShowReply => Survive
  BY DEF ShowReply, Populate, RefreshValues, Collected
<1>2. [ConfigNext]_configVars => [ShowReply => Survive]_priceVars
  BY <1>1
<1> QED
  BY <1>2, PTL DEF ConfigSpec, EditsSurviveFetch

-----------------------------------------------------------------------------
(***************************************************************************)
(* The settings.                                                           *)
(***************************************************************************)
SettingKeys == {"port", "min", "margin", "hourly", "tags", "dir", "rules"}

Complete(s) == s = [key \in SettingKeys |-> s[key]]

SettingsInv == Complete(settings) /\ Home \in DOMAIN files /\ RestartChangesNothing

LEMMA LoadSettingsFields ==
    ASSUME NEW content
    PROVE  /\ Complete(LoadSettings(content))
           /\ \A key \in SettingKeys :
                 LoadSettings(content)[key] =
                    IF key \in DOMAIN content THEN content[key] ELSE DefaultSettings[key]
BY DEF LoadSettings, DefaultSettings, Complete, SettingKeys

\* What a start makes of home's file and of the command line, key by key.
StartsFrom(read, flags) ==
    [read EXCEPT
        !.dir = Given(flags.dir, @), !.port = Given(flags.port, @),
        !.tags = Warmed(flags, @)]

LEMMA StartFields ==
    ASSUME NEW read, Complete(read), NEW flags
    PROVE  /\ Complete(StartsFrom(read, flags))
           /\ \A key \in {"min", "margin", "hourly", "rules"} :
                 StartsFrom(read, flags)[key] = read[key]
           /\ StartsFrom(read, flags).dir = Given(flags.dir, read.dir)
           /\ StartsFrom(read, flags).port = Given(flags.port, read.port)
           /\ StartsFrom(read, flags).tags = Warmed(flags, read.tags)
BY DEF Complete, SettingKeys, StartsFrom

LEMMA PlainFlags == Plain.dir = Unset /\ Plain.port = Unset /\ Plain.prefetch = TRUE
BY DEF Plain

\* A plain start finds in a file that was written there what was in force, but for what
\* such a file leaves out.
LEMMA WrittenIsRead ==
    ASSUME NEW s, Complete(s), s.dir = Home, NEW key \in SettingKeys, key \notin Unwritten(s)
    PROVE  StartsFrom(LoadSettings(Written(s)), Plain)[key] = s[key]
<1> DEFINE read == LoadSettings(Written(s))
<1>1. /\ Complete(read) /\ read.port = s.port /\ read.min = s.min /\ read.margin = s.margin
      /\ read.hourly = s.hourly /\ read.tags = s.tags /\ read.dir = Home /\ read.rules = Unset
  BY LoadSettingsFields DEF Written, DefaultSettings, SettingKeys
<1> HIDE DEF read
<1>2. /\ StartsFrom(read, Plain).dir = Home /\ StartsFrom(read, Plain).port = s.port
      /\ StartsFrom(read, Plain).tags = IF s.tags = "none" THEN "hot" ELSE s.tags
      /\ \A k \in {"min", "margin", "hourly", "rules"} : StartsFrom(read, Plain)[k] = read[k]
  <2>1. /\ StartsFrom(read, Plain).dir = Given(Plain.dir, read.dir)
        /\ StartsFrom(read, Plain).port = Given(Plain.port, read.port)
        /\ StartsFrom(read, Plain).tags = Warmed(Plain, read.tags)
        /\ \A k \in {"min", "margin", "hourly", "rules"} : StartsFrom(read, Plain)[k] = read[k]
    BY <1>1, StartFields
  <2> QED BY <1>1, <2>1, PlainFlags DEF Given, Warmed
<1> QED BY <1>1, <1>2 DEF Unwritten, SettingKeys, read

LEMMA SettingsInit0 == SettingsInit => SettingsInv
<1> SUFFICES ASSUME SettingsInit PROVE SettingsInv
  OBVIOUS
<1>1. /\ Complete(settings) /\ settings.dir = Home /\ Unwritten(settings) = {}
      /\ DOMAIN settings = SettingKeys
  BY DEF SettingsInit, Complete, DefaultSettings, SettingKeys, Unwritten
<1>2. files[Home] = Written(settings) /\ Home \in DOMAIN files
  BY HomeAssumption DEF SettingsInit
<1>3. \A key \in SettingKeys : Started(Plain)[key] = settings[key]
  <2>1. Started(Plain) = StartsFrom(LoadSettings(files[Home]), Plain)
    BY DEF Started, StartsFrom
  <2> QED BY <1>1, <1>2, <2>1, WrittenIsRead
<1> QED BY <1>1, <1>2, <1>3 DEF SettingsInv, RestartChangesNothing

\* A start leaves the next one what it put in force, but for what the command line said.
LEMMA SettingsStartKept ==
    ASSUME SettingsInv, NEW flags, SettingsStart(flags)
    PROVE  SettingsInv'
<1> DEFINE s == Started(flags)
           read == LoadSettings(files[Home])
<1>1. s = StartsFrom(read, flags) /\ Started(Plain) = StartsFrom(read, Plain) /\ Complete(read)
  BY LoadSettingsFields DEF Started, StartsFrom
<1>2. Complete(s) /\ DOMAIN s = SettingKeys
  <2>1. Complete(s)
    <3> HIDE DEF read
    <3> QED BY <1>1, StartFields
  <2> HIDE DEF s
  <2> QED BY <2>1 DEF Complete
<1>3. settings' = s /\ Home \in DOMAIN files'
  BY DEF SettingsStart, SettingsInv
<1>4. Started(Plain)' = StartsFrom(LoadSettings(files'[Home]), Plain)
  BY DEF Started, StartsFrom, LoadSettings, DefaultSettings, Plain, Given, Warmed
<1>5. CASE files[s.dir] = Missing /\ s.dir = Home
  <2>1. files'[Home] = Written(s) /\ astray' = Unwritten(s)
    BY <1>5 DEF SettingsStart, SettingsInv
  <2> QED
    BY <1>2, <1>3, <1>4, <1>5, <2>1, WrittenIsRead
       DEF SettingsInv, RestartChangesNothing, Complete
<1>6. CASE ~(files[s.dir] = Missing /\ s.dir = Home)
  <2>1. files'[Home] = files[Home] /\ astray' = Overridden(flags)
    BY <1>6 DEF SettingsStart, SettingsInv
  <2>2. ASSUME NEW key \in SettingKeys, key \notin Overridden(flags)
        PROVE  StartsFrom(read, Plain)[key] = StartsFrom(read, flags)[key]
    <3> HIDE DEF read
    <3>1. /\ key = "dir" => flags.dir = Unset
          /\ key = "port" => flags.port = Unset
          /\ key = "tags" => flags.prefetch
      BY <2>2 DEF Overridden
    <3>2. key \in {"min", "margin", "hourly", "rules"} \/ key \in {"dir", "port", "tags"}
      BY DEF SettingKeys
    <3>3. CASE key \in {"min", "margin", "hourly", "rules"}
      <4> DEFINE Same(f) == \A k \in {"min", "margin", "hourly", "rules"} :
                               StartsFrom(read, f)[k] = read[k]
      <4>1. \A f : Same(f)
        BY <1>1, StartFields
      <4>2. Same(Plain) /\ Same(flags)
        BY <4>1
      <4> QED BY <3>3, <4>2
    <3>4. CASE key \in {"dir", "port", "tags"}
      <4>1. /\ StartsFrom(read, Plain).dir = Given(Plain.dir, read.dir)
            /\ StartsFrom(read, Plain).port = Given(Plain.port, read.port)
            /\ StartsFrom(read, Plain).tags = Warmed(Plain, read.tags)
        BY <1>1, StartFields
      <4>2. /\ StartsFrom(read, flags).dir = Given(flags.dir, read.dir)
            /\ StartsFrom(read, flags).port = Given(flags.port, read.port)
            /\ StartsFrom(read, flags).tags = Warmed(flags, read.tags)
        BY <1>1, StartFields
      <4> QED BY <3>1, <3>4, <4>1, <4>2, PlainFlags DEF Given, Warmed
    <3> QED BY <3>2, <3>3, <3>4
  <2> QED BY <1>1, <1>2, <1>3, <1>4, <2>1, <2>2 DEF SettingsInv, RestartChangesNothing, Complete
<1> QED BY <1>5, <1>6

\* A save puts home's file in step with the settings, or is astray.
LEMMA SettingsSaveKept ==
    ASSUME SettingsInv, SaveSettings
    PROVE  SettingsInv'
<1>1. Complete(settings') /\ DOMAIN settings' = SettingKeys /\ DOMAIN settings = SettingKeys
  BY DEF SaveSettings, SettingsInv, Applied, WithAmount, Complete, SettingKeys
<1>2. \A key \in SettingKeys \ (Boxes \cup {"hourly"}) : settings'[key] = settings[key]
  BY DEF SaveSettings, SettingsInv, Applied, WithAmount, Complete, SettingKeys, Boxes
<1>3. Home \in DOMAIN files'
  BY DEF SaveSettings, SettingsInv
<1>4. Started(Plain)' = StartsFrom(LoadSettings(files'[Home]), Plain)
  BY DEF Started, StartsFrom, LoadSettings, DefaultSettings, Plain, Given, Warmed
<1>5. Started(Plain) = StartsFrom(LoadSettings(files[Home]), Plain)
  BY DEF Started, StartsFrom
<1>6. CASE widgets.hourly = Typo
  <2>1. files' = files /\ astray' = astray \cup Boxes /\ settings' = Applied
    BY <1>6 DEF SaveSettings
  <2>2. \A key \in SettingKeys \ Boxes : settings'[key] = settings[key]
    BY <2>1 DEF SettingsInv, Applied, Complete, SettingKeys, Boxes
  <2> QED BY <1>1, <1>3, <1>4, <1>5, <2>1, <2>2 DEF SettingsInv, RestartChangesNothing
<1>7. CASE widgets.hourly # Typo /\ settings.dir # Home
  <2>1. files'[Home] = files[Home] /\ astray' = astray \cup Boxes \cup {"hourly"}
    BY <1>7 DEF SaveSettings, SettingsInv, AstrayOnceSaved
  <2> QED BY <1>1, <1>2, <1>3, <1>4, <1>5, <2>1 DEF SettingsInv, RestartChangesNothing
<1>8. CASE widgets.hourly # Typo /\ settings.dir = Home
  <2>1. files'[Home] = Written(settings') /\ astray' = Unwritten(settings)
    BY <1>8 DEF SaveSettings, SettingsInv, AstrayOnceSaved
  <2>2. settings'.dir = Home /\ Unwritten(settings) = Unwritten(settings')
    BY <1>2, <1>8 DEF Unwritten, SettingKeys, Boxes
  <2>3. \A key \in SettingKeys \ astray' : Started(Plain)'[key] = settings'[key]
    BY <1>1, <1>4, <2>1, <2>2, WrittenIsRead
  <2> QED BY <1>1, <1>3, <2>3 DEF SettingsInv, RestartChangesNothing
<1> QED BY <1>6, <1>7, <1>8

LEMMA SettingsNext == SettingsInv /\ [ConfigNext]_configVars => SettingsInv'
<1> SUFFICES ASSUME SettingsInv, [ConfigNext]_configVars PROVE SettingsInv'
  OBVIOUS
<1>1. CASE SaveSettings
  BY <1>1, SettingsSaveKept
<1>2. CASE HandEditSettings
  <2>1. PICK d \in Dirs, content \in HandSettings :
            /\ files' = [files EXCEPT ![d] = content] /\ settings' = settings
            /\ astray' = IF d = Home THEN DOMAIN settings ELSE astray
    BY <1>2 DEF HandEditSettings
  <2>2. Started(Plain)' = StartsFrom(LoadSettings(files'[Home]), Plain)
    BY DEF Started, StartsFrom, LoadSettings, DefaultSettings, Plain, Given, Warmed
  <2>3. Started(Plain) = StartsFrom(LoadSettings(files[Home]), Plain)
    BY DEF Started, StartsFrom
  <2>4. d # Home => files'[Home] = files[Home]
    BY <2>1 DEF SettingsInv
  <2> QED BY <2>1, <2>2, <2>3, <2>4 DEF SettingsInv, RestartChangesNothing, Complete
<1>3. CASE \E flags : SettingsStart(flags)
  BY <1>3, SettingsStartKept
<1>4. CASE TypeSetting \/ UNCHANGED settingsVars
  <2>1. UNCHANGED <<files, settings, astray>>
    BY <1>4 DEF TypeSetting, settingsVars
  <2>2. Started(Plain)' = Started(Plain)
    BY <2>1 DEF Started, LoadSettings, DefaultSettings, Plain, Given, Warmed
  <2> QED BY <2>1, <2>2 DEF SettingsInv, RestartChangesNothing, Complete
<1> QED
  BY <1>1, <1>2, <1>3, <1>4, EditorSteps DEF SettingsStep

\* A plain start gives back the settings in force (load_settings, save_settings), whatever
\* was typed, saved and started before and in whichever data directory, but for those that
\* the command line overrides, a refused save or a save elsewhere has applied, a save
\* leaves out, or an edit of the file by hand has changed.
THEOREM RestartChangesNothingHolds == ConfigSpec => []RestartChangesNothing
<1>1. SettingsInv => RestartChangesNothing
  BY DEF SettingsInv
<1> QED
  BY <1>1, SettingsInit0, SettingsNext, PTL DEF ConfigSpec, ConfigInit

-----------------------------------------------------------------------------
(***************************************************************************)
(* The rules.  First the order they are sorted by, in which no two rules   *)
(* of a list are level; then what sorting, the edits and the file keep.    *)
(***************************************************************************)
\* A name (of length l) comes before another (of length m) at the first place where
\* they differ.
DiffersAt(a, l, b, m, i) ==
    /\ i \in 1..m /\ i <= l + 1
    /\ \A j \in 1..(i - 1) : a[j] = b[j]
    /\ i = l + 1 \/ a[i] < b[i]

LEMMA DiffersOnce ==
    ASSUME NEW l \in Nat, NEW m \in Nat, NEW a \in [1..l -> Nat], NEW b \in [1..m -> Nat],
           NEW i \in Nat, NEW k \in Nat, DiffersAt(a, l, b, m, i), DiffersAt(b, m, a, l, k)
    PROVE  FALSE
<1>1. CASE i < k BY <1>1 DEF DiffersAt
<1>2. CASE k < i BY <1>2 DEF DiffersAt
<1>3. CASE i = k BY <1>3 DEF DiffersAt
<1> QED BY <1>1, <1>2, <1>3

LEMMA DiffersOn ==
    ASSUME NEW l \in Nat, NEW m \in Nat, NEW n \in Nat, NEW a \in [1..l -> Nat],
           NEW b \in [1..m -> Nat], NEW c \in [1..n -> Nat], NEW i \in Nat, NEW k \in Nat,
           DiffersAt(a, l, b, m, i), DiffersAt(b, m, c, n, k)
    PROVE  \E x \in Nat : DiffersAt(a, l, c, n, x)
<1>1. CASE i < k
  <2>1. DiffersAt(a, l, c, n, i) BY <1>1 DEF DiffersAt
  <2> QED BY <2>1
<1>2. CASE k <= i
  <2>1. DiffersAt(a, l, c, n, k) BY <1>2 DEF DiffersAt
  <2> QED BY <2>1
<1> QED BY <1>1, <1>2

LEMMA DiffersSomewhere ==
    ASSUME NEW l \in Nat, NEW m \in Nat, NEW a \in [1..l -> Nat], NEW b \in [1..m -> Nat],
           a # b
    PROVE  \E i \in Nat : DiffersAt(a, l, b, m, i) \/ DiffersAt(b, m, a, l, i)
<1> DEFINE D == {i \in Nat : i \in 1..l /\ i \in 1..m /\ a[i] # b[i]}
<1>1. CASE D = {}
  <2>1. \A i \in 1..l : i <= m => a[i] = b[i]
    BY <1>1
  <2>2. l # m
    BY <2>1
  <2>3. CASE l < m
    <3>1. DiffersAt(a, l, b, m, l + 1) BY <2>1, <2>3 DEF DiffersAt
    <3> QED BY <3>1
  <2>4. CASE m < l
    <3>1. DiffersAt(b, m, a, l, m + 1) BY <2>1, <2>4 DEF DiffersAt
    <3> QED BY <3>1
  <2> QED BY <2>2, <2>3, <2>4
<1>2. CASE D # {}
  <2>1. PICK i \in D : \A j \in D : i <= j
    BY <1>2, LeastNatural
  <2>2. \A j \in 1..(i - 1) : a[j] = b[j]
    BY <2>1
  <2>3. CASE a[i] < b[i]
    <3>1. DiffersAt(a, l, b, m, i) BY <2>1, <2>2, <2>3 DEF DiffersAt
    <3> QED BY <3>1
  <2>4. CASE b[i] < a[i]
    <3>1. DiffersAt(b, m, a, l, i) BY <2>1, <2>2, <2>4 DEF DiffersAt
    <3> QED BY <3>1
  <2> QED BY <2>1, <2>3, <2>4
<1> QED BY <1>1, <1>2

LEMMA NameBeforeAt ==
    ASSUME NEW a \in Seq(Nat), NEW b \in Seq(Nat)
    PROVE  NameBefore(a, b) <=> \E i \in Nat : DiffersAt(a, Len(a), b, Len(b), i)
<1>0. /\ Len(a) \in Nat /\ Len(b) \in Nat
      /\ a \in [1..Len(a) -> Nat] /\ b \in [1..Len(b) -> Nat]
  OBVIOUS
<1>1. ASSUME Len(a) <= Len(b)
      PROVE  SubSeq(a, 1, Len(a)) = SubSeq(b, 1, Len(a)) <=> \A j \in 1..Len(a) : a[j] = b[j]
  <2>1. /\ SubSeq(a, 1, Len(a)) = [j \in 1..Len(a) |-> a[j]]
        /\ SubSeq(b, 1, Len(a)) = [j \in 1..Len(a) |-> b[j]]
    BY <1>0, <1>1
  <2> QED BY <2>1
<1>2. IsStrictPrefix(a, b) <=> DiffersAt(a, Len(a), b, Len(b), Len(a) + 1)
  <2> PICK l : l = Len(a) OBVIOUS
  <2> PICK m : m = Len(b) OBVIOUS
  <2>1. ASSUME l <= m, \A j \in 1..l : a[j] = b[j] PROVE a # b <=> l < m
    <3>1. l = m => a = b
      BY <1>0, <2>1
    <3> QED BY <1>0, <2>1, <3>1
  <2>2. IsStrictPrefix(a, b) <=> l <= m /\ (\A j \in 1..l : a[j] = b[j]) /\ l < m
    BY <1>1, <2>1 DEF IsStrictPrefix, IsPrefix
  <2> QED BY <1>0, <2>2 DEF DiffersAt
<1>3. ASSUME NEW i \in Nat, i # Len(a) + 1
      PROVE  DiffersAt(a, Len(a), b, Len(b), i) <=>
                 /\ i \in 1..Len(a) /\ i <= Len(b) /\ a[i] < b[i]
                 /\ \A j \in 1..(i - 1) : a[j] = b[j]
  BY <1>0, <1>3 DEF DiffersAt
<1>4. ASSUME NEW i \in 1..Len(a), i <= Len(b) /\ a[i] < b[i],
             \A j \in 1..(i - 1) : a[j] = b[j]
      PROVE  DiffersAt(a, Len(a), b, Len(b), i)
  <2>1. Len(a) \in Nat /\ Len(b) \in Nat /\ i \in Nat /\ 1 <= i /\ i <= Len(a)
    BY <1>0, <1>4
  <2>2. i \in 1..Len(b) /\ i <= Len(a) + 1
    BY <1>4, <2>1
  <2> QED BY <1>4, <2>2, Zenon DEF DiffersAt
<1>5. NameBefore(a, b) => \E i \in Nat : DiffersAt(a, Len(a), b, Len(b), i)
  <2>1. Len(a) + 1 \in Nat /\ 1..Len(a) \subseteq Nat
    BY <1>0
  <2> QED BY <1>2, <1>4, <2>1, Zenon DEF NameBefore
<1>6. ASSUME NEW i \in Nat, DiffersAt(a, Len(a), b, Len(b), i) PROVE NameBefore(a, b)
  BY <1>2, <1>3, <1>6, Zenon DEF NameBefore
<1> QED BY <1>5, <1>6, Zenon

LEMMA NamesOrdered ==
    ASSUME NEW a \in Seq(Nat), NEW b \in Seq(Nat), NEW c \in Seq(Nat)
    PROVE  /\ ~ (NameBefore(a, b) /\ NameBefore(b, a))
           /\ NameBefore(a, b) /\ NameBefore(b, c) => NameBefore(a, c)
           /\ a = b \/ NameBefore(a, b) \/ NameBefore(b, a)
<1>1. /\ Len(a) \in Nat /\ Len(b) \in Nat /\ Len(c) \in Nat /\ a \in [1..Len(a) -> Nat]
      /\ b \in [1..Len(b) -> Nat] /\ c \in [1..Len(c) -> Nat]
  OBVIOUS
<1>2. ~ (NameBefore(a, b) /\ NameBefore(b, a))
  BY <1>1, DiffersOnce, NameBeforeAt, Zenon
<1>3. NameBefore(a, b) /\ NameBefore(b, c) => NameBefore(a, c)
  BY <1>1, DiffersOn, NameBeforeAt, Zenon
<1>4. a = b \/ NameBefore(a, b) \/ NameBefore(b, a)
  BY <1>1, DiffersSomewhere, NameBeforeAt, Zenon
<1> QED BY <1>2, <1>3, <1>4

\* The order of rules of different names.
LEMMA RulesOrdered ==
    ASSUME NEW r, NEW s, NEW t, IsRule(r), IsRule(s), IsRule(t)
    PROVE  /\ ~ (Before(r, s) /\ Before(s, r))
           /\ Before(r, s) /\ Before(s, t) => Before(r, t)
           /\ r.name = s.name \/ Before(r, s) \/ Before(s, r)
<1>1. /\ r.name \in Seq(Nat) /\ s.name \in Seq(Nat) /\ t.name \in Seq(Nat)
      /\ r.priority \in Int /\ s.priority \in Int /\ t.priority \in Int
  BY DEF IsRule
<1>2. /\ ~ (NameBefore(r.name, s.name) /\ NameBefore(s.name, r.name))
      /\ NameBefore(r.name, s.name) /\ NameBefore(s.name, t.name) => NameBefore(r.name, t.name)
      /\ r.name = s.name \/ NameBefore(r.name, s.name) \/ NameBefore(s.name, r.name)
  BY <1>1, NamesOrdered
<1> QED BY <1>1, <1>2 DEF Before
-----------------------------------------------------------------------------
\* A list of n rules that the engine would take.
WellListed(rules, n) ==
    /\ rules = [i \in 1..n |-> rules[i]]
    /\ \A i \in 1..n : IsRule(rules[i]) /\ InRange(rules[i])
    /\ NamesDiffer(rules)

LEMMA ShapeIsList ==
    ASSUME NEW n \in Nat, NEW e(_)
    PROVE  LET rules == [i \in 1..n |-> e(i)]
           IN  /\ rules \in Seq({rules[i] : i \in DOMAIN rules})
               /\ Len(rules) = n
<1> DEFINE rules == [i \in 1..n |-> e(i)]
           S == {rules[i] : i \in DOMAIN rules}
<1>1. \A i \in 1..n : rules[i] \in S
  OBVIOUS
<1>2. rules \in [1..n -> S]
  BY <1>1
<1>3. Len(rules) = n
  OBVIOUS
<1> HIDE DEF rules, S
<1>4. rules \in Seq(S)
  BY <1>2
<1> QED BY <1>3, <1>4 DEF rules, S

LEMMA ListShape ==
    ASSUME NEW rules, AreRules(rules)
    PROVE  Len(rules) \in Nat /\ rules = [i \in 1..Len(rules) |-> rules[i]]
<1> DEFINE S == {rules[i] : i \in DOMAIN rules}
<1>1. rules \in Seq(S)
  BY DEF AreRules
<1> HIDE DEF S
<1> QED BY <1>1

LEMMA SoundIsListed ==
    ASSUME NEW rules, Sound(rules)
    PROVE  \E n \in Nat : n = Len(rules) /\ WellListed(rules, n)
<1> PICK n : n = Len(rules)
  OBVIOUS
<1>1. n \in Nat /\ rules = [i \in 1..n |-> rules[i]]
  BY ListShape DEF Sound
<1>2. DOMAIN rules = 1..n
  BY <1>1
<1>3. (\A i \in DOMAIN rules : IsRule(rules[i]) /\ InRange(rules[i])) /\ NamesDiffer(rules)
  BY DEF Sound, AreRules
<1> QED BY <1>1, <1>2, <1>3 DEF WellListed

LEMMA ListedIsSound ==
    ASSUME NEW rules, NEW n \in Nat, WellListed(rules, n)
    PROVE  Sound(rules) /\ Len(rules) = n
<1>1. rules = [i \in 1..n |-> rules[i]]
  BY DEF WellListed
<1>2. rules \in Seq({rules[i] : i \in DOMAIN rules}) /\ Len(rules) = n
  <2> DEFINE e(i) == rules[i]
             s == [i \in 1..n |-> e(i)]
  <2>1. s \in Seq({s[i] : i \in DOMAIN s}) /\ Len(s) = n
    <3> HIDE DEF e
    <3> QED BY ShapeIsList
  <2> QED BY <1>1, <2>1
<1>3. DOMAIN rules = 1..n
  BY <1>1
<1>4. (\A i \in DOMAIN rules : IsRule(rules[i]) /\ InRange(rules[i])) /\ NamesDiffer(rules)
  BY <1>3 DEF WellListed
<1> QED BY <1>2, <1>4 DEF Sound, AreRules

\* Names are as many as rules exactly when no two rules share one.
LEMMA NamesCounted ==
    ASSUME NEW rules, NEW n \in Nat, DOMAIN rules = 1..n
    PROVE  /\ IsFiniteSet(NamesOf(rules))
           /\ Cardinality(NamesOf(rules)) = n
                <=> NamesDiffer(rules)
<1> DEFINE T == NamesOf(rules)
           f == [i \in 1..n |-> rules[i].name]
<1>1. f \in [1..n -> T] /\ \A t \in T : \E i \in 1..n : f[i] = t
  BY DEF NamesOf
<1>2. f \in Surjection(1..n, T)
  BY <1>1 DEF Surjection
<1>3. IsFiniteSet(1..n) /\ Cardinality(1..n) = n
  BY FS_Interval
<1>4. IsFiniteSet(T) /\ (Cardinality(T) = n <=> f \in Injection(1..n, T))
  BY <1>2, <1>3, FS_Surjection
<1>5. f \in Injection(1..n, T) <=> \A i, j \in 1..n : f[i] = f[j] => i = j
  BY <1>1 DEF Injection, IsInjective
<1> QED BY <1>4, <1>5 DEF NamesDiffer

-----------------------------------------------------------------------------
\* Each rule has a place of its own in the sorted list.
LEMMA RanksArePlaces ==
    ASSUME NEW rules, NEW n \in Nat, WellListed(rules, n)
    PROVE  /\ \A i \in 1..n : Rank(rules, i) \in 1..n
           /\ \A i, j \in 1..n : Rank(rules, i) = Rank(rules, j) => i = j
           /\ \A k \in 1..n : \E i \in 1..n : Rank(rules, i) = k
<1> DEFINE Least(i) == {j \in 1..n : Before(rules[j], rules[i]) \/ j = i}
<1>2. \A i, j, k \in 1..n :
          /\ ~ (Before(rules[i], rules[j]) /\ Before(rules[j], rules[i]))
          /\ Before(rules[i], rules[j]) /\ Before(rules[j], rules[k])
               => Before(rules[i], rules[k])
          /\ i = j \/ Before(rules[i], rules[j]) \/ Before(rules[j], rules[i])
  <2>1. \A i, j \in 1..n : rules[i].name = rules[j].name => i = j
    BY DEF WellListed, NamesDiffer
  <2>2. \A i \in 1..n : IsRule(rules[i])
    BY DEF WellListed
  <2> QED BY <2>1, <2>2, RulesOrdered
<1>3. ASSUME NEW i \in 1..n PROVE Rank(rules, i) = Cardinality(Least(i))
  <2>1. \A j \in 1..n : j <= i /\ ~ Before(rules[i], rules[j])
                          => Before(rules[j], rules[i]) \/ j = i
    BY <1>2
  <2>2. ~ Before(rules[i], rules[i]) /\ i <= i
    BY <1>2
  <2>3. {j \in DOMAIN rules : \/ Before(rules[j], rules[i])
                              \/ j <= i /\ ~ Before(rules[i], rules[j])} = Least(i)
    <3>1. DOMAIN rules = 1..n
      BY DEF WellListed
    <3> QED BY <2>1, <2>2, <3>1
  <2> QED BY <2>3 DEF Rank
<1>4. IsFiniteSet(1..n) /\ Cardinality(1..n) = n
  BY FS_Interval
<1>5. ASSUME NEW i \in 1..n
      PROVE  IsFiniteSet(Least(i)) /\ Cardinality(Least(i)) \in 1..n
  <2>1. Least(i) \in SUBSET (1..n) /\ i \in Least(i)
    OBVIOUS
  <2>2. IsFiniteSet(Least(i)) /\ Cardinality(Least(i)) <= n
    BY <2>1, <1>4, FS_Subset
  <2>3. Cardinality(Least(i)) \in Nat /\ Cardinality(Least(i)) # 0
    BY <2>1, <2>2, FS_CardinalityType, FS_EmptySet
  <2> QED BY <2>2, <2>3
<1>6. ASSUME NEW i \in 1..n, NEW j \in 1..n, Before(rules[i], rules[j])
      PROVE  Cardinality(Least(i)) # Cardinality(Least(j))
  <2>1. \A k \in Least(i) : k \in Least(j)
    BY <1>2, <1>6
  <2>2. j \in Least(j) /\ j \notin Least(i)
    BY <1>2, <1>6
  <2>3. Least(i) \in SUBSET Least(j) /\ Least(i) # Least(j)
    BY <2>1, <2>2
  <2> HIDE DEF Least
  <2> QED BY <1>5, <2>3, FS_Subset
<1> DEFINE f == [i \in 1..n |-> Rank(rules, i)]
<1>7. f \in [1..n -> 1..n]
  BY <1>3, <1>5
<1>8. \A i, j \in 1..n : f[i] = f[j] => i = j
  <2>1. ASSUME NEW i \in 1..n, NEW j \in 1..n, i # j PROVE f[i] # f[j]
    <3>1. CASE Before(rules[i], rules[j])
      BY <1>3, <1>6, <3>1
    <3>2. CASE Before(rules[j], rules[i])
      BY <1>3, <1>6, <3>2
    <3> QED BY <1>2, <2>1, <3>1, <3>2
  <2> QED BY <2>1
<1>9. f \in Surjection(1..n, 1..n)
  <2>1. f \in Injection(1..n, 1..n)
    BY <1>7, <1>8 DEF Injection, IsInjective
  <2> QED BY <2>1, <1>4, FS_Injection, Zenon
<1>10. \A k \in 1..n : \E i \in 1..n : f[i] = k
  BY <1>9 DEF Surjection
<1> QED BY <1>7, <1>8, <1>10

\* Sorting loses, adds and changes no rule.
LEMMA SortedRules ==
    ASSUME NEW rules, NEW n \in Nat, WellListed(rules, n)
    PROVE  /\ WellListed(Sorted(rules), n) /\ NamesOf(Sorted(rules)) = NamesOf(rules)
           /\ \A k \in 1..n : \E i \in 1..n : Sorted(rules)[k] = rules[i]
<1> DEFINE p == [k \in 1..n |-> CHOOSE i \in 1..n : Rank(rules, i) = k]
           s == Sorted(rules)
<1>1. \A k \in 1..n : p[k] \in 1..n /\ Rank(rules, p[k]) = k
  BY RanksArePlaces
<1>2. \A i \in 1..n : \E k \in 1..n : p[k] = i
  BY <1>1, RanksArePlaces
<1>3. \A i, j \in 1..n : p[i] = p[j] => i = j
  BY <1>1
<1>4. DOMAIN rules = 1..n
  BY DEF WellListed
<1>5. s = [k \in 1..n |-> rules[p[k]]]
  BY <1>4 DEF Sorted
<1> HIDE DEF p
<1>6. (\A k \in 1..n : s[k] = rules[p[k]]) /\ s = [k \in 1..n |-> s[k]] /\ DOMAIN s = 1..n
  BY <1>5
<1> HIDE DEF s
<1>7. WellListed(s, n)
  <2>1. \A i \in 1..n : IsRule(rules[i]) /\ InRange(rules[i])
    BY DEF WellListed
  <2>2. \A i, j \in 1..n : rules[i].name = rules[j].name => i = j
    BY <1>4 DEF WellListed, NamesDiffer
  <2>3. \A k \in 1..n : IsRule(s[k]) /\ InRange(s[k])
    BY <1>1, <1>6, <2>1
  <2>4. NamesDiffer(s)
    BY <1>1, <1>3, <1>6, <2>2 DEF NamesDiffer
  <2> QED BY <1>6, <2>3, <2>4 DEF WellListed
<1>8. NamesOf(s) = NamesOf(rules)
  <2>1. NamesOf(s) = {s[k].name : k \in 1..n} /\ NamesOf(rules) = {rules[i].name : i \in 1..n}
    BY <1>4, <1>6, Zenon DEF NamesOf
  <2>2. ASSUME NEW x \in NamesOf(s) PROVE x \in NamesOf(rules)
    BY <1>1, <1>6, <2>1, Zenon
  <2>3. ASSUME NEW x \in NamesOf(rules) PROVE x \in NamesOf(s)
    <3>1. PICK i \in 1..n : x = rules[i].name
      BY <2>1
    <3>2. PICK k \in 1..n : p[k] = i
      BY <1>2
    <3>3. s[k] = rules[i]
      BY <1>6, <3>2
    <3> QED BY <2>1, <3>1, <3>3
  <2> QED BY <2>2, <2>3
<1> QED BY <1>1, <1>6, <1>7, <1>8, Zenon DEF s
-----------------------------------------------------------------------------
LEMMA AddedIsListed ==
    ASSUME NEW rules, NEW n \in Nat, WellListed(rules, n), NEW r, IsRule(r), InRange(r),
           r.name \notin NamesOf(rules)
    PROVE  WellListed(Append(rules, r), n + 1)
<1> DEFINE s == Append(rules, r)
<1>1. DOMAIN rules = 1..n
  BY DEF WellListed
<1>2. DOMAIN s = 1..(n + 1) /\ (\A i \in 1..n : s[i] = rules[i]) /\ s[n + 1] = r
  <2>1. rules \in Seq({rules[i] : i \in DOMAIN rules}) /\ Len(rules) = n
    BY ListedIsSound DEF Sound, AreRules
  <2> DEFINE S == {rules[i] : i \in DOMAIN rules} \cup {r}
  <2>2. rules \in Seq(S) /\ r \in S
    BY <1>1, <2>1
  <2> HIDE DEF S
  <2> QED BY <2>1, <2>2
<1>3. s = [i \in 1..(n + 1) |-> s[i]]
  <2>1. rules \in Seq({rules[i] : i \in DOMAIN rules}) /\ Len(rules) = n
    BY ListedIsSound DEF Sound, AreRules
  <2> DEFINE S == {rules[i] : i \in DOMAIN rules} \cup {r}
  <2>2. rules \in Seq(S) /\ r \in S
    BY <1>1, <2>1
  <2> HIDE DEF S
  <2>3. s \in Seq(S) /\ Len(s) = n + 1
    BY <2>1, <2>2
  <2> HIDE DEF s
  <2> QED BY <2>3
<1> HIDE DEF s
<1>4. \A i \in 1..n : IsRule(rules[i]) /\ InRange(rules[i])
  BY DEF WellListed
<1>5. \A i \in 1..(n + 1) : IsRule(s[i]) /\ InRange(s[i])
  BY <1>2, <1>4
<1>6. \A i, j \in 1..n : rules[i].name = rules[j].name => i = j
  BY <1>1 DEF WellListed, NamesDiffer
<1>7. \A i \in 1..n : rules[i].name # r.name
  BY <1>1 DEF NamesOf
<1>8. NamesDiffer(s)
  BY <1>2, <1>6, <1>7 DEF NamesDiffer
<1> QED BY <1>3, <1>5, <1>8 DEF WellListed, s

LEMMA ReplacedIsListed ==
    ASSUME NEW rules, NEW n \in Nat, WellListed(rules, n), NEW i \in 1..n, NEW r, IsRule(r),
           InRange(r), r.name \notin NamesOf(rules) \ {rules[i].name}
    PROVE  WellListed([rules EXCEPT ![i] = r], n)
<1> DEFINE s == [rules EXCEPT ![i] = r]
<1>1. rules = [j \in 1..n |-> rules[j]] /\ DOMAIN rules = 1..n
  BY DEF WellListed
<1>2. s = [j \in 1..n |-> s[j]] /\ DOMAIN s = 1..n /\ s[i] = r
      /\ \A j \in 1..n : j # i => s[j] = rules[j]
  BY <1>1
<1> HIDE DEF s
<1>4. \A j \in 1..n : IsRule(rules[j]) /\ InRange(rules[j])
  BY DEF WellListed
<1>5. \A j \in 1..n : IsRule(s[j]) /\ InRange(s[j])
  BY <1>2, <1>4
<1>6. \A j, k \in 1..n : rules[j].name = rules[k].name => j = k
  BY <1>1 DEF WellListed, NamesDiffer
<1>7. \A j \in 1..n : j # i => rules[j].name # r.name
  BY <1>1, <1>6 DEF NamesOf
<1>8. NamesDiffer(s)
  BY <1>2, <1>6, <1>7 DEF NamesDiffer
<1> QED BY <1>2, <1>5, <1>8 DEF WellListed, s

LEMMA RemovedIsListed ==
    ASSUME NEW rules, NEW n \in Nat, WellListed(rules, n), NEW i \in 1..n
    PROVE  n - 1 \in Nat /\ WellListed(RemoveAt(rules, i), n - 1)
<1> DEFINE s == RemoveAt(rules, i)
<1>1. DOMAIN rules = 1..n
  BY DEF WellListed
<1>2. s = [j \in 1..(n - 1) |-> IF j < i THEN rules[j] ELSE rules[j + 1]]
  <2>1. rules \in Seq({rules[j] : j \in DOMAIN rules}) /\ Len(rules) = n
    BY ListedIsSound DEF Sound, AreRules
  <2> PICK S : S = {rules[j] : j \in DOMAIN rules}
    OBVIOUS
  <2>2. rules \in Seq(S)
    BY <2>1
  <2> DEFINE L == SubSeq(rules, 1, i - 1)
             R == SubSeq(rules, i + 1, n)
  <2>3. L \in Seq(S) /\ Len(L) = i - 1 /\ \A j \in 1..(i - 1) : L[j] = rules[j]
    BY <2>1, <2>2
  <2>4. R \in Seq(S) /\ Len(R) = n - i /\ \A j \in 1..(n - i) : R[j] = rules[j + i]
    BY <2>1, <2>2
  <2>5. s = L \o R
    BY <2>1 DEF RemoveAt
  <2> HIDE DEF L, R, s
  <2>6. s \in Seq(S) /\ Len(s) = n - 1
    <3>1. s \in Seq(S) /\ Len(s) = Len(L) + Len(R)
      <4>1. L \o R \in Seq(S) /\ Len(L \o R) = Len(L) + Len(R)
        BY <2>3, <2>4, ConcatProperties, Zenon
      <4> QED BY <2>5, <4>1, Zenon
    <3>2. (i - 1) + (n - i) = n - 1
      OBVIOUS
    <3> QED BY <2>3, <2>4, <3>1, <3>2
  <2>7. \A j \in 1..(n - 1) : s[j] = IF j < i THEN rules[j] ELSE rules[j + 1]
    <3>1. ASSUME NEW j \in 1..(n - 1), j < i PROVE s[j] = rules[j]
      BY <2>3, <2>4, <2>5, <3>1
    <3>2. ASSUME NEW j \in 1..(n - 1), ~ (j < i) PROVE s[j] = rules[j + 1]
      <4>1. j - (i - 1) \in 1..(n - i) /\ j \in 1..(Len(L) + Len(R)) /\ ~ (j <= Len(L))
        BY <2>3, <2>4, <3>2
      <4>2. s[j] = R[j - (i - 1)]
        BY <2>3, <2>4, <2>5, <4>1
      <4> QED BY <2>4, <4>1, <4>2
    <3> QED BY <3>1, <3>2
  <2> QED BY <2>6, <2>7
<1>3. s = [j \in 1..(n - 1) |-> s[j]] /\ DOMAIN s = 1..(n - 1)
      /\ \A j \in 1..(n - 1) : s[j] = IF j < i THEN rules[j] ELSE rules[j + 1]
  BY <1>2
<1> HIDE DEF s
<1>4. \A j \in 1..n : IsRule(rules[j]) /\ InRange(rules[j])
  BY DEF WellListed
<1>5. \A j \in 1..(n - 1) : IsRule(s[j]) /\ InRange(s[j])
  BY <1>3, <1>4
<1>6. \A j, k \in 1..n : rules[j].name = rules[k].name => j = k
  BY <1>1 DEF WellListed, NamesDiffer
<1>7. NamesDiffer(s)
  <2> SUFFICES ASSUME NEW j \in 1..(n - 1), NEW k \in 1..(n - 1), s[j].name = s[k].name
               PROVE  j = k
    BY <1>3 DEF NamesDiffer
  <2> DEFINE at(m) == IF m < i THEN m ELSE m + 1
  <2>1. at(j) \in 1..n /\ at(k) \in 1..n
    OBVIOUS
  <2>2. s[j] = rules[at(j)] /\ s[k] = rules[at(k)]
    BY <1>3
  <2>3. at(j) = at(k)
    <3> HIDE DEF at
    <3> QED BY <1>6, <2>1, <2>2
  <2> QED BY <2>3
<1> QED BY <1>3, <1>5, <1>7 DEF WellListed, s

\* A copy gets a name that no rule of the list has.
LEMMA CopyIsNew ==
    ASSUME NEW name \in Seq(Nat), NEW taken, IsFiniteSet(taken)
    PROVE  CopyName(name, taken) \in Seq(Nat) \ taken
<1> PICK c : c = Cardinality(taken)
  OBVIOUS
<1>1. c \in Nat
  BY FS_CardinalityType
<1> DEFINE Free == {k \in 1..(c + 1) : Append(name, k) \notin taken}
<1>2. Free # {}
  <2>0. SUFFICES ASSUME \A k \in 1..(c + 1) : Append(name, k) \in taken PROVE FALSE
    OBVIOUS
  <2>1. PICK K : K = 1..(c + 1)
    OBVIOUS
  <2>2. PICK f : f = [k \in K |-> Append(name, k)]
    OBVIOUS
  <2>3. f \in [K -> taken]
    BY <2>0, <2>1, <2>2
  <2>4. c + 1 \in Int /\ 1 \in Int
    BY <1>1
  <2>5. IsFiniteSet(1..(c + 1)) /\ Cardinality(1..(c + 1)) = c + 1
    BY <1>1, <2>4, FS_Interval
  <2>6. IsFiniteSet(K) /\ Cardinality(taken) < Cardinality(K)
    BY <1>1, <2>1, <2>5
  <2>7. \E x, y \in K : x # y /\ f[x] = f[y]
    BY <2>3, <2>6, FS_PigeonHole, Zenon
  <2>8. \A x, y \in K : Append(name, x) = Append(name, y) => x = y
    BY <1>1, <2>1
  <2> QED BY <2>2, <2>7, <2>8
<1>3. PICK k \in Free : \A j \in Free : k <= j
  <2>1. Free \in SUBSET Nat
    BY <1>1
  <2> QED BY <1>2, <2>1, LeastNatural
<1>4. /\ k \in 1..(c + 1) /\ Append(name, k) \notin taken
      /\ \A j \in 1..(k - 1) : Append(name, j) \in taken
  BY <1>1, <1>3
<1>5. \E m \in 1..(c + 1) : /\ CopyName(name, taken) = Append(name, m)
                            /\ Append(name, m) \notin taken
  BY <1>4 DEF CopyName
<1> QED BY <1>1, <1>5

LEMMA FieldsMakeRule ==
    ASSUME NEW r, DOMAIN r = {"name", "priority", "enabled", "when", "pct"},
           NEW name \in Seq(Nat), r.name = name, NEW priority \in Int, r.priority = priority,
           NEW pct \in Discounts, r.pct = pct
    PROVE  IsRule(r) /\ InRange(r)
<1>1. pct \in Int
  BY DEF Discounts
<1> QED BY <1>1, Zenon DEF IsRule, InRange

\* What the dialog gives is a rule the engine would take.
LEMMA SheetIsRule ==
    ASSUME NEW sheet, NEW taken, Accepted(sheet, taken), sheet.name \in Seq(Nat),
           sheet.priority \in Int
    PROVE  /\ IsRule(RuleOf(sheet)) /\ InRange(RuleOf(sheet))
           /\ RuleOf(sheet).name = sheet.name /\ sheet.name \notin taken
<1>1. /\ DOMAIN RuleOf(sheet) = {"name", "priority", "enabled", "when", "pct"}
      /\ RuleOf(sheet).name = sheet.name /\ RuleOf(sheet).priority = sheet.priority
      /\ RuleOf(sheet).pct = PctEntered(sheet)
  BY DEF RuleOf
<1>2. sheet.name \notin taken /\ PctEntered(sheet) \in Discounts
  BY Zenon DEF Accepted
<1> QED BY <1>1, <1>2, FieldsMakeRule, Zenon

-----------------------------------------------------------------------------
\* A file that is not there, cannot be parsed, or has entries, right or wrong.
IsFile(content) == \/ content \in {Absent, Unreadable}
                   \/ content = Entries(content.rules) /\ AreRules(content.rules)

LEMMA FilesDiffer == Absent # Unreadable
                     /\ \A rules : Entries(rules) # Absent /\ Entries(rules) # Unreadable
<1>1. /\ Absent.kind = "absent" /\ Unreadable.kind = "unreadable"
      /\ \A rules : Entries(rules).kind = "rules" /\ Entries(rules).rules = rules
  BY DEF Absent, Unreadable, Entries
<1> QED BY <1>1

LEMMA ReadIsRule ==
    ASSUME NEW entry, IsRule(entry)
    PROVE  /\ RuleRead(entry).name = entry.name
           /\ Sane(entry) => IsRule(RuleRead(entry)) /\ InRange(RuleRead(entry))
<1>1. /\ DOMAIN RuleRead(entry) = DOMAIN entry /\ RuleRead(entry).name = entry.name
      /\ RuleRead(entry).priority = entry.priority
      /\ RuleRead(entry).pct = PctRead(entry.pct)
  BY DEF RuleRead, IsRule
<1>2. Sane(entry) => PctRead(entry.pct) \in Discounts
  BY Zenon DEF Sane
<1>3. /\ DOMAIN entry = {"name", "priority", "enabled", "when", "pct"}
      /\ entry.name \in Seq(Nat) /\ entry.priority \in Int
  BY Zenon DEF IsRule
<1> QED BY <1>1, <1>2, <1>3, FieldsMakeRule, Zenon

\* A file with entries gives as many rules, of the same names.
LEMMA LoadedRules ==
    ASSUME NEW entries, AreRules(entries)
    PROVE  /\ Len(LoadRules(Entries(entries))) = Len(entries)
           /\ NamesOf(LoadRules(Entries(entries))) = NamesOf(entries)
           /\ Readable(Entries(entries)) => Sound(LoadRules(Entries(entries)))
<1> PICK n : n = Len(entries)
  OBVIOUS
<1> DEFINE s == LoadRules(Entries(entries))
<1>1. n \in Nat /\ DOMAIN entries = 1..n
  BY ListShape
<1>2. \A i \in 1..n : IsRule(entries[i])
  BY <1>1 DEF AreRules
<1>3. Entries(entries).rules = entries /\ Entries(entries).kind = "rules"
      /\ Entries(entries) # Absent
  BY FilesDiffer DEF Entries
<1>4. s = [i \in 1..n |-> RuleRead(entries[i])]
  BY <1>1, <1>3 DEF LoadRules
<1>5. Len(s) = n /\ s = [i \in 1..n |-> s[i]] /\ DOMAIN s = 1..n
      /\ \A i \in 1..n : s[i] = RuleRead(entries[i])
  BY <1>1, <1>4
<1> HIDE DEF s
<1>6. \A i \in 1..n : s[i].name = entries[i].name
  BY <1>2, <1>5, ReadIsRule
<1>7. NamesOf(s) = NamesOf(entries)
  BY <1>1, <1>5, <1>6 DEF NamesOf
<1>8. ASSUME Readable(Entries(entries)) PROVE Sound(s)
  <2>1. (\A i \in 1..n : Sane(entries[i])) /\ Cardinality(NamesOf(entries)) = n
    BY <1>1, <1>3, <1>8 DEF Readable
  <2>2. \A i \in 1..n : IsRule(s[i]) /\ InRange(s[i])
    BY <1>2, <1>5, <2>1, ReadIsRule
  <2>3. NamesDiffer(s)
    BY <1>1, <1>5, <1>7, <2>1, NamesCounted
  <2>4. WellListed(s, n)
    BY <1>5, <2>2, <2>3 DEF WellListed
  <2> QED BY <1>1, <2>4, ListedIsSound
<1> QED BY <1>5, <1>7, <1>8 DEF s

\* What the editor writes has the names of the list, and a hundred times its discounts.
LEMMA DumpedRules ==
    ASSUME NEW rules, Sound(rules)
    PROVE  \E entries : /\ DumpRules(rules) = Entries(entries) /\ AreRules(entries)
                        /\ Len(entries) = Len(rules) /\ NamesOf(entries) = NamesOf(rules)
                        /\ NamesDiffer(entries)
                        /\ \A k \in DOMAIN entries : \E i \in DOMAIN rules :
                              entries[k].pct = 100 * rules[i].pct
<1>1. PICK n \in Nat : n = Len(rules) /\ WellListed(rules, n)
  BY SoundIsListed
<1>2. DOMAIN rules = 1..n
  BY <1>1 DEF WellListed
<1> PICK s : s = Sorted(rules)
  OBVIOUS
<1>3. /\ WellListed(s, n) /\ NamesOf(s) = NamesOf(rules)
      /\ \A k \in 1..n : \E i \in 1..n : s[k] = rules[i]
  BY <1>1, SortedRules
<1> DEFINE W(r) == [r EXCEPT !.when = WhenWritten(@), !.pct = PctWritten(@)]
           e == [i \in 1..n |-> W(s[i])]
<1>4. DumpRules(rules) = Entries(e)
  BY <1>2 DEF DumpRules
<1>5. ASSUME NEW r, IsRule(r)
      PROVE  IsRule(W(r)) /\ W(r).name = r.name /\ W(r).pct = 100 * r.pct
  BY <1>5 DEF IsRule, PctWritten
<1>6. \A i \in 1..n : e[i] = W(s[i])
  OBVIOUS
<1>7. e \in Seq({e[i] : i \in DOMAIN e}) /\ Len(e) = n /\ DOMAIN e = 1..n
  <2> DEFINE w(i) == W(s[i])
             f == [i \in 1..n |-> w(i)]
  <2>1. f \in Seq({f[i] : i \in DOMAIN f}) /\ Len(f) = n
    <3> HIDE DEF w
    <3> QED BY ShapeIsList
  <2> QED BY <2>1
<1> HIDE DEF W, e
<1>8. \A i \in 1..n : IsRule(s[i])
  BY <1>3 DEF WellListed
<1>9. AreRules(e)
  BY <1>5, <1>6, <1>7, <1>8 DEF AreRules
<1>10. \A i \in 1..n : e[i].name = s[i].name
  BY <1>5, <1>6, <1>8
<1>11. DOMAIN s = 1..n /\ NamesDiffer(s)
  BY <1>3 DEF WellListed
<1>12. NamesOf(e) = NamesOf(rules)
  <2>1. NamesOf(e) = NamesOf(s)
    BY <1>7, <1>10, <1>11 DEF NamesOf
  <2> QED BY <1>3, <2>1
<1>13. NamesDiffer(e)
  BY <1>7, <1>10, <1>11 DEF NamesDiffer
<1>14. \A k \in 1..n : \E i \in 1..n : e[k].pct = 100 * rules[i].pct
  BY <1>3, <1>5, <1>6, <1>8
<1>15. Len(e) = Len(rules) /\ \A k \in DOMAIN e : \E i \in DOMAIN rules : e[k].pct = 100 * rules[i].pct
  BY <1>1, <1>2, <1>7, <1>14
<1> QED BY <1>4, <1>9, <1>12, <1>13, <1>15, Zenon
-----------------------------------------------------------------------------
\* The list on screen can be written and read back, whatever the file is.
RulesInv == Sound(list) /\ IsFile(file)

LEMMA SortedIsSound ==
    ASSUME NEW rules, Sound(rules)
    PROVE  Sound(Sorted(rules)) /\ NamesOf(Sorted(rules)) = NamesOf(rules)
<1>1. PICK n \in Nat : WellListed(rules, n)
  BY SoundIsListed
<1> QED BY <1>1, SortedRules, ListedIsSound

LEMMA EngineIsSound ==
    ASSUME NEW content, IsFile(content)
    PROVE  /\ Sound(EngineRules(content))
           /\ Readable(content) => Sound(LoadRules(content))
           /\ \/ EngineRules(content) = <<>> \/ content = Absent
              \/ Len(EngineRules(content)) = Len(content.rules)
<1>1. Sound(<<>>)
  <2>1. <<>> = [i \in 1..0 |-> <<>>[i]] /\ NamesDiffer(<<>>) /\ 1..0 = {}
    BY DEF NamesDiffer
  <2>2. WellListed(<<>>, 0)
    BY <2>1 DEF WellListed
  <2> QED BY <2>2, ListedIsSound
<1>2. CASE content = Absent
  BY <1>1, <1>2, RulesAssumption DEF EngineRules, LoadRules
<1>3. CASE content = Unreadable
  <2>1. ~ Readable(content)
    BY <1>3, FilesDiffer DEF Readable, Unreadable
  <2> QED BY <1>1, <2>1 DEF EngineRules
<1>4. CASE content = Entries(content.rules) /\ AreRules(content.rules)
  <2> PICK entries : entries = content.rules
    OBVIOUS
  <2>1. content = Entries(entries) /\ AreRules(entries)
    BY <1>4
  <2>2. /\ Len(LoadRules(content)) = Len(entries)
        /\ Readable(content) => Sound(LoadRules(content))
    BY <2>1, LoadedRules
  <2> QED BY <1>1, <2>2 DEF EngineRules
<1> QED BY <1>2, <1>3, <1>4 DEF IsFile

LEMMA DumpIsFile == ASSUME Sound(list) PROVE IsFile(DumpRules(list))
<1>1. PICK entries : DumpRules(list) = Entries(entries) /\ AreRules(entries)
  BY DumpedRules
<1>2. Entries(entries).rules = entries
  BY DEF Entries
<1> QED BY <1>1, <1>2 DEF IsFile

LEMMA RulesInit0 == RulesInit => RulesInv
BY RulesAssumption, SortedIsSound DEF RulesInit, RulesInv, IsFile

\* Every edit gives a list that is sound again.
LEMMA ListStaysSound ==
    ASSUME Sound(list), NEW i \in DOMAIN list
    PROVE  /\ Edit(i) => Sound(list') /\ UNCHANGED file
           /\ Duplicate(i) => Sound(list') /\ UNCHANGED file
           /\ Delete(i) => Sound(list') /\ UNCHANGED file
           /\ Toggle(i) => Sound(list') /\ UNCHANGED file
<1>1. PICK n \in Nat : WellListed(list, n)
  BY SoundIsListed
<1>2. list = [j \in 1..n |-> list[j]] /\ NamesDiffer(list) /\ i \in 1..n
      /\ IsRule(list[i]) /\ InRange(list[i])
  <2>1. i \in 1..n
    BY <1>1 DEF WellListed
  <2> QED BY <1>1, <2>1 DEF WellListed
<1>3. IsFiniteSet(NamesOf(list))
  BY <1>1, <1>2, NamesCounted
<1>4. list[i].name \in Seq(Nat) /\ list[i].priority \in Int
  BY <1>2, Zenon DEF IsRule
<1>5. ASSUME NEW rules, NEW m \in Nat, WellListed(rules, m), Edited(rules)
      PROVE  Sound(list') /\ UNCHANGED file
  <2>1. Sound(Sorted(rules))
    BY <1>5, ListedIsSound, SortedIsSound
  <2> QED BY <1>5, <2>1 DEF Edited
<1>6. ASSUME Edit(i) PROVE Sound(list') /\ UNCHANGED file
  <2>1. PICK sheet \in Sheets \cup {SheetOf(list[i])} :
           /\ Accepted(sheet, NamesOf(list) \ {list[i].name})
           /\ Edited([list EXCEPT ![i] = RuleOf(sheet)])
    BY <1>6, Zenon DEF Edit
  <2>2. sheet.name \in Seq(Nat) /\ sheet.priority \in Int
    <3>1. CASE sheet \in Sheets
      BY <3>1, RulesAssumption, Zenon
    <3>2. CASE sheet = SheetOf(list[i])
      <4>1. sheet.name = list[i].name /\ sheet.priority = list[i].priority
        BY <3>2 DEF SheetOf
      <4> QED BY <1>4, <4>1, Zenon
    <3> QED BY <2>1, <3>1, <3>2
  <2>3. /\ IsRule(RuleOf(sheet)) /\ InRange(RuleOf(sheet))
        /\ RuleOf(sheet).name \notin NamesOf(list) \ {list[i].name}
    BY <2>1, <2>2, SheetIsRule, Zenon
  <2>4. WellListed([list EXCEPT ![i] = RuleOf(sheet)], n)
    BY <1>1, <1>2, <2>3, ReplacedIsListed, Zenon
  <2> QED BY <1>5, <2>1, <2>4, Zenon
<1>7. ASSUME Duplicate(i) PROVE Sound(list') /\ UNCHANGED file
  <2> PICK r : r = [list[i] EXCEPT !.name = CopyName(@, NamesOf(list))]
    OBVIOUS
  <2>1. CopyName(list[i].name, NamesOf(list)) \in Seq(Nat) \ NamesOf(list)
    BY <1>3, <1>4, CopyIsNew, Zenon
  <2>2. /\ DOMAIN list[i] = {"name", "priority", "enabled", "when", "pct"}
        /\ list[i].pct \in Discounts
    BY <1>2, Zenon DEF IsRule, InRange
  <2>3. /\ DOMAIN r = DOMAIN list[i] /\ r.priority = list[i].priority /\ r.pct = list[i].pct
        /\ r.name = CopyName(list[i].name, NamesOf(list))
    BY <2>2
  <2>4. IsRule(r) /\ InRange(r)
    BY <1>4, <2>1, <2>2, <2>3, FieldsMakeRule, Zenon
  <2>5. WellListed(Append(list, r), n + 1)
    BY <1>1, <2>1, <2>3, <2>4, AddedIsListed
  <2>6. Edited(Append(list, r)) /\ n + 1 \in Nat
    BY <1>7 DEF Duplicate
  <2> QED BY <1>5, <2>5, <2>6
<1>8. ASSUME Delete(i) PROVE Sound(list') /\ UNCHANGED file
  <2>1. n - 1 \in Nat /\ WellListed(RemoveAt(list, i), n - 1)
    BY <1>1, <1>2, RemovedIsListed, Zenon
  <2> QED BY <1>5, <1>8, <2>1, Zenon DEF Delete
<1>9. ASSUME Toggle(i) PROVE Sound(list') /\ UNCHANGED file
  <2> PICK r : r = [list[i] EXCEPT !.enabled = ~@]
    OBVIOUS
  <2>1. /\ DOMAIN list[i] = {"name", "priority", "enabled", "when", "pct"}
        /\ list[i].pct \in Discounts
    BY <1>2, Zenon DEF IsRule, InRange
  <2>2. /\ DOMAIN r = DOMAIN list[i] /\ r.priority = list[i].priority /\ r.pct = list[i].pct
        /\ r.name = list[i].name
    BY <2>1
  <2>3. IsRule(r) /\ InRange(r)
    BY <1>4, <2>1, <2>2, FieldsMakeRule, Zenon
  <2>4. WellListed([list EXCEPT ![i] = r], n)
    <3>1. r.name \notin NamesOf(list) \ {list[i].name}
      BY <2>2
    <3> QED BY <1>1, <1>2, <2>3, <3>1, ReplacedIsListed, Zenon
  <2>5. Edited([list EXCEPT ![i] = r])
    BY <1>9 DEF Toggle
  <2> QED BY <1>5, <2>4, <2>5, Zenon
<1> QED BY <1>6, <1>7, <1>8, <1>9, Zenon

LEMMA NewIsSound == ASSUME Sound(list), New PROVE Sound(list') /\ UNCHANGED file
<1>1. PICK n \in Nat : WellListed(list, n)
  BY SoundIsListed
<1>2. PICK sheet \in Sheets : Accepted(sheet, NamesOf(list)) /\ Edited(Append(list, RuleOf(sheet)))
  BY Zenon DEF New
<1>3. sheet.name \in Seq(Nat) /\ sheet.priority \in Int
  BY RulesAssumption, Zenon
<1>4. /\ IsRule(RuleOf(sheet)) /\ InRange(RuleOf(sheet))
      /\ RuleOf(sheet).name \notin NamesOf(list)
  BY <1>2, <1>3, SheetIsRule, Zenon
<1>5. WellListed(Append(list, RuleOf(sheet)), n + 1) /\ n + 1 \in Nat
  <2>1. n + 1 \in Nat
    OBVIOUS
  <2> QED BY <1>1, <1>4, <2>1, AddedIsListed, Zenon
<1>6. Sound(Sorted(Append(list, RuleOf(sheet))))
  BY <1>5, ListedIsSound, SortedIsSound, Zenon
<1> QED BY <1>2, <1>6 DEF Edited

LEMMA RulesNext == RulesInv /\ [ConfigNext]_configVars => RulesInv'
<1> SUFFICES ASSUME RulesInv, [ConfigNext]_configVars PROVE RulesInv'
  OBVIOUS
<1>1. Sound(list) /\ IsFile(file)
  BY DEF RulesInv
<1>2. CASE Reload
  BY <1>1, <1>2, EngineIsSound, SortedIsSound DEF Reload, RulesInv
<1>3. CASE RestoreDefaults
  BY <1>1, <1>3, RulesAssumption, SortedIsSound DEF RestoreDefaults, Edited, RulesInv
<1>4. CASE New
  BY <1>1, <1>4, NewIsSound DEF RulesInv
<1>5. CASE SaveRules
  BY <1>1, <1>5, DumpIsFile DEF SaveRules, RulesInv
<1>6. CASE ReloadRules
  BY <1>1, <1>6 DEF ReloadRules, RulesInv
<1>7. CASE \E i \in DOMAIN list : Edit(i) \/ Duplicate(i) \/ Delete(i) \/ Toggle(i)
  BY <1>1, <1>7, ListStaysSound DEF RulesInv
<1>8. CASE HandEdit
  <2>1. IsFile(file')
    BY <1>8, RulesAssumption DEF HandEdit, IsFile
  <2> QED BY <1>1, <1>8, <2>1 DEF HandEdit, RulesInv
<1>9. CASE RestartRules
  BY <1>1, <1>9, EngineIsSound, SortedIsSound DEF RestartRules, RulesStart, RulesInv
<1>10. CASE UNCHANGED ruleVars
  BY <1>1, <1>10 DEF ruleVars, RulesInv
<1> QED
  BY <1>2, <1>3, <1>4, <1>5, <1>6, <1>7, <1>8, <1>9, <1>10, EditorSteps DEF RulesStep

LEMMA RulesHold == ConfigSpec => []RulesInv
BY RulesInit0, RulesNext, PTL DEF ConfigSpec, ConfigInit

\* The engine is given every rule of a file or none (EngineRules, loader.py), by a
\* save, Ctrl+R or a start, whoever wrote the file.
THEOREM WholeFileOrNothingHolds == ConfigSpec => WholeFileOrNothing
<1> DEFINE Whole == engine' # engine
                      => engine' = <<>> \/ file' = Absent \/ Len(engine') = Len(file'.rules)
<1>1. ASSUME RulesInv, [ConfigNext]_configVars PROVE Whole
  <2>1. engine' = engine \/ engine' = EngineRules(file')
    BY <1>1, EditorSteps
       DEF RulesStep, HandEdit, RestartRules, RulesStart, ruleVars, Reload, RestoreDefaults, New,
           SaveRules, ReloadRules, Edit, Duplicate, Delete, Toggle, Edited
  <2>2. IsFile(file')
    BY <1>1, RulesNext DEF RulesInv
  <2> QED BY <2>1, <2>2, EngineIsSound
<1>2. RulesInv /\ [ConfigNext]_configVars => [Whole]_ruleVars
  BY <1>1
<1> QED BY <1>2, RulesHold, PTL DEF ConfigSpec, WholeFileOrNothing

\* A save leaves the engine with the rules on screen, after any edits and over any
\* file (SaveRules), unless one discounts by 1% or less and is not 0.
THEOREM SaveKeepsProtectionHolds == ConfigSpec => SaveKeepsProtection
<1> DEFINE Large == \A i \in DOMAIN list : list[i].pct \notin 1..100
           Kept == SaveRules /\ Large => NamesOf(engine') = NamesOf(list)
<1>1. ASSUME RulesInv, SaveRules, Large PROVE NamesOf(engine') = NamesOf(list)
  <2>1. Sound(list)
    BY <1>1 DEF RulesInv
  <2>2. PICK entries :
            /\ DumpRules(list) = Entries(entries) /\ AreRules(entries)
            /\ Len(entries) = Len(list) /\ NamesOf(entries) = NamesOf(list)
            /\ NamesDiffer(entries)
            /\ \A k \in DOMAIN entries : \E i \in DOMAIN list : entries[k].pct = 100 * list[i].pct
    BY <2>1, DumpedRules
  <2>3. Len(entries) \in Nat /\ DOMAIN entries = 1..Len(entries)
    BY <2>2, ListShape
  <2>4. Cardinality(NamesOf(entries)) = Len(entries)
    BY <2>2, <2>3, NamesCounted
  <2>5. ASSUME NEW k \in DOMAIN entries PROVE Sane(entries[k])
    <3>1. PICK i \in DOMAIN list : entries[k].pct = 100 * list[i].pct
      BY <2>2
    <3>2. InRange(list[i])
      BY <2>1 DEF Sound
    <3>3. PICK p : p = list[i].pct
      OBVIOUS
    <3>4. p \in Discounts
      BY <3>2, <3>3, Zenon DEF InRange
    <3>5. p \notin 1..100
      BY <1>1, <3>3
    <3>6. PctRead(100 * p) \in Discounts
      BY <3>4, <3>5 DEF PctRead, Discounts
    <3> QED BY <3>1, <3>3, <3>6, Zenon DEF Sane
  <2>6. Entries(entries).rules = entries /\ Entries(entries).kind = "rules"
    BY DEF Entries
  <2>7. Readable(Entries(entries))
    BY <2>4, <2>5, <2>6 DEF Readable
  <2>8. engine' = LoadRules(Entries(entries))
    BY <1>1, <2>2, <2>7 DEF SaveRules, EngineRules
  <2> QED BY <2>2, <2>8, LoadedRules
<1>2. RulesInv /\ [ConfigNext]_configVars => [Kept]_ruleVars
  BY <1>1
<1> QED BY <1>2, RulesHold, PTL DEF ConfigSpec, SaveKeepsProtection
=============================================================================
