--------------------------- MODULE TradeFeedProofs --------------------------
(***************************************************************************)
(* What TradeFeed shows of the application's view, for whatever the player *)
(* picks and the server announces: the selection listed is the last one    *)
(* sent, the trades told are those announced, and a match is certain.      *)
(***************************************************************************)
EXTENDS TradeFeed, LogInduction

-----------------------------------------------------------------------------
(***************************************************************************)
(* Rows.                                                                   *)
(***************************************************************************)
\* _collapse as the loop it is: the rows of a selection follow from those of one item less.
LEMMA CollapseRecursion ==
    ASSUME NEW items, Len(items) \in Nat
    PROVE  CollapsedUpTo(items) = [n \in 0 .. Len(items) |->
              IF n = 0 THEN <<>>
              ELSE WithItem(CollapsedUpTo(items)[n - 1], Signature[items[n]])]
<1> DEFINE Body(f, n) == IF n = 0 THEN <<>> ELSE WithItem(f[n - 1], Signature[items[n]])
           S == {m \in Nat : \E f : f = [n \in 0 .. m |-> Body(f, n)]}
<1>1. 0 \in S
  <2> DEFINE f == [n \in 0 .. 0 |-> <<>>]
  <2>1. f = [n \in 0 .. 0 |-> Body(f, n)]
    OBVIOUS
  <2> QED BY <2>1, Zenon
<1>2. ASSUME NEW m \in S PROVE m + 1 \in S
  <2>1. PICK f : f = [n \in 0 .. m |-> Body(f, n)]
    OBVIOUS
  <2> DEFINE last == WithItem(f[m], Signature[items[m + 1]])
             g == [n \in 0 .. m + 1 |-> IF n = m + 1 THEN last ELSE f[n]]
  <2>2. g = [n \in 0 .. m + 1 |-> Body(g, n)]
    <3>1. ASSUME NEW n \in 0 .. m + 1 PROVE g[n] = Body(g, n)
      <4>1. CASE n = m + 1
        BY <4>1
      <4>2. CASE n # m + 1
        <5>1. n \in 0 .. m BY <4>2
        <5>2. f[n] = Body(f, n) BY <2>1, <5>1
        <5> QED BY <4>2, <5>1, <5>2
      <4> QED BY <4>1, <4>2
    <3> QED BY <3>1
  <2>3. m + 1 \in Nat
    OBVIOUS
  <2> HIDE DEF g
  <2> QED BY <2>2, <2>3
<1>3. S = Nat
  <2>1. S \in SUBSET Nat
    OBVIOUS
  <2> HIDE DEF S
  <2> QED BY <1>1, <1>2, <2>1, Induction
<1>4. \E f : f = [n \in 0 .. Len(items) |-> Body(f, n)]
  BY <1>3
<1> QED
  BY <1>4 DEF CollapsedUpTo

\* One more item leaves rows.
LEMMA WithItemIsRows ==
    ASSUME NEW v \in Seq(Row), NEW sig \in Signatures
    PROVE  WithItem(v, sig) \in Seq(Row)
<1> DEFINE same == {r \in DOMAIN v : v[r].sig = sig}
           more == [r \in DOMAIN v |->
                      IF r \in same THEN [v[r] EXCEPT !.duplicates = @ + 1] ELSE v[r]]
<1>1. [sig |-> sig, duplicates |-> 1] \in Row
  BY DEF Row
<1>2. more \in Seq(Row)
  <2>1. ASSUME NEW r \in DOMAIN v
        PROVE  v[r] \in Row /\ [v[r] EXCEPT !.duplicates = @ + 1] \in Row
    <3>1. v[r] \in Row
      OBVIOUS
    <3>2. \A x \in Row : [x EXCEPT !.duplicates = @ + 1] \in Row
      BY DEF Row
    <3> QED BY <3>1, <3>2
  <2>2. more \in [1 .. Len(v) -> Row]
    BY <2>1
  <2> QED BY <2>2
<1>3. WithItem(v, sig) \in {v, Append(v, [sig |-> sig, duplicates |-> 1]), more}
  <2> HIDE DEF more
  <2>1. CASE sig = None
    BY <2>1 DEF WithItem
  <2>2. CASE sig # None /\ same = {}
    BY <2>2 DEF WithItem
  <2>3. CASE sig # None /\ same # {}
    BY <2>3 DEF WithItem, more
  <2> QED BY <2>1, <2>2, <2>3
<1>4. Append(v, [sig |-> sig, duplicates |-> 1]) \in Seq(Row)
  BY <1>1
<1> HIDE DEF more
<1> QED
  BY <1>2, <1>3, <1>4

\* Whatever is picked collapses to rows of signatures.
LEMMA CollapseIsRows ==
    ASSUME NEW items \in Seq(Encodes)
    PROVE  CollapseSlots(items) \in Seq(Row)
<1> DEFINE upTo == CollapsedUpTo(items)
           S == {n \in 0 .. Len(items) : upTo[n] \in Seq(Row)}
<1>1. /\ upTo[0] = <<>>
      /\ \A n \in 0 .. Len(items) :
            n < Len(items) => upTo[n + 1] = WithItem(upTo[n], Signature[items[n + 1]])
  <2>1. upTo = [n \in 0 .. Len(items) |->
                  IF n = 0 THEN <<>> ELSE WithItem(upTo[n - 1], Signature[items[n]])]
    BY CollapseRecursion
  <2> HIDE DEF upTo
  <2>2. upTo[0] = <<>>
    BY <2>1
  <2>3. ASSUME NEW n \in 0 .. Len(items), n < Len(items)
        PROVE  upTo[n + 1] = WithItem(upTo[n], Signature[items[n + 1]])
    <3>1. n + 1 \in 0 .. Len(items) /\ n + 1 # 0 /\ (n + 1) - 1 = n
      BY <2>3
    <3> QED BY <2>1, <3>1
  <2> QED BY <2>2, <2>3
<1> HIDE DEF upTo
<1>2. 0 \in S
  <2>1. 0 \in 0 .. Len(items) /\ <<>> \in Seq(Row)
    OBVIOUS
  <2> QED BY <1>1, <2>1
<1>3. ASSUME NEW n \in 0 .. Len(items), n \in S, n < Len(items) PROVE n + 1 \in S
  <2>1. n + 1 \in 1 .. Len(items)
    BY <1>3
  <2>2. Signature[items[n + 1]] \in Signatures
    BY <2>1 DEF Signatures
  <2>3. upTo[n + 1] \in Seq(Row)
    BY <1>1, <1>3, <2>2, WithItemIsRows
  <2> QED BY <2>1, <2>3
<1>4. Len(items) \in S
  <2> HIDE DEF S
  <2>1. Len(items) \in Nat
    OBVIOUS
  <2>2. 0 .. Len(items) \subseteq S
    BY <1>2, <1>3, <2>1, SegmentInduction
  <2> QED BY <2>1, <2>2
<1> QED
  BY <1>4 DEF CollapseSlots, upTo

\* Nothing picked, nothing listed.
LEMMA NothingCollapses == CollapseSlots(<<>>) = <<>>
<1>1. Len(<<>>) = 0
  OBVIOUS
<1>2. CollapsedUpTo(<<>>)[0] = <<>>
  BY <1>1, CollapseRecursion
<1> QED
  BY <1>1, <1>2 DEF CollapseSlots

\* What is compared of a view.
LEMMA RowsAreSignatures ==
    ASSUME NEW v \in Seq(Row)
    PROVE  Rows(v) \in Seq(Signatures) /\ DOMAIN Rows(v) = DOMAIN v
<1>1. \A i \in DOMAIN v : v[i] \in Row
  OBVIOUS
<1>2. \A i \in DOMAIN v : v[i].sig \in Signatures
  BY <1>1 DEF Row
<1> QED
  BY <1>2 DEF Rows

\* What index_of_name finds bears the name alone, or is alone in containing it.
LEMMA IndexIsFound ==
    ASSUME NEW v \in Seq(Row), NEW name, IndexOfName(v, name) # None
    PROVE  LET r == IndexOfName(v, name)
           IN /\ r \in DOMAIN v
              /\ \A q \in DOMAIN v \ {r} :
                    /\ NameOf[v[q].sig] # name
                    /\ <<name, NameOf[v[q].sig]>> \in Within => NameOf[v[r].sig] = name
<1> DEFINE exact == {i \in DOMAIN v : NameOf[v[i].sig] = name}
           loose == {i \in DOMAIN v : \/ <<name, NameOf[v[i].sig]>> \in Within
                                      \/ <<NameOf[v[i].sig], name>> \in Within}
           found == IF exact # {} THEN exact ELSE loose
           r == IndexOfName(v, name)
<1>1. Cardinality(found) = 1 /\ r = CHOOSE i \in found : TRUE
  BY DEF IndexOfName
<1>2. IsFiniteSet(found)
  <2>1. IsFiniteSet(1 .. Len(v))
    BY FS_Interval
  <2>2. found \subseteq 1 .. Len(v)
    OBVIOUS
  <2> QED BY <2>1, <2>2, FS_Subset
<1>3. PICK x : found = {x}
  <2> HIDE DEF found
  <2> QED BY <1>1, <1>2, FS_Singleton
<1>4. r = x /\ r \in found
  <2> HIDE DEF found, r
  <2> QED BY <1>1, <1>3
<1>5. r \in DOMAIN v
  <2> HIDE DEF r
  <2> QED BY <1>4
<1>6. ASSUME NEW q \in DOMAIN v, q # r
      PROVE  /\ NameOf[v[q].sig] # name
             /\ <<name, NameOf[v[q].sig]>> \in Within => NameOf[v[r].sig] = name
  <2>1. q \notin found
    <3> HIDE DEF found, r
    <3> QED BY <1>3, <1>4, <1>6
  <2> HIDE DEF r
  <2>2. CASE exact # {}
    BY <1>4, <2>1, <2>2
  <2>3. CASE exact = {}
    BY <1>4, <2>1, <2>3
  <2> QED BY <2>2, <2>3
<1> QED
  BY <1>5, <1>6

-----------------------------------------------------------------------------
(***************************************************************************)
(* Types.                                                                  *)
(***************************************************************************)
\* What is sent is of the types of the wire.
LEMMA SelectedIsMessage ==
    ASSUME NEW items \in Seq(Encodes)
    PROVE  Selected(items) \in Message /\ Cleared \in Message
  BY DEF Selected, Cleared, Message

\* So is a trade that was read.
LEMMA TradeIsMessage ==
    ASSUME NEW who \in Whos, NEW lines \in Seq(Lines)
    PROVE  Trade(who, lines) \in Message
  BY DEF Trade, Message

\* What the fields of each type of message are.
LEMMA MessageFields ==
    ASSUME NEW m \in Message
    PROVE  /\ m.type \in {"selection_cleared", "items_selected", "trade_completed"}
           /\ m.type = "items_selected" => m.items \in Seq(Encodes)
           /\ m.type = "trade_completed" => m.who \in Whos /\ m.lines \in Seq(Lines)
  BY DEF Message

\* What the server announces names a player.
LEMMA TradeFields ==
    ASSUME NEW t \in Trades
    PROVE  t.who \in Whos /\ t.who # None /\ t.lines \in Seq(Lines) /\ None \notin Whos
  BY TradeFeedAssumption DEF Whos

\* Taking an item out of what is picked, or adding one whose slot is not there.
LEMMA RemovedKeepsKeys ==
    ASSUME NEW s \in Seq(Picked), \A i, j \in DOMAIN s : s[i].key = s[j].key => i = j,
           NEW k \in DOMAIN s
    PROVE  LET r == RemoveAt(s, k)
           IN /\ r \in Seq(Picked) /\ Len(r) = Len(s) - 1
              /\ \A i, j \in DOMAIN r : r[i].key = r[j].key => i = j
<1> DEFINE a == SubSeq(s, 1, k - 1)
           b == SubSeq(s, k + 1, Len(s))
           r == RemoveAt(s, k)
<1>1. a \in Seq(Picked) /\ Len(a) = k - 1 /\ \A i \in 1 .. k - 1 : a[i] = s[i]
  OBVIOUS
<1>2. /\ b \in Seq(Picked) /\ Len(b) = Len(s) - k
      /\ \A i \in 1 .. Len(s) - k : b[i] = s[k + i]
  OBVIOUS
<1>3. r = a \o b
  BY DEF RemoveAt
<1> HIDE DEF a, b, r
<1>4. r \in Seq(Picked) /\ Len(r) = Len(s) - 1
  BY <1>1, <1>2, <1>3
<1>5. \A i \in 1 .. Len(s) - 1 : r[i] = IF i < k THEN s[i] ELSE s[i + 1]
  BY <1>1, <1>2, <1>3
<1>6. \A i, j \in 1 .. Len(s) - 1 : r[i].key = r[j].key => i = j
  BY <1>5
<1>7. DOMAIN r = 1 .. Len(s) - 1
  BY <1>4
<1> QED
  BY <1>4, <1>6, <1>7 DEF r

\* The same of an item that is picked.
LEMMA AddedKeepsKeys ==
    ASSUME NEW s \in Seq(Picked), \A i, j \in DOMAIN s : s[i].key = s[j].key => i = j,
           NEW p \in Picked, \A i \in DOMAIN s : s[i].key # p.key
    PROVE  LET r == Append(s, p)
           IN /\ r \in Seq(Picked) /\ Len(r) = Len(s) + 1
              /\ \A i, j \in DOMAIN r : r[i].key = r[j].key => i = j
<1> DEFINE r == Append(s, p)
<1>1. /\ r \in Seq(Picked) /\ Len(r) = Len(s) + 1 /\ DOMAIN r = 1 .. Len(s) + 1
      /\ \A i \in 1 .. Len(s) + 1 : r[i] = IF i = Len(s) + 1 THEN p ELSE s[i]
  OBVIOUS
<1> HIDE DEF r
<1>2. \A i, j \in 1 .. Len(s) + 1 : r[i].key = r[j].key => i = j
  BY <1>1
<1> QED
  BY <1>1, <1>2 DEF r

\* Closing a block keeps the types.
LEMMA FlushKeepsTypes ==
    ASSUME TypeOK, Flush
    PROVE  wire' \in Seq(Message) /\ block' \in Seq(Lines)
<1>1. counterparty # None => Trade(counterparty, block) \in Message
  BY TradeIsMessage DEF TypeOK
<1>2. counterparty # None => Append(wire, Trade(counterparty, block)) \in Seq(Message)
  BY <1>1 DEF TypeOK
<1> QED
  BY <1>2 DEF TypeOK, Flush

\* Every step does.
LEMMA TypeKept ==
    ASSUME TypeOK, [Next]_vars
    PROVE  TypeOK'
<1>1. ASSUME NEW s \in Screens, Open(s) PROVE TypeOK'
  BY <1>1 DEF Open, TypeOK, reading, app
<1>2. CASE ToggleArmed
  BY <1>2 DEF ToggleArmed, TypeOK, reading, app
<1>3. CASE Send
  <2> DEFINE items == [i \in DOMAIN chosen |-> chosen[i].item]
  <2>1. items \in Seq(Encodes)
    <3>1. \A i \in DOMAIN chosen : chosen[i] \in Picked
      BY DEF TypeOK
    <3>2. \A i \in DOMAIN chosen : chosen[i].item \in Encodes
      BY <3>1 DEF Picked
    <3>3. items \in [1 .. Len(chosen) -> Encodes] /\ Len(chosen) \in Nat
      BY <3>2 DEF TypeOK
    <3> HIDE DEF items
    <3> QED BY <3>3
  <2>2. lastSent' = items
        /\ wire' = Append(wire, IF items = <<>> THEN Cleared ELSE Selected(items))
    BY <1>3 DEF Send
  <2> HIDE DEF items
  <2>3. wire' \in Seq(Message)
    BY <2>1, <2>2, SelectedIsMessage DEF TypeOK
  <2> QED
    BY <1>3, <2>1, <2>2, <2>3 DEF Send, TypeOK, picking, reading, app
<1>4. CASE ClearSelection
  <2>1. wire' \in Seq(Message)
    BY <1>4, SelectedIsMessage DEF TypeOK, ClearSelection
  <2>2. chosen' = <<>> /\ chosen' \in Seq(Picked) /\ lastSent' \in Seq(Encodes)
    BY <1>4 DEF ClearSelection
  <2>3. Len(chosen') <= MaxItems /\ \A i, j \in DOMAIN chosen' : i = j
    BY <2>2, TradeFeedAssumption
  <2> QED
    BY <1>4, <2>1, <2>2, <2>3 DEF ClearSelection, TypeOK, reading, app
<1>5. CASE Receive
  <2>1. /\ wire # <<>> /\ wire' = Tail(wire) /\ Head(wire) \in Message
        /\ wire' \in Seq(Message)
    BY <1>5 DEF Receive, TypeOK
  <2>2. view' \in Seq(Row) /\ settled' \in Seq(Settlement)
    <3>1. CASE Head(wire).type = "items_selected"
      <4>1. ShowSelection(CollapseSlots(Head(wire).items))
        BY <1>5, <3>1 DEF Receive
      <4>2. CollapseSlots(Head(wire).items) \in Seq(Row)
        BY <2>1, <3>1, MessageFields, CollapseIsRows
      <4> QED BY <4>1, <4>2 DEF ShowSelection, TypeOK
    <3>2. CASE Head(wire).type = "selection_cleared"
      <4>1. ShowSelection(<<>>)
        BY <1>5, <3>2 DEF Receive
      <4> QED BY <4>1 DEF ShowSelection, TypeOK
    <3>3. CASE Head(wire).type = "trade_completed"
      <4> DEFINE m == Head(wire)
                 one == [who |-> m.who, lines |-> m.lines, rows |-> Rows(view),
                         match |-> MatchIn(m.lines, view)]
      <4>1. settled' = Append(settled, one) /\ view' = view
        BY <1>5, <3>3 DEF Receive
      <4>2. m.who \in Whos /\ m.lines \in Seq(Lines)
        BY <2>1, <3>3, MessageFields
      <4>3. view \in Seq(Row)
        BY DEF TypeOK
      <4>4. Rows(view) \in Seq(Signatures)
        BY <4>3, RowsAreSignatures
      <4>5. MatchIn(m.lines, view) \in Nat \cup {None}
        <5> HIDE DEF m
        <5>1. CASE MatchIn(m.lines, view) # None
          <6>1. MatchIn(m.lines, view) = IndexOfName(view, ItemsIn(m.lines)[1].what)
            BY <5>1 DEF MatchIn
          <6>2. MatchIn(m.lines, view) \in DOMAIN view
            BY <4>3, <5>1, <6>1, IndexIsFound
          <6> QED BY <4>3, <6>2
        <5> QED BY <5>1
      <4>6. one \in Settlement
        <5> HIDE DEF m
        <5> QED BY <4>2, <4>4, <4>5 DEF Settlement
      <4> HIDE DEF one
      <4> QED BY <4>1, <4>6 DEF TypeOK
    <3> QED BY <2>1, <3>1, <3>2, <3>3, MessageFields
  <2> QED
    BY <1>5, <2>1, <2>2 DEF Receive, TypeOK, picking, reading
<1>6. ASSUME NEW slot \in Slots, Click(slot) PROVE TypeOK'
  <2>1. /\ chosen' \in Seq(Picked) /\ Len(chosen') <= MaxItems
        /\ \A i, j \in DOMAIN chosen' : chosen'[i].key = chosen'[j].key => i = j
    <3>1. CASE chosen' = chosen
      BY <3>1 DEF TypeOK
    <3>2. CASE chosen' # chosen
      <4> DEFINE item == Content[screen][slot]
                 same == {i \in DOMAIN chosen : chosen[i].key = Key(slot)}
      <4>1. Toggle(slot) /\ screen \in Screens
        BY <1>6, <3>2 DEF Click, TypeOK
      <4>2. CASE same # {}
        <5>1. PICK k \in DOMAIN chosen : chosen' = RemoveAt(chosen, k)
          BY <4>1, <4>2 DEF Toggle
        <5>2. /\ chosen \in Seq(Picked) /\ Len(chosen) <= MaxItems /\ MaxItems \in Nat
              /\ \A i, j \in DOMAIN chosen : chosen[i].key = chosen[j].key => i = j
          BY TradeFeedAssumption DEF TypeOK
        <5>3. /\ chosen' \in Seq(Picked) /\ Len(chosen') = Len(chosen) - 1
              /\ \A i, j \in DOMAIN chosen' : chosen'[i].key = chosen'[j].key => i = j
          BY <5>1, <5>2, RemovedKeepsKeys
        <5> QED BY <5>2, <5>3
      <4>3. CASE same = {}
        <5> DEFINE p == [key |-> Key(slot), item |-> item]
        <5>1. item \in Encodes /\ Len(chosen) < MaxItems /\ chosen' = Append(chosen, p)
          BY <3>2, <4>1, <4>3 DEF Toggle
        <5>2. p \in Picked /\ p.key = Key(slot)
          BY <4>1, <5>1 DEF Picked, Key
        <5>3. \A i \in DOMAIN chosen : chosen[i].key # p.key
          BY <4>3, <5>2
        <5> HIDE DEF p
        <5>4. chosen \in Seq(Picked) /\ MaxItems \in Nat
          BY TradeFeedAssumption DEF TypeOK
        <5>5. \A i, j \in DOMAIN chosen : chosen[i].key = chosen[j].key => i = j
          BY DEF TypeOK
        <5>6. /\ chosen' \in Seq(Picked) /\ Len(chosen') = Len(chosen) + 1
              /\ \A i, j \in DOMAIN chosen' : chosen'[i].key = chosen'[j].key => i = j
          BY <5>1, <5>2, <5>3, <5>4, <5>5, AddedKeepsKeys
        <5> QED BY <5>1, <5>4, <5>6
      <4> QED BY <4>2, <4>3
    <3> QED BY <3>1, <3>2
  <2> QED
    BY <1>6, <2>1 DEF Click, TypeOK, reading, app
<1>7. ASSUME NEW t \in Trades, Announce(t) PROVE TypeOK'
  <2>1. wire' \in Seq(Message) /\ block' \in Seq(Lines)
    BY <1>7, FlushKeepsTypes DEF Announce
  <2>2. t.who \in Whos /\ t.who # None /\ t.lines \in Seq(Lines)
    BY TradeFields
  <2>3. announced' \in Seq(Trades)
    BY <1>7 DEF Announce, TypeOK
  <2>4. FlushTicks \in -1 .. FlushTicks /\ FlushTicks # -1
    BY TradeFeedAssumption
  <2> QED
    BY <1>7, <2>1, <2>2, <2>3, <2>4 DEF Announce, TypeOK, picking, app
<1>8. CASE EntryLine
  <2>1. chat' \in Seq(Lines) /\ block' \in Seq(Lines)
    <3>1. /\ chat \in Seq(Lines) /\ chat # <<>> /\ chat' = Tail(chat) /\ block \in Seq(Lines)
          /\ block' = block \/ block' = Append(block, Head(chat))
      BY <1>8 DEF EntryLine, TypeOK
    <3>2. Head(chat) \in Lines /\ Tail(chat) \in Seq(Lines)
      BY <3>1
    <3> QED BY <3>1, <3>2
  <2>2. FlushTicks \in -1 .. FlushTicks /\ FlushTicks # -1
    BY TradeFeedAssumption
  <2> QED
    BY <1>8, <2>1, <2>2 DEF EntryLine, TypeOK, picking, app
<1>9. CASE Tick
  <2>1. /\ wire' \in Seq(Message) /\ block' \in Seq(Lines)
        /\ countdown' \in -1 .. FlushTicks /\ counterparty' \in Whos \cup {None}
        /\ (countdown' = -1) = (counterparty' = None)
    <3>1. CASE countdown - 1 <= 0
      <4>1. Flush /\ counterparty' = None /\ countdown' = -1
        BY <1>9, <3>1 DEF Tick
      <4>2. -1 \in -1 .. FlushTicks
        BY TradeFeedAssumption
      <4> QED BY <4>1, <4>2, FlushKeepsTypes
    <3>2. CASE ~ countdown - 1 <= 0
      BY <1>9, <3>2, TradeFeedAssumption DEF Tick, TypeOK
    <3> QED BY <3>1, <3>2
  <2> QED
    BY <1>9, <2>1 DEF Tick, TypeOK, picking, app
<1>10. CASE UNCHANGED vars
  BY <1>10 DEF vars, TypeOK, picking, reading, app
<1> QED
  BY <1>1, <1>2, <1>3, <1>4, <1>5, <1>6, <1>7, <1>8, <1>9, <1>10 DEF Next

-----------------------------------------------------------------------------
(***************************************************************************)
(* The invariant.                                                          *)
(***************************************************************************)
\* The trades on the wire.
Mine == {i \in DOMAIN wire : wire[i].type = "trade_completed"}

\* What a message about the selection will have the application list.
SelectionOf(m) == IF m.type = "items_selected" THEN CollapseSlots(m.items) ELSE <<>>

\* The last such message on the wire carries the last selection sent.
Underway ==
    \A i \in DOMAIN wire \ Mine :
        (\A j \in DOMAIN wire : j > i => j \in Mine)
            => Rows(SelectionOf(wire[i])) = Rows(CollapseSlots(lastSent))

\* The open block and what the server has still to print make up the last trade.
Reading ==
    IF counterparty = None THEN block = <<>>
    ELSE /\ announced # <<>> /\ announced[Len(announced)].who = counterparty
         /\ announced[Len(announced)].lines = block \o chat

\* The trade has been printed, and its block closed.
Closed(k) == k < Len(announced) \/ (counterparty = None /\ chat = <<>>)

\* A report is of a trade announced whose block is closed, or of the part of it that was
\* not late.
Tells(m, k) ==
    /\ m.who = announced[k].who /\ IsPrefix(m.lines, announced[k].lines)
    /\ counterparty # None => k # Len(announced)
    /\ ~ late /\ Closed(k) => m.lines = announced[k].lines /\ HadContent(m.lines)

Moving(k) == HadContent(announced[k].lines)

\* The trades received and those on the wire, matched with those announced.
Traced(f, g) ==
    /\ f \in [DOMAIN settled -> DOMAIN announced] /\ g \in [Mine -> DOMAIN announced]
    /\ Increasing(f) /\ Increasing(g)
    /\ \A i \in DOMAIN settled, j \in Mine : f[i] < g[j]
    /\ \A i \in DOMAIN settled : Tells(settled[i], f[i])
    /\ \A j \in Mine : Tells(wire[j], g[j])
    /\ ~ late => \A k \in DOMAIN announced : Moving(k) /\ Closed(k) =>
           (\E i \in DOMAIN settled : f[i] = k) \/ (\E j \in Mine : g[j] = k)

Matched ==
    \A i \in DOMAIN settled :
        LET s == settled[i]
            name == ItemsIn(s.lines)[1].what
        IN s.match # None =>
             /\ s.match \in DOMAIN s.rows
             /\ \A r \in DOMAIN s.rows \ {s.match} :
                   /\ NameOf[s.rows[r]] # name
                   /\ <<name, NameOf[s.rows[r]]>> \in Within => NameOf[s.rows[s.match]] = name

FeedInv ==
    /\ TypeOK /\ Underway /\ ListsLastSent /\ Reading /\ Matched
    /\ \E f, g : Traced(f, g)

-----------------------------------------------------------------------------
\* The first part of a sequence is a prefix of it.
LEMMA PrefixOfConcat ==
    ASSUME NEW s \in Seq(Lines), NEW t \in Seq(Lines)
    PROVE  IsPrefix(s, s \o t)
<1>1. Len(s \o t) = Len(s) + Len(t) /\ \A i \in 1 .. Len(s) : (s \o t)[i] = s[i]
  OBVIOUS
<1>2. SubSeq(s, 1, Len(s)) = s
  OBVIOUS
<1>3. SubSeq(s \o t, 1, Len(s)) = s
  BY <1>1
<1> QED
  BY <1>1, <1>2, <1>3 DEF IsPrefix

\* Steps that add a message about the selection, or none.
LEMMA SendKeepsTraced ==
    ASSUME TypeOK, NEW f, NEW g, Traced(f, g), NEW m \in Message, m.type # "trade_completed",
           wire' = Append(wire, m), UNCHANGED <<settled, announced, counterparty, chat, late>>
    PROVE  Traced(f, g)'
<1>1. wire \in Seq(Message) /\ \A i \in DOMAIN wire : wire'[i] = wire[i]
  BY DEF TypeOK
<1>2. DOMAIN wire' = DOMAIN wire \cup {Len(wire) + 1} /\ wire'[Len(wire) + 1] = m
  BY <1>1
<1>3. Mine' = Mine /\ \A j \in Mine : wire'[j] = wire[j]
  BY <1>1, <1>2 DEF Mine
<1>4. \A x, k : Tells(x, k)' = Tells(x, k)
  BY DEF Tells, Closed
<1>5. \A k : Moving(k)' = Moving(k) /\ Closed(k)' = Closed(k)
  BY DEF Moving, Closed
<1> QED
  BY <1>3, <1>4, <1>5 DEF Traced

\* A selection that arrives.
LEMMA ShiftKeepsTraced ==
    ASSUME TypeOK, NEW f, NEW g, Traced(f, g), wire # <<>>, 1 \notin Mine,
           wire' = Tail(wire), UNCHANGED <<settled, announced, counterparty, chat, late>>
    PROVE  \E h : Traced(f, h)'
<1> DEFINE h == [j \in Mine' |-> g[j + 1]]
<1>1. wire \in Seq(Message) /\ Len(wire) \in Nat /\ Len(wire) # 0
  BY DEF TypeOK
<1>2. DOMAIN wire' = 1 .. Len(wire) - 1 /\ \A j \in DOMAIN wire' : wire'[j] = wire[j + 1]
  BY <1>1
<1>3. \A j \in Mine' : j + 1 \in Mine /\ j \in Nat /\ wire'[j] = wire[j + 1]
  BY <1>1, <1>2 DEF Mine
<1>4. \A j \in Mine : j - 1 \in Mine' /\ j \in Nat
  BY <1>1, <1>2 DEF Mine
<1>5. \A x, k : Tells(x, k)' = Tells(x, k)
  BY DEF Tells, Closed
<1>6. \A k : Moving(k)' = Moving(k) /\ Closed(k)' = Closed(k)
  BY DEF Moving, Closed
<1>7. h \in [Mine' -> DOMAIN announced'] /\ \A j \in Mine' : h[j] = g[j + 1]
  BY <1>3 DEF Traced
<1>8. \A j \in Mine : \E i \in Mine' : h[i] = g[j]
  BY <1>4, <1>7
<1>9. Increasing(h)
  BY <1>3, <1>7 DEF Traced, Increasing
<1> HIDE DEF h
<1>10. \A i \in DOMAIN settled, j \in Mine' : f[i] < h[j]
  BY <1>3, <1>7 DEF Traced
<1>11. \A j \in Mine' : Tells(wire'[j], h[j])
  BY <1>3, <1>7 DEF Traced
<1>12. ~ late => \A k \in DOMAIN announced : Moving(k) /\ Closed(k) =>
           (\E i \in DOMAIN settled : f[i] = k) \/ (\E j \in Mine' : h[j] = k)
  BY <1>8 DEF Traced
<1> QED
  BY <1>5, <1>6, <1>7, <1>9, <1>10, <1>11, <1>12 DEF Traced

\* A trade that arrives.
LEMMA ReceiveKeepsTraced ==
    ASSUME TypeOK, NEW f, NEW g, Traced(f, g), wire # <<>>, 1 \in Mine, wire' = Tail(wire),
           NEW s \in Settlement, settled' = Append(settled, s),
           s.who = wire[1].who, s.lines = wire[1].lines,
           UNCHANGED <<announced, counterparty, chat, late>>
    PROVE  \E e, h : Traced(e, h)'
<1> PICK n : n = Len(settled)
  OBVIOUS
<1> PICK e : e = [i \in DOMAIN settled' |-> IF i = n + 1 THEN g[1] ELSE f[i]]
  OBVIOUS
<1> PICK h : h = [j \in Mine' |-> g[j + 1]]
  OBVIOUS
<1>1. wire \in Seq(Message) /\ Len(wire) \in Nat /\ Len(wire) # 0
  BY DEF TypeOK
<1>2. DOMAIN wire' = 1 .. Len(wire) - 1 /\ \A j \in DOMAIN wire' : wire'[j] = wire[j + 1]
  BY <1>1
<1>3. \A j \in Mine' : j + 1 \in Mine /\ j \in Nat /\ wire'[j] = wire[j + 1] /\ 1 < j + 1
  BY <1>1, <1>2 DEF Mine
<1>4. \A j \in Mine : j \in Nat /\ (j = 1 \/ j - 1 \in Mine')
  BY <1>1, <1>2 DEF Mine
<1>5. /\ n \in Nat /\ DOMAIN settled = 1 .. n /\ DOMAIN settled' = 1 .. n + 1
      /\ settled'[n + 1] = s /\ \A i \in 1 .. n : settled'[i] = settled[i]
  BY DEF TypeOK
<1>6. \A x, k : Tells(x, k)' = Tells(x, k)
  BY DEF Tells, Closed
<1>7. \A k : Moving(k)' = Moving(k) /\ Closed(k)' = Closed(k)
  BY DEF Moving, Closed
<1>8. h \in [Mine' -> DOMAIN announced'] /\ \A j \in Mine' : h[j] = g[j + 1]
  BY <1>3 DEF Traced
<1>9. /\ e \in [DOMAIN settled' -> DOMAIN announced'] /\ e[n + 1] = g[1]
      /\ \A i \in 1 .. n : e[i] = f[i]
  <2>1. \A i \in DOMAIN settled' : i = n + 1 \/ i \in DOMAIN settled
    BY <1>5
  <2>2. g[1] \in DOMAIN announced /\ \A i \in DOMAIN settled : f[i] \in DOMAIN announced
    BY DEF Traced
  <2> QED BY <1>5, <2>1, <2>2
<1>10. Increasing(h) /\ \A j \in Mine' : g[1] < h[j]
  BY <1>3, <1>8 DEF Traced, Increasing
<1>11. Increasing(e)
  <2>1. Increasing(f) /\ DOMAIN f = 1 .. n /\ \A i \in 1 .. n : f[i] < g[1]
    BY <1>5 DEF Traced
  <2>2. ASSUME NEW i \in 1 .. n + 1, NEW j \in 1 .. n + 1, i < j PROVE e[i] < e[j]
    <3>1. i \in 1 .. n /\ (j = n + 1 \/ j \in 1 .. n)
      BY <1>5, <2>2
    <3> QED BY <1>9, <2>1, <2>2, <3>1 DEF Increasing
  <2> QED BY <1>5, <1>9, <2>2 DEF Increasing
<1>12. \A i \in DOMAIN settled', j \in Mine' : e[i] < h[j]
  <2>1. ASSUME NEW i \in 1 .. n, NEW j \in Mine' PROVE e[i] < h[j]
    BY <1>3, <1>5, <1>8, <1>9 DEF Traced
  <2>2. \A i \in DOMAIN settled' : i = n + 1 \/ i \in 1 .. n
    BY <1>5
  <2> QED BY <1>9, <1>10, <2>1, <2>2
<1>13. \A j \in Mine' : Tells(wire'[j], h[j])
  BY <1>3, <1>8 DEF Traced
<1>14. \A i \in DOMAIN settled' : Tells(settled'[i], e[i])
  <2>1. Tells(wire[1], g[1])
    BY DEF Traced
  <2>2. Tells(s, g[1])
    BY <2>1 DEF Tells
  <2>3. \A i \in 1 .. n : Tells(settled'[i], e[i])
    BY <1>5, <1>9 DEF Traced
  <2>4. \A i \in DOMAIN settled' : i = n + 1 \/ i \in 1 .. n
    BY <1>5
  <2> QED BY <1>5, <1>9, <2>2, <2>3, <2>4
<1>15. ~ late => \A k \in DOMAIN announced : Moving(k) /\ Closed(k) =>
           (\E i \in DOMAIN settled' : e[i] = k) \/ (\E j \in Mine' : h[j] = k)
  <2>1. \A i \in DOMAIN settled : i \in DOMAIN settled' /\ e[i] = f[i]
    BY <1>5, <1>9
  <2>2. \A j \in Mine : (\E i \in DOMAIN settled' : e[i] = g[j]) \/ \E i \in Mine' : h[i] = g[j]
    <3>1. n + 1 \in DOMAIN settled'
      BY <1>5
    <3>2. ASSUME NEW j \in Mine, j # 1 PROVE \E i \in Mine' : h[i] = g[j]
      <4>1. j - 1 \in Mine' /\ (j - 1) + 1 = j
        BY <1>4, <3>2
      <4>2. h[j - 1] = g[j]
        BY <1>8, <4>1
      <4> QED BY <4>1, <4>2
    <3> QED BY <1>9, <3>1, <3>2
  <2>3. ASSUME ~ late, NEW k \in DOMAIN announced, Moving(k), Closed(k)
        PROVE  (\E i \in DOMAIN settled' : e[i] = k) \/ (\E j \in Mine' : h[j] = k)
    <3>1. (\E i \in DOMAIN settled : f[i] = k) \/ (\E j \in Mine : g[j] = k)
      BY <2>3 DEF Traced
    <3> QED BY <2>1, <2>2, <3>1
  <2> QED BY <2>3
<1>16. /\ \A i \in DOMAIN settled' : \A x : x = settled'[i] => Tells(x, e[i])'
       /\ \A j \in Mine' : \A x : x = wire'[j] => Tells(x, h[j])'
  BY <1>6, <1>13, <1>14
<1>17. e \in [DOMAIN settled' -> DOMAIN announced'] /\ h \in [Mine' -> DOMAIN announced']
  BY <1>8, <1>9
<1>18. ASSUME ~ late', NEW k \in DOMAIN announced', Moving(k)', Closed(k)'
       PROVE  (\E i \in DOMAIN settled' : e[i] = k) \/ (\E j \in Mine' : h[j] = k)
  BY <1>7, <1>15, <1>18
<1>19. Traced(e, h)'
  BY <1>10, <1>11, <1>12, <1>16, <1>17, <1>18 DEF Traced
<1> QED
  BY <1>19

\* A block is closed: by its countdown, or because the server announces another trade.
LEMMA FlushKeepsTraced ==
    ASSUME TypeOK, Reading, NEW f, NEW g, Traced(f, g), Flush, UNCHANGED <<settled, late>>,
           \/ /\ counterparty # None /\ counterparty' = None
              /\ UNCHANGED <<announced, chat>>
           \/ /\ chat = <<>> /\ counterparty' # None
              /\ \E t \in Trades : announced' = Append(announced, t)
    PROVE  \E h : Traced(f, h)'
<1> PICK n : n = Len(announced)
  OBVIOUS
<1> PICK m : m = Trade(counterparty, block)
  OBVIOUS
<1> PICK q : q = Len(wire) + 1
  OBVIOUS
<1> DEFINE emitted == counterparty # None /\ HadContent(block)
<1>1. /\ n \in Nat /\ DOMAIN announced = 1 .. n /\ Len(announced') \in Nat
      /\ DOMAIN announced' = 1 .. Len(announced')
      /\ Len(announced') \in {n, n + 1}
      /\ \A k \in 1 .. n : k \in DOMAIN announced' /\ announced'[k] = announced[k]
  <2>1. announced \in Seq(Trades)
    BY DEF TypeOK
  <2>2. CASE announced' = announced
    BY <2>1, <2>2
  <2>3. ASSUME NEW t \in Trades, announced' = Append(announced, t)
        PROVE  /\ Len(announced') = n + 1 /\ DOMAIN announced' = 1 .. n + 1
               /\ \A k \in 1 .. n : announced'[k] = announced[k]
    BY <2>1, <2>3
  <2>4. n \in Nat /\ DOMAIN announced = 1 .. n /\ \A k \in 1 .. n : k \in 1 .. n + 1
    BY <2>1
  <2> QED BY <2>2, <2>3, <2>4
<1>num. n \in Nat
  BY <1>1
<1>2. \A k \in 1 .. n : Moving(k)' = Moving(k)
  BY <1>1 DEF Moving
<1>3. \A k \in 1 .. n : Closed(k)' = (Closed(k) \/ (counterparty # None /\ k = n /\ chat = <<>>))
  <2>1. CASE counterparty' = None
    BY <1>1, <2>1 DEF Closed
  <2>2. CASE counterparty' # None
    <3>1. Len(announced') = n + 1 /\ chat = <<>>
      BY <2>2 DEF TypeOK
    <3> QED BY <1>1, <2>2, <3>1 DEF Closed
  <2> QED BY <2>1, <2>2
<1>4. \A k \in DOMAIN announced' : k \in 1 .. n \/ ~ Closed(k)'
  <2>1. CASE counterparty' = None
    BY <1>1, <2>1
  <2>2. CASE counterparty' # None
    <3>1. Len(announced') = n + 1
      BY <2>2 DEF TypeOK
    <3> QED BY <1>1, <2>2, <3>1 DEF Closed
  <2> QED BY <2>1, <2>2
<1>5. counterparty' # None => \A k \in 1 .. n : k # Len(announced')
  <2>1. counterparty' # None => Len(announced') = n + 1
    BY DEF TypeOK
  <2>2. \A k \in 1 .. n : k # n + 1
    BY <1>num
  <2> QED BY <2>1, <2>2
<1>6. ASSUME NEW x, NEW k \in 1 .. n, Tells(x, k) PROVE Tells(x, k)'
  <2>1. Closed(k)' => Closed(k)
    BY <1>3, <1>6 DEF Tells
  <2> QED BY <1>1, <1>5, <1>6, <2>1 DEF Tells
<1>7. f \in [DOMAIN settled -> 1 .. n] /\ g \in [Mine -> 1 .. n]
  BY <1>1 DEF Traced
<1>8. CASE ~ emitted
  <2>1. wire' = wire /\ Mine' = Mine
    BY <1>8 DEF Flush, Mine
  <2>2. f \in [DOMAIN settled -> DOMAIN announced'] /\ g \in [Mine -> DOMAIN announced']
    BY <1>1, <1>7
  <2>3. /\ \A i \in DOMAIN settled : Tells(settled[i], f[i])'
        /\ \A j \in Mine : \A x : x = wire[j] => Tells(x, g[j])'
    BY <1>6, <1>7, <2>1 DEF Traced
  <2>4. ASSUME ~ late, NEW k \in DOMAIN announced', Moving(k)', Closed(k)'
        PROVE  (\E i \in DOMAIN settled : f[i] = k) \/ (\E j \in Mine : g[j] = k)
    <3>1. k \in 1 .. n /\ Moving(k)
      BY <1>2, <1>4, <2>4
    <3>2. CASE Closed(k)
      BY <1>1, <2>4, <3>1, <3>2 DEF Traced
    <3>3. CASE ~ Closed(k)
      <4>1. counterparty # None /\ k = n /\ chat = <<>>
        BY <1>3, <2>4, <3>1, <3>3
      <4>2. announced[n].lines = block
        BY <4>1 DEF Reading, TypeOK
      <4> QED BY <1>8, <3>1, <4>1, <4>2 DEF Moving
    <3> QED BY <3>2, <3>3
  <2> QED BY <2>1, <2>2, <2>3, <2>4 DEF Traced
<1>9. CASE emitted
  <2> PICK h : h = [j \in Mine' |-> IF j = q THEN n ELSE g[j]]
    OBVIOUS
  <2>1. wire' = Append(wire, m) /\ wire \in Seq(Message) /\ m.type = "trade_completed"
    BY <1>9 DEF Flush, TypeOK, Trade
  <2>2. /\ Len(wire) \in Nat /\ DOMAIN wire = 1 .. Len(wire) /\ DOMAIN wire' = 1 .. q
        /\ wire'[q] = m /\ \A j \in DOMAIN wire : wire'[j] = wire[j]
    BY <2>1
  <2>3. Mine' = Mine \cup {q} /\ \A j \in Mine : j \in Nat /\ j < q /\ wire'[j] = wire[j]
    <3>1. \A j \in DOMAIN wire : j \in Nat /\ j < q
      BY <2>2
    <3>2. DOMAIN wire' = DOMAIN wire \cup {q}
      BY <2>2
    <3> QED BY <2>1, <2>2, <3>1, <3>2 DEF Mine
  <2>4. n \in 1 .. n /\ n # 0
    <3>1. announced # <<>> /\ announced \in Seq(Trades)
      BY <1>9 DEF Reading, TypeOK
    <3>2. n # 0
      BY <3>1
    <3> QED BY <1>num, <3>2
  <2>5. h \in [Mine' -> DOMAIN announced'] /\ h[q] = n /\ \A j \in Mine : h[j] = g[j]
    <3>1. \A j \in Mine : j # q /\ g[j] \in DOMAIN announced'
      <4>1. \A j \in Mine : j # q
        BY <2>3
      <4>2. \A j \in Mine : g[j] \in 1 .. n
        BY <1>7
      <4> QED BY <1>1, <4>1, <4>2
    <3>2. n \in DOMAIN announced'
      BY <1>1, <2>4
    <3> QED BY <2>3, <3>1, <3>2
  <2>6. \A i \in DOMAIN settled : f[i] < n
    <3>1. \A i \in DOMAIN settled : f[i] \in 1 .. n /\ f[i] # n
      BY <1>7, <1>9 DEF Traced, Tells
    <3> QED BY <1>num, <3>1
  <2>7. \A j \in Mine : g[j] < n
    <3>1. \A j \in Mine : g[j] \in 1 .. n /\ g[j] # n
      BY <1>7, <1>9 DEF Traced, Tells
    <3> QED BY <1>num, <3>1
  <2>8. Increasing(h)
    <3>1. ASSUME NEW i \in Mine', NEW j \in Mine', i < j PROVE h[i] < h[j]
      <4>1. i \in Mine /\ (j = q \/ j \in Mine)
        BY <2>2, <2>3, <3>1
      <4>2. CASE j = q
        BY <2>5, <2>7, <4>1, <4>2
      <4>3. CASE j \in Mine
        BY <2>5, <3>1, <4>1, <4>3 DEF Traced, Increasing
      <4> QED BY <4>1, <4>2, <4>3
    <3> QED BY <2>5, <3>1 DEF Increasing
  <2>9. \A i \in DOMAIN settled, j \in Mine' : f[i] < h[j]
    BY <2>3, <2>5, <2>6 DEF Traced
  <2>10. \A i \in DOMAIN settled : Tells(settled[i], f[i])'
    BY <1>6, <1>7 DEF Traced
  <2>11. Tells(m, n)'
    <3>1. m.who = counterparty /\ m.lines = block
      BY DEF Trade
    <3>2. announced[n].who = counterparty /\ announced[n].lines = block \o chat
      BY <1>9 DEF Reading
    <3>3. IsPrefix(block, block \o chat)
      BY PrefixOfConcat DEF TypeOK
    <3>4. announced'[n] = announced[n] /\ (counterparty' # None => n # Len(announced'))
      BY <1>1, <1>5, <2>4
    <3>5. ~ late' /\ Closed(n)' => chat = <<>>
      BY <1>3, <1>9, <2>4 DEF Closed
    <3>6. chat = <<>> => block \o chat = block
      BY DEF TypeOK
    <3> QED BY <1>9, <3>1, <3>2, <3>3, <3>4, <3>5, <3>6 DEF Tells
  <2>12. \A j \in Mine' : \A x : x = wire'[j] => Tells(x, h[j])'
    <3>1. \A j \in Mine : \A x : x = wire[j] => Tells(x, g[j])'
      BY <1>6, <1>7 DEF Traced
    <3> QED BY <2>2, <2>3, <2>5, <2>11, <3>1
  <2>13. ASSUME ~ late, NEW k \in DOMAIN announced', Moving(k)', Closed(k)'
         PROVE  (\E i \in DOMAIN settled : f[i] = k) \/ (\E j \in Mine' : h[j] = k)
    <3>1. k \in 1 .. n /\ Moving(k)
      BY <1>2, <1>4, <2>13
    <3>2. CASE k = n
      BY <2>3, <2>5, <3>2
    <3>3. CASE k # n
      <4>1. Closed(k)
        BY <1>3, <2>13, <3>1, <3>3
      <4> QED BY <1>1, <2>3, <2>5, <2>13, <3>1, <4>1 DEF Traced
    <3> QED BY <3>2, <3>3
  <2>14. f \in [DOMAIN settled' -> DOMAIN announced']
    BY <1>1, <1>7
  <2> QED
    BY <2>5, <2>8, <2>9, <2>10, <2>12, <2>13, <2>14 DEF Traced
<1> QED
  BY <1>8, <1>9

\* Every step leaves the trades told matched with those announced.
LEMMA TracedKept ==
    ASSUME TypeOK, Reading, [Next]_vars, NEW f, NEW g, Traced(f, g)
    PROVE  \E e, h : Traced(e, h)'
<1>1. ASSUME wire' = wire, settled' = settled, announced' = announced,
             counterparty' = counterparty, chat' = chat, late' = late
      PROVE  Traced(f, g)'
  <2>1. Mine' = Mine
    BY <1>1 DEF Mine
  <2>2. \A x, k : Tells(x, k)' = Tells(x, k)
    BY <1>1 DEF Tells, Closed
  <2>3. \A k : Moving(k)' = Moving(k) /\ Closed(k)' = Closed(k)
    BY <1>1 DEF Moving, Closed
  <2> QED BY <1>1, <2>1, <2>2, <2>3 DEF Traced
<1>2. ASSUME NEW s \in Screens, Open(s) PROVE Traced(f, g)'
  BY <1>1, <1>2 DEF Open, reading, app
<1>3. CASE ToggleArmed
  BY <1>1, <1>3 DEF ToggleArmed, reading, app
<1>4. ASSUME NEW slot \in Slots, Click(slot) PROVE Traced(f, g)'
  BY <1>1, <1>4 DEF Click, reading, app
<1>5. CASE Send
  <2>1. PICK m : /\ wire' = Append(wire, m)
                 /\ m = Cleared \/ m = Selected([i \in DOMAIN chosen |-> chosen[i].item])
    BY <1>5 DEF Send
  <2>2. m \in Message /\ m.type # "trade_completed"
    <3>1. TypeOK'
      BY TypeKept
    <3>2. wire \in Seq(Message) /\ wire' \in Seq(Message) /\ wire' = Append(wire, m)
      BY <2>1, <3>1 DEF TypeOK
    <3>3. wire' # <<>> /\ m = wire'[Len(wire')]
      BY <3>2
    <3>4. m \in Message
      BY <3>2, <3>3
    <3> QED BY <2>1, <3>4 DEF Cleared, Selected
  <2> QED BY <1>5, <2>1, <2>2, SendKeepsTraced DEF Send, reading, app
<1>6. CASE ClearSelection
  <2>1. Cleared \in Message /\ Cleared.type # "trade_completed"
    BY DEF Cleared, Message
  <2> QED BY <1>6, <2>1, SendKeepsTraced DEF ClearSelection, reading, app
<1>7. CASE Receive
  <2>1. /\ wire # <<>> /\ wire' = Tail(wire) /\ 1 \in DOMAIN wire /\ Head(wire) = wire[1]
        /\ wire[1] \in Message /\ UNCHANGED <<announced, counterparty, chat, late>>
    BY <1>7 DEF Receive, TypeOK, reading
  <2>2. CASE wire[1].type = "trade_completed"
    <3> DEFINE m == wire[1]
    <3>1. PICK s : /\ settled' = Append(settled, s)
                   /\ s = [who |-> m.who, lines |-> m.lines, rows |-> Rows(view),
                           match |-> MatchIn(m.lines, view)]
      BY <1>7, <2>1, <2>2 DEF Receive
    <3>2. s \in Settlement
      <4>1. settled' \in Seq(Settlement) /\ settled \in Seq(Settlement)
        BY TypeKept DEF TypeOK
      <4>2. settled' # <<>> /\ s = settled'[Len(settled')]
        BY <3>1, <4>1
      <4> QED BY <4>1, <4>2
    <3>3. s.who = m.who /\ s.lines = m.lines
      BY <3>1
    <3>4. 1 \in Mine
      BY <2>1, <2>2 DEF Mine
    <3> HIDE DEF m
    <3> QED BY <2>1, <3>1, <3>2, <3>3, <3>4, ReceiveKeepsTraced DEF m
  <2>3. CASE wire[1].type # "trade_completed"
    <3>1. settled' = settled
      BY <1>7, <2>1, <2>3, MessageFields DEF Receive, ShowSelection
    <3>2. 1 \notin Mine
      BY <2>3 DEF Mine
    <3> QED BY <2>1, <3>1, <3>2, ShiftKeepsTraced
  <2> QED BY <2>2, <2>3
<1>8. ASSUME NEW t \in Trades, Announce(t) PROVE \E h : Traced(f, h)'
  BY <1>8, TradeFields, FlushKeepsTraced DEF Announce, app
<1>9. CASE EntryLine
  <2>1. /\ UNCHANGED <<counterparty, announced, settled, wire>>
        /\ counterparty = None => late'
        /\ counterparty # None => late' = late
    BY <1>9 DEF EntryLine, app
  <2>2. Mine' = Mine
    BY <2>1 DEF Mine
  <2>3. chat # <<>>
    BY <1>9 DEF EntryLine
  <2>4. ASSUME NEW k \in DOMAIN announced, ~ late' PROVE ~ late /\ Closed(k)' = Closed(k)
    BY <2>1, <2>4 DEF Closed, TypeOK
  <2>5. ASSUME NEW x, NEW k \in DOMAIN announced, Tells(x, k) PROVE Tells(x, k)'
    BY <2>1, <2>4, <2>5 DEF Tells
  <2>6. \A k : Moving(k)' = Moving(k)
    BY <2>1 DEF Moving
  <2>7. /\ \A i \in DOMAIN settled : \A x : x = settled[i] => Tells(x, f[i])'
        /\ \A j \in Mine : \A x : x = wire[j] => Tells(x, g[j])'
    BY <2>5 DEF Traced
  <2>8. Traced(f, g)'
    BY <2>1, <2>2, <2>4, <2>6, <2>7 DEF Traced
  <2> QED BY <2>8
<1>10. CASE Tick
  <2>1. CASE countdown - 1 <= 0
    <3>1. Flush /\ counterparty' = None /\ UNCHANGED <<settled, late, announced, chat>>
      BY <1>10, <2>1 DEF Tick, app
    <3>2. counterparty # None
      BY <1>10 DEF Tick, TypeOK
    <3> QED BY <3>1, <3>2, FlushKeepsTraced
  <2>2. CASE ~ countdown - 1 <= 0
    BY <1>1, <1>10, <2>2 DEF Tick, app
  <2> QED BY <2>1, <2>2
<1>11. CASE UNCHANGED vars
  BY <1>1, <1>11 DEF vars, reading, app
<1> QED
  BY <1>2, <1>3, <1>4, <1>5, <1>6, <1>7, <1>8, <1>9, <1>10, <1>11 DEF Next

\* The open block never holds lines of another trade.
LEMMA ReadingKept ==
    ASSUME TypeOK, Reading, [Next]_vars
    PROVE  Reading'
<1>1. ASSUME UNCHANGED reading PROVE Reading'
  BY <1>1 DEF Reading, reading
<1>2. ASSUME NEW t \in Trades, Announce(t) PROVE Reading'
  <2>1. /\ announced' = Append(announced, t) /\ chat' = t.lines /\ counterparty' = t.who
        /\ block' = <<>> /\ t.lines \in Seq(Lines) /\ t.who # None
    BY <1>2, TradeFields DEF Announce, Flush, Reading
  <2>2. announced' # <<>> /\ announced'[Len(announced')] = t
    <3>1. announced \in Seq(Trades) /\ announced' = Append(announced, t)
      BY <2>1 DEF TypeOK
    <3> QED BY <3>1
  <2>3. block' \o chat' = t.lines
    BY <2>1
  <2> QED BY <2>1, <2>2, <2>3 DEF Reading
<1>3. CASE EntryLine
  <2>1. CASE counterparty = None
    BY <1>3, <2>1 DEF EntryLine, Reading
  <2>2. CASE counterparty # None
    <3>1. /\ chat # <<>> /\ chat \in Seq(Lines) /\ block \in Seq(Lines)
          /\ chat' = Tail(chat) /\ block' = Append(block, Head(chat))
          /\ UNCHANGED <<counterparty, announced>>
      BY <1>3, <2>2 DEF EntryLine, TypeOK
    <3>2. block' \o chat' = block \o chat
      <4>1. /\ Len(chat) \in Nat \ {0} /\ Len(block) \in Nat
            /\ block' \in Seq(Lines) /\ Len(block') = Len(block) + 1
            /\ block'[Len(block) + 1] = chat[1] /\ \A i \in 1 .. Len(block) : block'[i] = block[i]
            /\ chat' \in Seq(Lines) /\ Len(chat') = Len(chat) - 1
            /\ \A i \in 1 .. Len(chat) - 1 : chat'[i] = chat[i + 1]
        BY <3>1
      <4>2. /\ block' \o chat' \in Seq(Lines) /\ block \o chat \in Seq(Lines)
            /\ Len(block' \o chat') = Len(block) + Len(chat)
            /\ Len(block \o chat) = Len(block) + Len(chat)
        BY <3>1, <4>1
      <4>3. ASSUME NEW i \in 1 .. Len(block) + Len(chat)
            PROVE  (block' \o chat')[i] = (block \o chat)[i]
        <5>1. CASE i <= Len(block)
          BY <3>1, <4>1, <5>1
        <5>2. CASE i = Len(block) + 1
          BY <3>1, <4>1, <5>2
        <5>3. CASE i > Len(block) + 1
          BY <3>1, <4>1, <5>3
        <5> QED BY <4>1, <5>1, <5>2, <5>3
      <4> QED BY <4>2, <4>3
    <3> QED BY <2>2, <3>1, <3>2 DEF Reading
  <2> QED BY <2>1, <2>2
<1>4. CASE Tick
  <2>1. CASE countdown - 1 <= 0
    BY <1>4, <2>1 DEF Tick, Flush, Reading
  <2>2. CASE ~ countdown - 1 <= 0
    BY <1>4, <2>2 DEF Tick, Reading
  <2> QED BY <2>1, <2>2
<1>5. [\/ \E s \in Screens : Open(s)
       \/ ToggleArmed \/ Send \/ ClearSelection \/ Receive
       \/ \E slot \in Slots : Click(slot)]_vars => UNCHANGED reading
  BY DEF Open, ToggleArmed, Send, ClearSelection, Receive, Click, vars
<1> QED
  BY <1>1, <1>2, <1>3, <1>4, <1>5 DEF Next

\* A settlement is matched when it arrives and stays as it is.
LEMMA MatchedKept ==
    ASSUME TypeOK, Matched, [Next]_vars
    PROVE  Matched'
<1>1. ASSUME settled' = settled PROVE Matched'
  BY <1>1 DEF Matched
<1>2. CASE Receive /\ Head(wire).type = "trade_completed"
  <2> DEFINE m == Head(wire)
             name == ItemsIn(m.lines)[1].what
  <2>1. PICK s : /\ settled' = Append(settled, s)
                 /\ s = [who |-> m.who, lines |-> m.lines, rows |-> Rows(view),
                         match |-> MatchIn(m.lines, view)]
    BY <1>2 DEF Receive
  <2>2. view \in Seq(Row) /\ settled \in Seq(Settlement)
    BY DEF TypeOK
  <2>3. /\ s.lines = m.lines /\ s.rows = Rows(view) /\ s.match = MatchIn(m.lines, view)
    BY <2>1
  <2>4. /\ DOMAIN s.rows = DOMAIN view
        /\ \A r \in DOMAIN view : s.rows[r] = view[r].sig
    BY <2>3 DEF Rows
  <2> HIDE DEF m
  <2>5. ASSUME s.match # None
        PROVE  /\ s.match \in DOMAIN s.rows
               /\ \A r \in DOMAIN s.rows \ {s.match} :
                     /\ NameOf[s.rows[r]] # name
                     /\ <<name, NameOf[s.rows[r]]>> \in Within
                           => NameOf[s.rows[s.match]] = name
    <3>1. s.match = IndexOfName(view, name) /\ IndexOfName(view, name) # None
      BY <2>3, <2>5 DEF MatchIn
    <3> QED BY <2>2, <2>4, <3>1, IndexIsFound
  <2>6. \A i \in DOMAIN settled' : \/ settled'[i] = s
                                   \/ (i \in DOMAIN settled /\ settled'[i] = settled[i])
    BY <2>1, <2>2
  <2> QED BY <2>3, <2>5, <2>6 DEF Matched
<1>3. ASSUME Receive, Head(wire).type # "trade_completed" PROVE settled' = settled
  <2>1. Head(wire) \in Message
    BY <1>3 DEF Receive, TypeOK
  <2> QED BY <1>3, <2>1, MessageFields DEF Receive, ShowSelection
<1>4. [Next /\ ~ Receive]_vars => settled' = settled
  BY DEF Next, Open, ToggleArmed, Send, ClearSelection, Click, Announce, EntryLine, Tick, vars, app
<1> QED
  BY <1>1, <1>2, <1>3, <1>4

\* A message at the end of the wire, or none, or one fewer at its head.
LEMMA UnderwayKept ==
    ASSUME TypeOK, Underway, ListsLastSent, [Next]_vars
    PROVE  Underway' /\ ListsLastSent'
<1> DEFINE Shown(w, v, last) ==
              /\ \A i \in DOMAIN w :
                    w[i].type # "trade_completed"
                    /\ (\A j \in DOMAIN w : j > i => w[j].type = "trade_completed")
                       => Rows(SelectionOf(w[i])) = Rows(CollapseSlots(last))
              /\ (\A i \in DOMAIN w : w[i].type = "trade_completed")
                    => Rows(v) = Rows(CollapseSlots(last))
<1>1. (Underway /\ ListsLastSent) = Shown(wire, view, lastSent)
  BY DEF Underway, ListsLastSent, Mine
<1>2. (Underway' /\ ListsLastSent') = Shown(wire', view', lastSent')
  BY DEF Underway, ListsLastSent, Mine
<1>3. wire \in Seq(Message) /\ Len(wire) \in Nat
  BY DEF TypeOK
<1>4. ASSUME NEW m, m.type = "trade_completed", wire' = Append(wire, m),
             view' = view, lastSent' = lastSent
      PROVE  Shown(wire', view', lastSent')
  <2>1. /\ DOMAIN wire' = 1 .. Len(wire) + 1 /\ DOMAIN wire = 1 .. Len(wire)
        /\ wire'[Len(wire) + 1] = m
        /\ \A i \in 1 .. Len(wire) : wire'[i] = wire[i]
    BY <1>3, <1>4
  <2>2. \A i \in DOMAIN wire' : i \in DOMAIN wire \/ wire'[i].type = "trade_completed"
    BY <1>3, <1>4, <2>1
  <2>3. \A i \in DOMAIN wire : i \in DOMAIN wire' /\ wire'[i] = wire[i]
    BY <1>3, <2>1
  <2> QED BY <1>1, <1>4, <2>2, <2>3
<1>5. ASSUME NEW m, m.type # "trade_completed", wire' = Append(wire, m),
             Rows(SelectionOf(m)) = Rows(CollapseSlots(lastSent'))
      PROVE  Shown(wire', view', lastSent')
  <2>1. /\ DOMAIN wire' = 1 .. Len(wire) + 1
        /\ wire'[Len(wire) + 1] = m
    BY <1>3, <1>5
  <2>2. Len(wire) + 1 \in DOMAIN wire'
    BY <1>3, <2>1
  <2>3. \A i \in DOMAIN wire' : i = Len(wire) + 1 \/ Len(wire) + 1 > i
    BY <1>3, <2>1
  <2> QED BY <1>5, <2>1, <2>2, <2>3
<1>6. CASE Receive
  <2> DEFINE m == wire[1]
  <2>1. /\ wire # <<>> /\ wire' = Tail(wire) /\ Head(wire) = m /\ m \in Message
        /\ lastSent' = lastSent
    BY <1>3, <1>6 DEF Receive
  <2>2. /\ DOMAIN wire' = 1 .. Len(wire) - 1 /\ DOMAIN wire = 1 .. Len(wire)
        /\ \A i \in 1 .. Len(wire) - 1 : wire'[i] = wire[i + 1]
        /\ Len(wire) # 0
    BY <1>3, <2>1
  <2>3. 1 \in DOMAIN wire /\ \A j \in DOMAIN wire : j = 1 \/ (j > 1 /\ j - 1 \in DOMAIN wire')
    BY <1>3, <2>2
  <2>4. \A i \in DOMAIN wire' : i + 1 \in DOMAIN wire /\ wire'[i] = wire[i + 1] /\ i \in Nat
    BY <1>3, <2>2
  <2>5. IF m.type = "trade_completed" THEN view' = view ELSE Rows(view') = Rows(SelectionOf(m))
    <3>1. CASE m.type = "trade_completed"
      BY <1>6, <2>1, <3>1 DEF Receive
    <3>2. CASE m.type = "items_selected"
      BY <1>6, <2>1, <3>2 DEF Receive, ShowSelection, ChangedFrom, SelectionOf
    <3>3. CASE m.type = "selection_cleared"
      BY <1>6, <2>1, <3>3 DEF Receive, ShowSelection, ChangedFrom, SelectionOf
    <3> QED BY <2>1, <3>1, <3>2, <3>3, MessageFields
  <2> HIDE DEF m
  <2>6. ASSUME NEW i \in DOMAIN wire', wire'[i].type # "trade_completed",
               \A j \in DOMAIN wire' : j > i => wire'[j].type = "trade_completed"
        PROVE  Rows(SelectionOf(wire'[i])) = Rows(CollapseSlots(lastSent'))
    <3>1. wire[i + 1].type # "trade_completed"
      BY <2>4, <2>6
    <3>2. ASSUME NEW j \in DOMAIN wire, j > i + 1 PROVE wire[j].type = "trade_completed"
      <4>1. i \in Nat /\ j \in Nat /\ j # 1 /\ j - 1 > i /\ (j - 1) + 1 = j
        BY <1>3, <2>2, <2>4, <3>2
      <4>2. j - 1 \in DOMAIN wire' /\ wire'[j - 1] = wire[j]
        BY <2>3, <2>4, <4>1
      <4> QED BY <2>6, <4>1, <4>2
    <3> QED BY <1>1, <2>1, <2>4, <3>1, <3>2
  <2>7. ASSUME \A i \in DOMAIN wire' : wire'[i].type = "trade_completed"
        PROVE  Rows(view') = Rows(CollapseSlots(lastSent'))
    <3>1. ASSUME NEW j \in DOMAIN wire, j > 1 PROVE wire[j].type = "trade_completed"
      <4>1. j - 1 \in DOMAIN wire' /\ (j - 1) + 1 = j
        BY <1>3, <2>2, <2>3, <3>1
      <4>2. wire'[j - 1] = wire[j]
        BY <2>4, <4>1
      <4> QED BY <2>7, <4>1, <4>2
    <3>2. CASE m.type = "trade_completed"
      <4>1. \A j \in DOMAIN wire : wire[j].type = "trade_completed"
        BY <2>3, <3>1, <3>2 DEF m
      <4> QED BY <1>1, <2>1, <2>5, <3>2, <4>1
    <3>3. CASE m.type # "trade_completed"
      <4>1. Rows(SelectionOf(m)) = Rows(CollapseSlots(lastSent))
        BY <1>1, <2>3, <3>1, <3>3 DEF m
      <4> QED BY <2>1, <2>5, <3>3, <4>1
    <3> QED BY <3>2, <3>3
  <2> QED BY <1>2, <2>6, <2>7
<1>7. CASE Send
  <2> DEFINE items == [i \in DOMAIN chosen |-> chosen[i].item]
             m == IF items = <<>> THEN Cleared ELSE Selected(items)
  <2>1. wire' = Append(wire, m) /\ lastSent' = items
    BY <1>7 DEF Send
  <2> HIDE DEF items
  <2>2. m.type # "trade_completed" /\ Rows(SelectionOf(m)) = Rows(CollapseSlots(items))
    <3>1. CASE items = <<>>
      BY <3>1, NothingCollapses DEF SelectionOf, Cleared
    <3>2. CASE items # <<>>
      BY <3>2 DEF SelectionOf, Selected
    <3> QED BY <3>1, <3>2
  <2> QED BY <1>2, <1>5, <2>1, <2>2
<1>8. CASE ClearSelection
  <2>1. wire' = Append(wire, Cleared) /\ lastSent' = <<>>
    BY <1>8 DEF ClearSelection
  <2>2. /\ Cleared.type # "trade_completed"
        /\ Rows(SelectionOf(Cleared)) = Rows(CollapseSlots(<<>>))
    BY NothingCollapses DEF SelectionOf, Cleared
  <2> QED BY <1>2, <1>5, <2>1, <2>2
<1>9. ASSUME UNCHANGED <<wire, view, lastSent>> PROVE Underway' /\ ListsLastSent'
  BY <1>1, <1>2, <1>9
<1>10. ASSUME Flush, view' = view, lastSent' = lastSent PROVE Underway' /\ ListsLastSent'
  <2>1. CASE wire' = wire
    BY <1>9, <1>10, <2>1
  <2>2. CASE wire' = Append(wire, Trade(counterparty, block))
    <3>1. Trade(counterparty, block).type = "trade_completed"
      BY DEF Trade
    <3> QED BY <1>2, <1>4, <1>10, <2>2, <3>1
  <2> QED BY <1>10, <2>1, <2>2 DEF Flush
<1>11. ASSUME NEW t \in Trades, Announce(t) PROVE Underway' /\ ListsLastSent'
  BY <1>10, <1>11 DEF Announce, app
<1>12. CASE Tick
  <2>1. CASE countdown - 1 <= 0
    BY <1>10, <1>12, <2>1 DEF Tick, app
  <2>2. CASE ~ countdown - 1 <= 0
    BY <1>9, <1>12, <2>2 DEF Tick, app
  <2> QED BY <2>1, <2>2
<1>13. [\/ \E s \in Screens : Open(s)
        \/ ToggleArmed \/ EntryLine
        \/ \E slot \in Slots : Click(slot)]_vars => UNCHANGED <<wire, view, lastSent>>
  BY DEF Open, ToggleArmed, EntryLine, Click, vars, app
<1> QED
  BY <1>6, <1>7, <1>8, <1>9, <1>11, <1>12, <1>13 DEF Next

-----------------------------------------------------------------------------
(***************************************************************************)
(* The theorems.                                                           *)
(***************************************************************************)
\* It holds at the start.
LEMMA FeedInvStarts == Init => FeedInv
<1> SUFFICES ASSUME Init PROVE FeedInv
  OBVIOUS
<1>1. /\ wire = <<>> /\ settled = <<>> /\ announced = <<>> /\ view = <<>> /\ lastSent = <<>>
      /\ counterparty = None /\ block = <<>> /\ chat = <<>> /\ chosen = <<>>
      /\ countdown = -1 /\ screen = None /\ armed = FALSE /\ late = FALSE
  BY DEF Init
<1>2. TypeOK
  <2>1. \A S : <<>> \in Seq(S) /\ Len(<<>>) = 0 /\ DOMAIN <<>> = {}
    OBVIOUS
  <2>2. -1 \in -1 .. FlushTicks /\ 0 <= MaxItems
    BY TradeFeedAssumption
  <2> QED BY <1>1, <2>1, <2>2 DEF TypeOK
<1>3. Underway /\ ListsLastSent
  BY <1>1, NothingCollapses DEF Underway, ListsLastSent
<1>4. Reading /\ Matched
  BY <1>1 DEF Reading, Matched
<1>5. Traced(<<>>, <<>>)
  <2>1. Mine = {} /\ DOMAIN settled = {} /\ DOMAIN announced = {}
    BY <1>1 DEF Mine
  <2>2. \A S : <<>> \in [{} -> S] /\ DOMAIN <<>> = {}
    OBVIOUS
  <2> QED BY <2>1, <2>2 DEF Traced, Increasing
<1> QED
  BY <1>2, <1>3, <1>4, <1>5 DEF FeedInv

\* And after every step.
LEMMA FeedInvKept == FeedInv /\ [Next]_vars => FeedInv'
<1> SUFFICES ASSUME FeedInv, [Next]_vars PROVE FeedInv'
  OBVIOUS
<1>1. PICK f, g : Traced(f, g)
  BY DEF FeedInv
<1>2. TypeOK /\ Underway /\ ListsLastSent /\ Reading /\ Matched
  BY DEF FeedInv
<1>3. \E e, h : Traced(e, h)'
  BY <1>1, <1>2, TracedKept
<1>4. TypeOK' /\ Reading' /\ Matched'
  BY <1>2, TypeKept, ReadingKept, MatchedKept
<1>5. Underway' /\ ListsLastSent'
  BY <1>2, UnderwayKept
<1> QED
  BY <1>3, <1>4, <1>5 DEF FeedInv

\* The inductive invariant.
THEOREM FeedInvHolds == Spec => []FeedInv
<1>1. Init => FeedInv
  BY FeedInvStarts
<1>2. FeedInv /\ [Next]_vars => FeedInv'
  BY FeedInvKept
<1> QED
  BY <1>1, <1>2, PTL DEF Spec

\* Trades matched with those announced are reports of them.
LEMMA TracedAnnounced ==
    ASSUME TypeOK, NEW f, NEW g, Traced(f, g)
    PROVE  ReportsAreAnnounced
<1>1. f \in [DOMAIN settled -> DOMAIN announced] /\ Increasing(f)
  BY DEF Traced
<1>2. \A i \in DOMAIN settled : /\ settled[i].who = announced[f[i]].who
                                /\ IsPrefix(settled[i].lines, announced[f[i]].lines)
  BY DEF Traced, Tells
<1> QED
  BY <1>1, <1>2 DEF ReportsAreAnnounced

\* Once everything has arrived, the matching leaves none out.
LEMMA TracedLosesNone ==
    ASSUME TypeOK, NEW f, NEW g, Traced(f, g)
    PROVE  NoTradeLost
<1> SUFFICES ASSUME ~ late, chat = <<>>, counterparty = None, wire = <<>>
             PROVE  LET moving == {i \in DOMAIN announced : HadContent(announced[i].lines)}
                    IN \E h \in [DOMAIN settled -> moving] :
                          /\ Increasing(h)
                          /\ \A k \in moving : \E i \in DOMAIN settled : h[i] = k
                          /\ \A i \in DOMAIN settled : settled[i].lines = announced[h[i]].lines
  BY DEF NoTradeLost
<1> DEFINE moving == {i \in DOMAIN announced : HadContent(announced[i].lines)}
<1>1. Mine = {}
  BY DEF Mine
<1>2. \A k : Closed(k)
  BY DEF Closed
<1>3. ASSUME NEW i \in DOMAIN settled
      PROVE  settled[i].lines = announced[f[i]].lines /\ f[i] \in moving
  BY <1>2 DEF Traced, Tells
<1>4. f \in [DOMAIN settled -> moving] /\ Increasing(f)
  BY <1>3 DEF Traced
<1>5. \A k \in moving : \E i \in DOMAIN settled : f[i] = k
  BY <1>1, <1>2 DEF Traced, Moving
<1> QED
  BY <1>3, <1>4, <1>5

\* Once it has arrived, the application lists what was picked when it was sent last.
THEOREM ListsLastSentHolds == Spec => []ListsLastSent
<1>1. FeedInv => ListsLastSent
  BY DEF FeedInv
<1> QED
  BY <1>1, FeedInvHolds, PTL

\* What the application is told is what the server announced, in that order.
THEOREM ReportsAreAnnouncedHolds == Spec => []ReportsAreAnnounced
<1>1. FeedInv => ReportsAreAnnounced
  BY TracedAnnounced DEF FeedInv
<1> QED
  BY <1>1, FeedInvHolds, PTL

\* If no line was late, all of it is.
THEOREM NoTradeLostHolds == Spec => []NoTradeLost
<1>1. FeedInv => NoTradeLost
  BY TracedLosesNone DEF FeedInv
<1> QED
  BY <1>1, FeedInvHolds, PTL

\* A price is filled in only where the name leaves no doubt.
THEOREM MatchIsCertainHolds == Spec => []MatchIsCertain
<1>1. FeedInv => MatchIsCertain
  <2> SUFFICES ASSUME FeedInv, NEW i \in DOMAIN settled, settled[i].match # None
               PROVE  LET name  == ItemsIn(settled[i].lines)[1].what
                          names == [r \in DOMAIN settled[i].rows |-> NameOf[settled[i].rows[r]]]
                      IN \A r \in DOMAIN names \ {settled[i].match} :
                             /\ names[r] # name
                             /\ <<name, names[r]>> \in Within => names[settled[i].match] = name
    BY DEF MatchIsCertain
  <2> DEFINE s == settled[i]
             name == ItemsIn(s.lines)[1].what
  <2>1. /\ s.match \in DOMAIN s.rows
        /\ \A r \in DOMAIN s.rows \ {s.match} :
              /\ NameOf[s.rows[r]] # name
              /\ <<name, NameOf[s.rows[r]]>> \in Within => NameOf[s.rows[s.match]] = name
    BY DEF FeedInv, Matched
  <2> HIDE DEF s, name
  <2>2. /\ s.match \in DOMAIN [r \in DOMAIN s.rows |-> NameOf[s.rows[r]]]
        /\ \A r \in DOMAIN [q \in DOMAIN s.rows |-> NameOf[s.rows[q]]] \ {s.match} :
              /\ [q \in DOMAIN s.rows |-> NameOf[s.rows[q]]][r] # name
              /\ <<name, [q \in DOMAIN s.rows |-> NameOf[s.rows[q]]][r]>> \in Within
                    => [q \in DOMAIN s.rows |-> NameOf[s.rows[q]]][s.match] = name
    BY <2>1
  <2> QED BY <2>2 DEF s, name
<1> QED
  BY <1>1, FeedInvHolds, PTL

=============================================================================
