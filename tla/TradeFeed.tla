------------------------------ MODULE TradeFeed -----------------------------
(***************************************************************************)
(* What the mod tells the application, and what that makes of it: the      *)
(* items the player picks out of container screens (mod/.../select) and    *)
(* the trades the server announces in chat (mod/.../chat), as messages     *)
(* (capture/Messages.kt, app/lowball/uplink/protocol.py), and the view of  *)
(* them the application keeps (app/lowball/uplink/trade.py).               *)
(*                                                                         *)
(* The link between them delivers here, in order: module Uplink shows when *)
(* it does. The mod's part runs on the game thread, a handler at a time.   *)
(***************************************************************************)
EXTENDS Integers, Sequences, FiniteSets, SequencesExt

CONSTANTS
    None,       \* no screen, no item, no name
    Screens,    \* container screens the player may open
    ScreenId,   \* the name each goes by: its container id and title
    Slots,      \* slots of a screen
    Content,    \* the item in a slot of a screen, or None
    Encodes,    \* items the mod can encode
    Signature,  \* what the application reads an item as, or None
    NameOf,     \* the display name of a signature
    Within,     \* pairs of names of which the first is part of the second
    MaxItems,   \* Selection.MAX_ITEMS
    Trades,     \* what the server may announce: [who, lines]
    FlushTicks, \* TradeChatWatcher.FLUSH_TICKS
    MaxPicks,   \* bound on the clicks that pick
    MaxSends,   \* bound on the messages about the selection
    MaxTrades   \* bound on the trades announced

\* What the lines of the trades say.
Lines == UNION {{t.lines[i] : i \in DOMAIN t.lines} : t \in Trades}

ASSUME TradeFeedAssumption ==
    /\ {MaxItems, FlushTicks, MaxPicks, MaxSends, MaxTrades} \subseteq Nat
    /\ \A t \in Trades : t.who # None /\ t.lines \in Seq(Lines)

VARIABLES
    screen,       \* the screen that is open, or None
    armed,        \* clicks pick items
    chosen,       \* Selection.chosen, in the order picked
    counterparty, \* of the trade block being read, or None
    block,        \* its lines so far: received, given and the coins in one
    countdown,    \* ticks until it is closed, -1 with none
    wire,         \* messages on their way
    view,         \* SelectionView: signatures with their duplicates
    settled,      \* the trades the application was told of, with the item each settles
    chat,         \* lines the server has still to print
    picks,        \* clicks that picked so far
    sends,        \* messages about the selection so far
    lastSent,     \* history: the items of the last selection sent
    announced,    \* history: the trades the server announced
    late          \* history: a line came after its block had been closed

picking == <<screen, armed, chosen, picks>>
reading == <<counterparty, block, countdown, chat, announced, late>>
app     == <<view, settled>>
vars    == <<picking, reading, app, wire, sends, lastSent>>

\* A line of a trade: what moved, which way, and how many or how much of it.
Coins == "coins"
ItemsIn(lines) == SelectSeq(lines, LAMBDA l : l.what # Coins /\ l.sign = "+")
CoinsDelta(lines) ==
    FoldLeft(LAMBDA sum, l : IF l.what # Coins THEN sum
                             ELSE IF l.sign = "+" THEN sum + l.count ELSE sum - l.count,
             0, lines)

Init ==
    /\ screen = None /\ armed = FALSE /\ chosen = <<>> /\ picks = 0 /\ sends = 0
    /\ counterparty = None /\ block = <<>> /\ countdown = -1 /\ chat = <<>>
    /\ wire = <<>> /\ view = <<>> /\ settled = <<>>
    /\ lastSent = <<>> /\ announced = <<>> /\ late = FALSE

-----------------------------------------------------------------------------
(***************************************************************************)
(* Picking (SelectionScreenHook, Selection).                               *)
(***************************************************************************)
\* Another screen takes the place of the one that is open.
Open(s) ==
    /\ screen # s /\ screen' = s
    /\ UNCHANGED <<armed, chosen, picks, reading, app, wire, sends, lastSent>>

ToggleArmed ==
    /\ screen # None
    /\ armed' = ~ armed
    /\ UNCHANGED <<screen, chosen, picks, reading, app, wire, sends, lastSent>>

Key(slot) == <<ScreenId[screen], slot>>

\* toggle(): an item whose key is there already goes, whatever the item; one that does
\* not encode or does not fit is refused.
Toggle(slot) ==
    LET item == Content[screen][slot]
        same == {i \in DOMAIN chosen : chosen[i].key = Key(slot)}
    IN IF same # {}
       THEN chosen' = RemoveAt(chosen, CHOOSE i \in same : TRUE)
       ELSE IF item \in Encodes /\ Len(chosen) < MaxItems
       THEN chosen' = Append(chosen, [key |-> Key(slot), item |-> item])
       ELSE UNCHANGED chosen

\* onSlotClick(), while armed: an empty slot swallows the click.
Click(slot) ==
    /\ screen # None /\ armed /\ picks < MaxPicks
    /\ picks' = picks + 1
    /\ IF Content[screen][slot] = None THEN UNCHANGED chosen ELSE Toggle(slot)
    /\ UNCHANGED <<screen, armed, reading, app, wire, sends, lastSent>>

Selected(items) == [type |-> "items_selected", items |-> items]
Cleared         == [type |-> "selection_cleared"]

\* sendSelection(): what is picked stays picked.
Send ==
    /\ screen # None /\ sends < MaxSends
    /\ sends' = sends + 1
    /\ LET items == [i \in DOMAIN chosen |-> chosen[i].item]
       IN /\ wire' = Append(wire, IF items = <<>> THEN Cleared ELSE Selected(items))
          /\ lastSent' = items
    /\ UNCHANGED <<picking, reading, app>>

ClearSelection ==
    /\ screen # None /\ sends < MaxSends
    /\ sends' = sends + 1
    /\ chosen' = <<>> /\ lastSent' = <<>>
    /\ wire' = Append(wire, Cleared)
    /\ UNCHANGED <<screen, armed, picks, reading, app>>

-----------------------------------------------------------------------------
(***************************************************************************)
(* Reading the chat (TradeChatWatcher).                                    *)
(***************************************************************************)
Trade(who, lines) == [type |-> "trade_completed", who |-> who, lines |-> lines]
HadContent(lines) == (\E i \in DOMAIN lines : lines[i].what # Coins) \/ CoinsDelta(lines) # 0

\* Mutant of Flush: the lines stay for the next trade.
FlushAccumulating ==
    /\ wire' = IF counterparty # None /\ HadContent(block)
               THEN Append(wire, Trade(counterparty, block)) ELSE wire
    /\ UNCHANGED block

\* flush(): reports the block if there is anything in it.
Flush ==
    /\ wire' = IF counterparty # None /\ HadContent(block)
               THEN Append(wire, Trade(counterparty, block)) ELSE wire
    /\ block' = IF counterparty # None THEN <<>> ELSE block

\* Mutant of Announce: a trade that is being read gives way to the next one.
AnnounceOver(t) ==
    /\ chat = <<>> /\ Len(announced) < MaxTrades
    /\ chat' = t.lines
    /\ announced' = Append(announced, t)
    /\ block' = <<>>
    /\ counterparty' = t.who /\ countdown' = FlushTicks
    /\ UNCHANGED <<wire, late, picking, app, sends, lastSent>>

\* The server announces a trade: a header and its lines, in as many messages.
Announce(t) ==
    /\ chat = <<>> /\ Len(announced) < MaxTrades
    /\ chat' = t.lines
    /\ announced' = Append(announced, t)
    /\ Flush
    /\ counterparty' = t.who /\ countdown' = FlushTicks
    /\ UNCHANGED <<late, picking, app, sends, lastSent>>

\* The next line of it. With no block open it is not for this reader.
EntryLine ==
    /\ chat # <<>> /\ chat' = Tail(chat)
    /\ IF counterparty = None
       THEN late' = TRUE /\ UNCHANGED <<block, countdown>>
       ELSE block' = Append(block, Head(chat)) /\ countdown' = FlushTicks /\ UNCHANGED late
    /\ UNCHANGED <<counterparty, announced, picking, app, wire, sends, lastSent>>

\* Mutant of Tick: off by one, nothing happens at zero.
TickAboveZero ==
    /\ countdown > 0
    /\ IF countdown - 1 < 0
       THEN Flush /\ counterparty' = None /\ countdown' = -1
       ELSE countdown' = countdown - 1 /\ UNCHANGED <<wire, block, counterparty>>
    /\ UNCHANGED <<chat, announced, late, picking, app, sends, lastSent>>

\* tick(): a block that has stopped growing is closed.
Tick ==
    /\ countdown >= 0
    /\ IF countdown - 1 <= 0
       THEN Flush /\ counterparty' = None /\ countdown' = -1
       ELSE countdown' = countdown - 1 /\ UNCHANGED <<wire, block, counterparty>>
    /\ UNCHANGED <<chat, announced, late, picking, app, sends, lastSent>>

-----------------------------------------------------------------------------
(***************************************************************************)
(* The application's view (uplink/trade.py, AppController).                *)
(***************************************************************************)
\* One more item that was read: another duplicate of its row, or a row of its own. What
\* could not be read has none.
WithItem(v, sig) ==
    LET same == {r \in DOMAIN v : v[r].sig = sig}
    IN IF sig = None THEN v
       ELSE IF same = {} THEN Append(v, [sig |-> sig, duplicates |-> 1])
       ELSE [r \in DOMAIN v |->
               IF r \in same THEN [v[r] EXCEPT !.duplicates = @ + 1] ELSE v[r]]

CollapsedUpTo(items) ==
    LET upTo[n \in 0 .. Len(items)] ==
          IF n = 0 THEN <<>> ELSE WithItem(upTo[n - 1], Signature[items[n]])
    IN upTo

\* _collapse(): identical items share a row.
CollapseSlots(items) == CollapsedUpTo(items)[Len(items)]

Rows(v) == [i \in DOMAIN v |-> v[i].sig]

\* changed_from(): the duplicates are not compared.
ChangedFrom(v, other) == Rows(v) # Rows(other)

\* Mutant of IndexOfName: the first that fits.
FirstOfName(v, name) ==
    LET loose == {i \in DOMAIN v : <<name, NameOf[v[i].sig]>> \in Within}
    IN IF loose = {} THEN None ELSE CHOOSE i \in loose : \A j \in loose : i <= j

\* index_of_name(): an exact match, or else one where a name is part of the other; no
\* match if there are several.
IndexOfName(v, name) ==
    LET exact == {i \in DOMAIN v : NameOf[v[i].sig] = name}
        loose == {i \in DOMAIN v : \/ <<name, NameOf[v[i].sig]>> \in Within
                                   \/ <<NameOf[v[i].sig], name>> \in Within}
        found == IF exact # {} THEN exact ELSE loose
    IN IF Cardinality(found) = 1 THEN CHOOSE i \in found : TRUE ELSE None

\* is_unambiguous: one item in, coins out.
Unambiguous(lines) ==
    /\ Len(ItemsIn(lines)) = 1 /\ ItemsIn(lines)[1].count = 1
    /\ CoinsDelta(lines) < 0

\* match_in(): the item on screen the trade settles, when that is certain.
MatchIn(lines, v) ==
    IF Unambiguous(lines) THEN IndexOfName(v, ItemsIn(lines)[1].what) ELSE None

\* Mutant of ShowSelection: an empty selection shows nothing new.
ShowUnlessEmpty(v) ==
    /\ view' = IF v # <<>> THEN v ELSE view
    /\ UNCHANGED settled

\* _on_selection(): a message that changes nothing is dropped.
ShowSelection(v) ==
    /\ view' = IF ChangedFrom(v, view) THEN v ELSE view
    /\ UNCHANGED settled

\* _on_uplink_message().
Receive ==
    /\ wire # <<>> /\ wire' = Tail(wire)
    /\ LET m == Head(wire)
       IN CASE m.type = "items_selected"    -> ShowSelection(CollapseSlots(m.items))
            [] m.type = "selection_cleared" -> ShowSelection(<<>>)
            [] m.type = "trade_completed"   ->
                /\ settled' = Append(settled,
                       [who |-> m.who, lines |-> m.lines, rows |-> Rows(view),
                        match |-> MatchIn(m.lines, view)])
                /\ UNCHANGED view
    /\ UNCHANGED <<picking, reading, sends, lastSent>>

Next ==
    \/ \E s \in Screens : Open(s)
    \/ ToggleArmed \/ Send \/ ClearSelection \/ Receive
    \/ \E slot \in Slots : Click(slot)
    \/ \E t \in Trades : Announce(t)
    \/ EntryLine \/ Tick

\* The client ticks, and what is sent arrives.
Spec == Init /\ [][Next]_vars /\ WF_vars(Tick) /\ WF_vars(Receive)

-----------------------------------------------------------------------------
(***************************************************************************)
(* Properties.                                                             *)
(***************************************************************************)
Picked     == [key : {<<ScreenId[s], slot>> : s \in Screens, slot \in Slots}, item : Encodes]
Whos       == {t.who : t \in Trades}
Signatures == {Signature[item] : item \in Encodes}
Row        == [sig : Signatures, duplicates : Nat]
Message    == [type : {"selection_cleared"}]
              \cup [type : {"items_selected"}, items : Seq(Encodes)]
              \cup [type : {"trade_completed"}, who : Whos, lines : Seq(Lines)]
Settlement == [who : Whos, lines : Seq(Lines), rows : Seq(Signatures), match : Nat \cup {None}]

TypeOK ==
    /\ screen \in Screens \cup {None} /\ armed \in BOOLEAN
    /\ chosen \in Seq(Picked) /\ Len(chosen) <= MaxItems
    /\ \A i, j \in DOMAIN chosen : chosen[i].key = chosen[j].key => i = j
    /\ lastSent \in Seq(Encodes) /\ wire \in Seq(Message)
    /\ view \in Seq(Row) /\ settled \in Seq(Settlement)
    /\ announced \in Seq(Trades) /\ chat \in Seq(Lines) /\ block \in Seq(Lines)
    /\ counterparty \in Whos \cup {None} /\ countdown \in -1 .. FlushTicks
    /\ (countdown = -1) = (counterparty = None)
    /\ late \in BOOLEAN

\* Once it has arrived, the application lists the signatures of the selection that was
\* sent last, in the order they were picked.
ListsLastSent ==
    (\A i \in DOMAIN wire : wire[i].type = "trade_completed")
        => Rows(view) = Rows(CollapseSlots(lastSent))

Increasing(f) == \A i, j \in DOMAIN f : i < j => f[i] < f[j]

\* A trade is reported as the server announced it, except for lines that came late:
\* never with a line of another one, twice, or before one that came first.
ReportsAreAnnounced ==
    \E f \in [DOMAIN settled -> DOMAIN announced] :
        /\ Increasing(f)
        /\ \A i \in DOMAIN settled :
            /\ settled[i].who = announced[f[i]].who
            /\ IsPrefix(settled[i].lines, announced[f[i]].lines)

\* When no line was late every announced trade that moved anything is reported whole,
\* and nothing else is, once the wire is empty.
NoTradeLost ==
    ~ late /\ chat = <<>> /\ counterparty = None /\ wire = <<>>
        => LET moving == {i \in DOMAIN announced : HadContent(announced[i].lines)}
           IN \E f \in [DOMAIN settled -> moving] :
                 /\ Increasing(f)
                 /\ \A k \in moving : \E i \in DOMAIN settled : f[i] = k
                 /\ \A i \in DOMAIN settled : settled[i].lines = announced[f[i]].lines

\* "Returns None when several items moved or the name matches more than one thing on
\* screen, because a pre-filled wrong price is worse than an empty box" (match_in): an
\* item that is settled is alone in bearing the name, or alone in containing it.
MatchIsCertain ==
    \A i \in DOMAIN settled : settled[i].match # None =>
        LET name  == ItemsIn(settled[i].lines)[1].what
            names == [r \in DOMAIN settled[i].rows |-> NameOf[settled[i].rows[r]]]
        IN \A r \in DOMAIN names \ {settled[i].match} :
               /\ names[r] # name
               /\ <<name, names[r]>> \in Within => names[settled[i].match] = name

\* A block is closed although no line says that it is complete.
BlocksClose == counterparty # None ~> counterparty = None

=============================================================================
