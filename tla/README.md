# A TLA+ model of the Skyblock Lowballing Assistant

The assistant is a desktop application (Python, `src/app/lowball`) and a Minecraft mod
(Kotlin, `src/mod`). The mod reports the items a player has picked and the trades that
settled; the application prices the items, proposes a ladder of offers, and records every
offer, answer, purchase and sale in an event-sourced ledger that its acceptance model and
its statistics are computed from. This directory holds TLA+ modules that model the
application and the mod, the TLC configurations that check them, and proofs for TLAPS.

To check a run: `tlc -config MCLedgerItems.cfg MCLedger`. To check the proofs:
`tlapm LedgerProofs.tla`, and so on for each module named `...Proofs` and for
`LogInduction`. `PROJECT.json` lists the components, the runs with their properties, the
lines each definition models, and the hazards of the code with the properties that cover
them.

## The system

| Component | State | Operations | Talks to |
|---|---|---|---|
| Event log (`ledger/events.py`) | the `events` table, append-only but for one DELETE | append, correct, effective | SQLite |
| Projections (`ledger/projections.py`) | derived tables, watermark, version | one handler per event type, rebuild, catch up | event log |
| Ledger facade (`ledger/store.py`) | the connection | sessions, offers, items, corrections, clear, rebuild, open | both above |
| Sessions (`session/machine.py`) | one object per item on the table | offer, reject, counter, confirm, abandon | ledger |
| Controller (`controller.py`) | selection, its generation, priced items, session store, rules, prices | selection and trade handlers (asyncio thread), user actions (GUI thread) | everything |
| Window, valuation view, ladder (`ui/`) | rows, figures, totals, rungs, the open rung, a dialog | clicks, signals, close, clear | controller |
| Config tab (`ui/views/config.py`, `ui/dialogs/rule_editor.py`, `rules/loader.py`, `config.py`, `api/bazaar.py`) | rules, prices and settings on screen and in files | edit, save, reload, restore, fetch | controller, files, bazaar |
| Rate limiter and API client (`api/`) | hits per window, penalty, lock, cache | acquire, note_retry_after, get | HTTP, SQLite |
| Uplink server (`uplink/server.py`) | connection status, the selection shown | connect, message, disconnect | mod, controller |
| Uplink client (mod `net/`) | socket, queue, tasks | send, drain, connect, heartbeat, stop | server |
| Selection and chat watcher (mod `select/`, `chat/`) | picked slots, the open trade block | pick, send, clear, chat line, tick | uplink client |
| Trade view (`uplink/trade.py`) | the rows of a selection | collapse, compare, match a trade | controller |
| Ledger and statistics tabs, outcome dialog (`ui/views/ledger.py`, `statistics.py`, `ui/dialogs/outcome.py`) | the table as last filled, hidden rows, figures, a form | turn, filter, click a band, record an outcome | ledger |
| Seller names (`api/players.py`, `ui/widgets/links.py`) | remembered names, lookups in flight, the clipboard | click, prefetch, look up, copy | API client |
| Pricing and rules (`pricing/`, `rules/engine.py`, `tax.py`) | a search in progress, an estimate, a ladder | search, price, blend, evaluate rules, ladder, recommend | API client |
| Parsing, charts, painting | none | pure functions and queries | |

What is hard in it:

* **Windows between transactions.** Recording an event is one transaction. Correcting,
  clearing, making an offer over another and confirming a sale are two or three, and the
  process may stop, or the second may raise, between them.
* **State in two places.** The sessions in memory, the log and the derived tables must say
  the same of what is on the table; the log survives a restart and the sessions do not. The
  rules, prices and settings are each in a file, on screen and in force.
* **Replay.** What the user sees is computed by incremental application, by a full replay
  or by catching up, with corrections that rewrite any earlier event. All must agree.
* **Two threads.** The selection changes on the asyncio thread while the GUI thread acts
  on the previous one, and what comes back late belongs to a selection that is gone.
* **A lossy feed.** The mod's socket comes and goes, frames are dropped by design, drains
  run on two threads, and two connections may overlap. Chat says when a trade begins and
  never when it ends.
* **A shared rate limit**, with penalties that arrive while others wait.
* **A search of several awaits** during which prices and rules may be replaced.

What makes each component correct, in a line: the *ledger*'s tables are the replay of its
log, one exit per item, exits consistent with the items; the *sessions* agree with the
ledger on what is on the table and give each offer exactly one final outcome; the *desk*
never attaches an answer or a price to another item than the one it was given for; the
*rate limiter* never exceeds a window at any instant; the *uplink* ends up with the last
selection sent, and reconnects; the *trade feed* reports what was announced and settles
nothing that is not certain; the *Config tab* puts in force what was saved, whole; the
*appraisal* keeps the best evidence, widens its questions, and pays no more than its rules
and its costs allow; the *tabs* show the ledger as it is; every *click on a figure* ends on
the clipboard.

## Modules

| Module | Models |
|---|---|
| `EventLog` | `events.py`: events, corrections and their collapse, the effective log |
| `Projections` | `projections.py`, `projections.sql`: the tables, each handler, replay and catch-up |
| `Ledger` | `store.py`, `db.py`: one action per committed transaction, opening and stopping |
| `Negotiation` | `machine.py` and the handlers of `controller.py` and `main_window.py` that drive it, on top of `Ledger` |
| `Uplink` | `UplinkClient.kt` and `server.py`: threads, connections, tasks, handlers |
| `TradeFeed` | `Selection*.kt`, `TradeChatWatcher.kt`, `trade.py`: picks and chat lines, to rows and settled trades |
| `Quota` | abstract specification: what the API's windows allow |
| `RateLimiter` | `ratelimit.py`, which implements `Quota` |
| `Coflnet` | `coflnet.py`, `cache.py`, on top of `RateLimiter` |
| `Desk` | the two threads of `controller.py`, `main_window.py`, `views/valuation.py`, `widgets/ladder.py`, `dialogs/breakdown.py` |
| `RuleBook`, `PriceBook`, `SettingsForm` | one editor each, with its file and its reader |
| `Config` | the three editors in one process that is restarted |
| `Modifiers` | `modifiers.py`, `matching.py`, `values.py`: worth, query, match of a modifier |
| `RuleEngine` | `engine.py`, `model.py`: conditions, normalisation, actions |
| `Pricing` | `tax.py`, `blending.py`, `valuation.py`, `offer.py`: from comparables to a ladder |
| `Appraisal` | `relaxation.py` and the controller's pricing of one item, on top of the three above |
| `Books` | `views/ledger.py`, `views/statistics.py`, `dialogs/outcome.py`: the tabs that show the ledger and the form of an outcome |
| `Sellers` | `links.py`, `players.py`, the lookups of `controller.py`: from a price to a command on the clipboard |
| `MCLedger`, `MCNegotiation`, `MCTradeFeed`, `MCCoflnet`, `MCConfig`, `MCAppraisal`, `MCBooks`, `MCSellers` | small instances for TLC |
| `LogInduction` | induction over positions of a log, written for the proofs |
| `LedgerProofs` | what handlers and replays return and preserve, and the theorems about the ledger and the sessions on top of it |
| `CoflnetProofs` | the theorems about the rate limiter and the API client on top of it |
| `UplinkProofs`, `TradeFeedProofs` | the theorems about the connection, and about what travels over it |
| `ScreenProofs` | the theorems about the valuation screen and about the three editors |
| `AppraisalProofs` | the theorems about the search, the ladder and the rules |
| `WindowProofs` | the theorems about the clipboard, the tabs and the outcome dialog |

`ScreenProofs` extends `Desk` and `Config`, `WindowProofs` extends `Sellers` and `Books`. Two
specifications in one proof module share no name: those of `Config` and `Books` are
prefixed, and what is no amount and no dialog in `Books` is `Nothing`.

### Event log and projections

The log is a sequence, and the id of an event is its position: `events.id` is an INTEGER
PRIMARY KEY without AUTOINCREMENT and rows are only ever deleted all at once, so ids are
1, 2, ... and start again after a clear. A payload is a record of the keys that decide
something: the session, the offer, the item, one coin figure (`amount`, which is
`counter_price`, `cost_basis`, `price` or `market_value` by event type), one estimate, and
the two flags of a sale's tax. Names, signatures, notes, rarities, timestamps and
percentages are left out; so is `rule_firings`, which only copies them.

A table whose key callers choose is a function from key to row or `None`. `exits` and
`valuations` are sets of rows with the id of the event that wrote them. Each handler is an
operator from tables to tables; `Apply` is the handler table. `Replay` folds `Apply` over
the effective log from empty tables, as a recursive function, so that it can be proved
about. `ExitIdTaken` is the one way in which a handler fails: the plain INSERT into `exits`
when `exit-<id>` exists for another item.

A patch may change coin figures only. Ids are generated, shown nowhere as editable and
retyped by nobody; a patch that rewires them would break more than the properties here.

### Ledger

An action is one committed transaction, which WAL makes atomic; a transaction that raises
is rolled back and is no step at all. `phase` says where the facade is: `down`, `idle`, or
between the two transactions of `correct()` (`"correcting"`) or of `clear_history()`
(`"clearing"`). `Stop` may happen in any phase in which the instance allows faults
(`FaultWindows`), and `RebuildFails` is the second transaction that raises. With
`synchronous=NORMAL` a power failure may also lose the last transactions; that returns the
file to an earlier committed state, as `Stop` at that earlier point does.

`lapses` is a history variable: the windows that a fault has struck since the last
completed rebuild. No action reads it. It lets `Agreement` say precisely when the code keeps
its promise, and `ledger_fault_correcting` shows that the exception is needed.

`LegacyLogs` are the logs an older build may have left: they hold the retired sale types,
and their tables have the old version, so opening must rebuild.

Ids of new rows are fresh (`new_id()` is a UUID). Other arguments are whatever the caller
holds: for sales, items the user can see; for offers, whatever a session in memory says,
also after its rows are gone. `correct()` and `counter()` have no caller in the user
interface today; they are modelled because they are the facade's promise.

### Negotiation

`store` maps each key (a selection and an index in it) to a session object or `None`.
`task` is the handler that the GUI thread is in the middle of, between two transactions. The
code of each handler is one transaction per action:

* `make_offer`: `OpenSession` (if the key has no open session) or `TurnDown` (if an offer
  is on the table), then `MakeOffer`.
* `confirm_sale`: `Confirm`, then `RecordItsValuation`.
* `closeEvent`: one `Abandon` per session that made an offer, then `Close`.
* `clear_history`: `Tidy` (the log), then `FinishClearing` (the rebuild and the store).

`Raise` leaves a handler where it is, `Kill` stops the process anywhere. Any key may be
acted on at any time, which includes keys of earlier selections; the code reaches fewer.

### Uplink

The client's three kinds of thread are explicit. The scheduler, one thread, runs the tasks
it was handed (`drainsDue`, `delayed`, the heartbeat); the completion of a connect runs on a
thread of its own, clears `connecting` first (`Established`) and sets the socket later
(`Adopt`), and then drains as the scheduler does; a drain takes a frame off the queue
(`Poll`) before it sends it (`SendText`, `SendFails`). The server has one handler per
connection. A frame is the number of the selection it carries, or `Other`: `trade_completed`,
`hello` and heartbeat frames go through the same queue (`SendOther`, `Heartbeat`), which drops
its oldest frame of whatever kind when it is full (`Enqueue`), and change nothing that the
server shows of the selection. `MaxFrames` bounds the frames of both kinds together; a heartbeat
beyond it is left out. A send that fails
at once ends its drain, one that fails later does not (`SendFails`).

`astray` is a history variable that names what may have cost or reordered a frame: a
connection that took frames with it (`"dropped"`), two threads or connections that carried
frames at once (`"overlap"`), a restart (`"restart"`), and the last selection pushed out of a
full queue by a frame of another kind (`"evicted"`). No action reads it.

Connections are reused once both sides have let go; the client abandons some without closing
them (`handleDisconnect` only forgets the socket), so an instance can run out, which
`OutOfConns` excuses in the liveness properties.

### TradeFeed

The mod's part runs on the game thread, one handler at a time; the wire delivers in order
(the previous section says when it does). A screen's name is its container id and title, as
in the code, so two screens may share one. `block` and `countdown` are the chat watcher's
open trade; `late` is a history variable, set when a line finds its block closed. `view` is
`SelectionView`, its rows collapsed by signature. `Within` says which names contain which,
so that no string is taken apart.

### RateLimiter, Quota and Coflnet

Time is a number that moves only while somebody waits for it. `queue` is the limiter's
asyncio lock, first come first served; its head sleeps until `wakeAt` with the lock held, as
in the code. `Quota` says only when a request may go out: its `Limit`-th predecessor has
left the window, for every window. `KeepsQuota` is the refinement, with `sent`, a history
variable, as the abstract state.

A caller of `Coflnet` is a coroutine; an action is what it does from one await to the next.
A question is a sequence of cache keys, for an analysis walks down from the window it wants
to one it can read. Failures are told apart as the code tells them apart: retried after a
back-off, retried after a penalty, or final.

### Desk

`net` is what the asyncio thread is in the middle of, cut where it has written one of two
fields that belong together: `Pick` bumps the generation, `List` replaces the items; `Value`
writes the valuation, `Quote` the ladder. Signals of the asyncio thread wait in `queue`,
those of the GUI thread are delivered at once, as Qt does. `screen` is what the window shows.
A handler of the window is one step. An item is its selection and its place: which item a
figure is of is what can go wrong, and its coins are not.

`sessions` keeps of each negotiation what the ladder's open rung is compared with; what the
ledger makes of it is `Negotiation`'s business.

### Config

The three editors share a process and nothing else, so `Config` puts them side by side and
the user stays on one (`tab`, a bound). A rule's conditions are written as a mapping of
mappings and read back; a discount is written as a number above or below one, which decides
whether it reads as a percentage: both conversions are modelled by what they do, and so is a
dialog's text that gives no condition. A price table has a price and a level of each
enchantment, only the first of which is on screen, and the tier, a spin box, which is the level
of those without one of their own (`ReferenceLevel`); the spin box goes from 1 to 10, and a
values file is taken to stay within that.

Of the settings, `SettingsForm` has four boxes of the form and the three that only the file and
the command line set: the tags to warm up, the data directory and the path of the rules. A file
may name some of them; the others keep their defaults. There is a settings file per directory
(`files`): a start reads the one at home, whatever `--data-dir` says, puts `--data-dir`,
`--port` and `--no-prefetch` over it (`Started`), and writes the file of the directory in force
if there is none; a save writes the fields the form knows (`Written`) to the directory in force.
A save under `--port` or `--no-prefetch` therefore writes the override into the file. `astray`
is a history variable: the settings that a start need not bring back, because the command line
overrode them, because a save applied or left them out without writing them where a start looks,
or because that file was edited by hand. A command line is given on the settings tab only
(a bound): the rules and prices of another directory are, to the other two editors, a hand edit
of the file before the restart.

The list of rules is sorted by rank, the number of rules that go up to a rule: what Python's
stable sort returns, without its steps. The bazaar's answer comes from the asyncio thread as a
queued signal (`FetchReturns`, `ShowReply`). Files may be edited by hand at any moment, well or badly.

### Appraisal and the modules under it

`Modifiers`, `RuleEngine` and `Pricing` are operators: what a modifier is worth by the table
and by the built-in figures, its query parameters, whether a sale has it, which conditions
hold, what each action does, and the way from comparables to a ladder. `Appraisal` is the
coroutine: `SoldAnswers` narrows, `ActiveAnswers` widens, `PriceDropped` asks for one
modifier, `Quote` is everything after the last await. The table and the rules may be replaced
at any await, and an estimate may be typed afterwards. Sales, listings and analyses are
whatever the instance lists, or nothing when a lookup fails; what compares is a set of
positions of the sales, as two sales may be alike. Floats are taken as exact fractions, in
basis points, and rounded where the code rounds (`Nearest`). A cap below nought, which a rules
file edited by hand may hold, is assumed away (`SavedAssumption`). The loops that accumulate are recursive functions of how far they have come
(`NarrowedUpTo`, `FiltersUpTo`, `DecidedUpTo`, `Halved`), and a sorted list is a function
from k to the k-th smallest (`Nth`).

### Books

The ledger is as small as the tabs see it: the items, newest first, each with its state and
its one exit. A table is what it was last filled with, and the positions of it that are
hidden: Qt keeps those by position when a table is filled again. `narrowed` is a history
variable: the band the table was narrowed to, `"outgrown"` once the ledger or the filter has
changed after that, and `"all"` while nothing has been hidden. The dialog is modal, but a
settled trade may still refresh the tab in front. `Opened` and `Chosen` are the form's
opening and saving, with the amount that stands for nothing recorded.

### Sellers

A click on a market figure copies a command at once, or looks the seller up and copies when
the answer comes; pricing an item looks its seller up too, and copies nothing. A lookup's
callback runs on the asyncio thread in two steps (`Answer` unmarks, `Conclude` remembers and
emits), and the command reaches the GUI thread as a queued signal. `overlaps` is a history
variable: a click came before an earlier one was answered.

## Runs

| Run | Instance | Shows |
|---|---|---|
| `ledger_items` | 1 item, 1 session, 2 offers, 2 amounts, 4 events, all operations, CORRECT, CLEAR, faults while correcting | `Agreement`, `ExitsMatchItems`, `LastCorrectionWins`, `ExitsTraceable`, `ChainNumbered` |
| `ledger_fault_correcting` | 3 events | refutes `NeverDisagree` |
| `negotiation` | 2 keys, 2 sessions, 3 offers, 1 item, 5 events, CLEAR with faults, a database left with an offer on the table | `PendingRecorded`, `OneOfferWaits`, `OutcomesFinal`, `DealCredited`, `CloseSettles`, `ClearedTogether` |
| `uplink` | 2 connections, queue of 1, 2 frames, of them 1 or 2 selections or none, 1 fault | `AgreedUnlessAstray`, `NeverFalselyConnected`, `Reconnects`, `QueueDrains` |
| `trade` | 2 screens with one id, 2 slots each, 2 picks, 2 sends, 2 trades, countdown of 2 | `ListsLastSent`, `ReportsAreAnnounced`, `NoTradeLost`, `MatchIsCertain`, `BlocksClose` |
| `api` | 2 callers, 2 windows, 2 retries, 2 faults | `StaleOnlyAfterFailure`, `KeepsQuota`, `PenaltyHonoured`, `QuestionsEnd` |
| `desk` | 2 selections of up to 2 items, 2 clicks, 2 rungs | `ScreenCatchesUp`, `ExpandedWasOffered`, `PricesArrive` |
| `desk_breakdown` | the same, 1 click | refutes `OverrideOfItsItem` |
| `config` | 3 rules, 5 rule files, 4 sheets, 2 directories, 3 command lines, 6 turns | `PriceAtItsLevel`, `RestartChangesNothing`, `WholeFileOrNothing`, `SaveKeepsProtection`, `EditsSurviveFetch` |
| `appraisal` | 3 items, 2 tables, 2 rule sets, 8 markets | `KeptIsBest`, `CostsCovered`, `AsksWiden`, `ProtectionsHold` |
| `books` | 2 items, 2 amounts, every tab, filter and band | `FrontIsCurrent`, `SavedAsItWas` |
| `sellers` | 3 listings, 2 sellers, 3 clicks, 3 lookups | `LastClickStays`, `ClicksAnswered` |

**Bounds.** *Ledger:* `MaxEvents` bounds the log; clearing empties it, so behaviours are
longer than that. Four events are enough for an item to be bought, sold, voided and restored,
or sold after a clear under an id already used, and for two offers of which the first is
voided. *Negotiation:* two keys are the fewest whose sessions can be confused; five events
let both make an offer, one answer and the other be cleared or closed over. Amounts stand for
coin figures that only need to be told apart; `ClaimTax` is the identity on them in the runs
and any function to the naturals in the proofs. Symmetry is declared over ids only, which
nothing orders, and only in runs of safety properties.

*Uplink:* two connections are the fewest that overlap; a queue of one overflows with two
selections, and with one and a frame of another kind loses the selection; `MaxTasks` 1 counts one
delayed connect, enough for one to run beside a completion; one fault at a time, anywhere. *Trade:* the second screen's slot
has the key of the first's, two picks toggle one slot twice or fill both, two trades follow
each other with and without late lines. *Api:* the shorter window is full after two requests
and the longer after three, so each is the one that bars in some state; two faults exhaust
the retries of one question. *Desk:* two selections are the fewest of which one is late, two
items the fewest that can be confused. *Config:* six turns reach an edit, a copy of a copy, a
save, a hand edit, a reload and a save. *Appraisal:* the items have four or five
modifiers of different kinds before the rules rewrite them, the markets three sales each, and `MinComparables` 2 makes
every subset of sales decide; one coin stands for 100,000, and the tiers lie where the
items' values straddle them. The exploration roll is off (`Explore = {FALSE}`): it only
picks another rung of the same ladder, of which the properties speak anyway. *Books:* it has
no counter to bound; two items fill a table of which one row may be hidden, and an amount of
nought is the one that is mistaken for none. *Sellers:* two listings of different sellers are
the fewest whose answers can cross, the third names none; three lookups let a click meet a
prefetch of the same seller and one of the other.

**Deadlock** is checked in the runs of the ledger, the sessions and the uplink, where
something can always happen, and of the tabs. The others set `CHECK_DEADLOCK FALSE`: the user, the mod and
the callers need not do anything, and in the instance they come to the end of their bounds.

**Fairness.**

* *Ledger, Negotiation, Config, Appraisal, Books:* none. They act when the user does or when an answer
  comes, and no property says that something must happen.
* *Uplink:* weak fairness of the scheduler's thread (some task it was handed, in any order) and
  of each completion's: an executor runs what it is given, and a drain goes on to its end. A
  connection attempt has a timeout, so it ends (`Refused`). Strong fairness of `Established`: an
  attempt that the application could answer time and again is answered in the end; weak fairness
  would not do, for every refused attempt disables it. Nothing is asked of the heartbeat, the
  listener, the server or the player.
* *TradeFeed:* the game ticks (`Tick`) and what is sent arrives (`Receive`).
* *Coflnet:* the clock moves while someone waits (`Tick`) and each coroutine goes on
  (`Resume`); a request has a timeout. Nobody has to ask.
* *Desk:* both threads go on: `List`, `Quote`, `Deliver`, and each coroutine comes back with
  a value, is dropped or fails.
* *Sellers:* both threads' loops run on (`Conclude`, `Deliver`), and a question to the client
  ends (`Answer`), which is what `QuestionsEnd` says of `Coflnet`.

### What the violation runs show

1. `ledger_fault_correcting`: `correct()` commits the correction and then rebuilds. A fault
   in between leaves tables that ignore it. Opening the file again does not help: the
   watermark is behind by one event, that event is a correction, and catching up never yields
   one. Only a rebuild (the button, the next correction) repairs it. `BehindIsCorrections` is
   why.
2. `desk_breakdown`: the breakdown remembers the index of its row. While it is open the mod
   may send another selection, whose item of that index is priced; the estimate typed in the
   dialog is then put on that item.

### What else the models made plain

None of these contradicts a checked property; each is what the code does, as modelled, and
most are gaps between a comment and the code.

* *Ledger:* if `clear_history()` fails between the DELETE and the rebuild, every row of the
  erased history stays on screen, new events take ids that old exit rows still hold, and the
  view refuses to clear again because the log is empty.
* *Sessions:* `confirm()` does not look at the session's state. Confirming twice, which a
  second click before the row has collapsed does, buys two items in one session, where
  `machine.py` says that one session covers one item.
* *Uplink:* after a drop several delayed connects may be due at once, where the comment on
  `scheduleReconnect` expects one. The status may say disconnected while a newer connection
  is served, because the older handler's cleanup comes last. A frame whose send fails is
  gone; the next selection repairs what is shown (`AgreedUnlessAstray`). While offline, trades
  that fill the queue push the player's last selection out of it (`"evicted"`).
* *Trade:* a selection in which only the number of duplicates changed is dropped as
  unchanged, so `ListsLastSent` speaks of signatures. Two containers with one id and title
  share the keys of their slots: picking a slot of the second unpicks the first's. A line
  that comes after its block was closed is lost, and with it the price (`late`).
* *API:* two coroutines that miss the cache together ask the same question twice. A prefetch
  takes its turn in the limiter's lock like any caller, so a live valuation does wait behind
  the one that sleeps. An error of the network that outlasts the retries is not the client's
  own exception: the search does not catch it and the valuation of the item ends there.
* *Rules:* a discount of 1% or less is written as a number that reads as a fraction
  (`SaveKeepsProtection` excepts it). The dialog drops a condition whose amount cannot be
  read, turns a list into its printed form, and opens a discount of nought as twenty per
  cent. Two plain conditions on one field are saved as one. Ctrl+R on a file in error
  empties the engine while the list goes on showing the rules. `exclude` adds a warning and
  no more; the lowest cap wins, not the first; a rule that only normalises, or that was
  superseded, does not stop the ones after it; an estimate typed by hand is held to the
  caps decided for the market's.
  The catalogue says that a rule's offer overrides the recommendation; it adds a rung, and
  `recommend()` chooses as if the rule had not spoken.
* *Tabs:* the outcome form takes a recorded amount of 0 for no amount, opens on what the item
  is worth, and records that if it is saved as it opened (`SavedAsItWas` excepts it). A band
  of the ageing chart hides rows of the ledger table by position (`ledger.py:350`), and nothing
  shows them again: choosing another filter, as the status line advises "to see everything
  again" (`main_window.py:254`), fills the table and leaves those positions hidden, whatever
  items are there now. `FrontIsCurrent` claims nothing of what is hidden from then on
  (`"outgrown"`).
* *Sellers:* a click that overtakes an earlier one still in flight may have its command
  overwritten by the other's (`LastClickStays` excepts it). A lookup is unmarked before its
  answer is remembered, so a prefetch in between asks again.
* *Prices:* a values file that cannot be read gives the defaults, which the next save writes
  over it. A fetched table is lost when a cell on screen is illegible. The search ranks by
  figures written into `modifiers.py`, not by the table (enchantments excepted).
* *Settings:* a save that meets an illegible amount has applied every box before it and
  written nothing. The hourly return and the margin are shown rounded and saved as shown.
  A save under `--port` or `--no-prefetch` makes the override permanent. The settings of
  `--data-dir`, "where the database and settings live" (`__main__.py:33`), are written and never
  read: `load_settings()` comes first and looks into the default directory. A save writes the
  fields the form knows over the file, where `config.py:3` promises a round trip: a `rules_path`
  or `data_dir` written by hand is gone, and with it what was in force after the next start.
  The number of comparables is read once, when the engine is built (`controller.py:113`), where
  `views/config.py:183` says that everything but the port is read per valuation; `SettingsForm`
  leaves out who reads a setting when.
* *Search:* all valuations share one search object and its request counter. An item with
  sixteen or more kept modifiers uses its budget up before it asks for its rarity alone
  (the last disjunct of `AsksWiden`). The blended estimate may exceed the lowest BIN.

## Proofs

| Theorem | Says |
|---|---|
| `AgreementHolds` | `Ledger!Spec => []Agreement` |
| `TypeOKHolds` | `Ledger!Spec => []TypeOK` |
| `OneExitPerItemHolds` | `Ledger!Spec => []OneExitPerItem` |
| `ExitsTraceableHolds` | `Ledger!Spec => []ExitsTraceable` |
| `BehindIsCorrectionsHolds` | `Ledger!Spec => []BehindIsCorrections` |
| `LastCorrectionWinsHolds` | `Ledger!Spec => []LastCorrectionWins` |
| `ExitsMatchItemsHolds` | `Ledger!Spec => []ExitsMatchItems` |
| `ChainNumberedHolds` | `Ledger!Spec => []ChainNumbered` |
| `NegotiationTypeOKHolds` | `NegotiationSpec => []NegotiationTypeOK` |
| `NegotiationImplementsLedger` | `NegotiationSpec => Ledger!Spec` |
| `NegotiationKeepsAgreement` | `NegotiationSpec => []Agreement` |
| `PendingRecordedHolds`, `OneOfferWaitsHolds` | `NegotiationSpec => []PendingRecorded`, and `[]OneOfferWaits` |
| `OutcomesFinalHolds`, `DealCreditedHolds`, `ClearedTogetherHolds`, `CloseSettlesHolds` | the four action properties of `NegotiationSpec` |
| `LimiterKeepsQuota` | `LimiterSpec => KeepsQuota`: the limiter implements `Quota` |
| `LimiterHonoursPenalties` | `LimiterSpec => PenaltyHonoured` |
| `CoflnetImplementsLimiter` | `Coflnet!Spec => LimiterSpec` |
| `CoflnetKeepsQuota`, `CoflnetHonoursPenalties` | both, of the client |
| `CoflnetStaleOnlyAfterFailure` | `Coflnet!Spec => []StaleOnlyAfterFailure` |
| `UplinkNeverFalselyConnected` | `Uplink!Spec => []NeverFalselyConnected` |
| `UplinkAgreedUnlessAstray` | `Uplink!Spec => []AgreedUnlessAstray` |
| `ListsLastSentHolds`, `ReportsAreAnnouncedHolds`, `NoTradeLostHolds`, `MatchIsCertainHolds` | `TradeFeed!Spec => []ListsLastSent`, and so on |
| `ScreenCatchesUpHolds`, `ExpandedWasOfferedHolds` | `DeskSpec => []ScreenCatchesUp`, and `[]ExpandedWasOffered` |
| `PriceAtItsLevelHolds`, `RestartChangesNothingHolds` | `ConfigSpec => []PriceAtItsLevel`, and `[]RestartChangesNothing` |
| `EditsSurviveFetchHolds`, `WholeFileOrNothingHolds`, `SaveKeepsProtectionHolds` | the three action properties of `ConfigSpec` |
| `AppraisalInvHolds` | `Appraisal!Spec => []AppraisalInv`, the inductive invariant the next four rest on |
| `KeptIsBestHolds`, `CostsCoveredHolds` | `Appraisal!Spec => []KeptIsBest`, and `[]CostsCovered` |
| `AsksWidenHolds`, `ProtectionsHoldAlways` | the two action properties of `Appraisal!Spec` |
| `LastClickStaysHolds` | `Sellers!Spec => []LastClickStays` |
| `FrontIsCurrentHolds`, `SavedAsItWasHolds` | `BooksSpec => []FrontIsCurrent`, and the action property `SavedAsItWas` |

**Assumptions.** They are those the modules state, and TLC evaluates each on the instances.
*Ledger:* `None` is not an id, a number or a row; ids of offers are finitely many (for the
maximum of a chain); legacy logs hold addressed events, and an id that a log introduces is
introduced once (`FreshIds`: ids are UUIDs). Nothing else is assumed of the sets of ids,
amounts, estimates, patches and legacy logs, of the tax, the fault windows or the bound on the
log. *Negotiation:* in what a legacy log replays to, at most one offer of a session waits
for its answer. *Uplink:* the bounds are naturals, the queue has room for one, and connections,
frames, `None` and the scheduler are told apart. *TradeFeed:* the bounds are naturals, and an
announced trade names a player and has lines of
what a line can say. *Desk:* at least one item may be picked, and `None` is not a rung's
basis, a ladder or a session. *Config:* the default table has a price and a level of every
enchantment, the bazaar quotes enchantments only, no skin is one, tiers are within the spin box's range, and a start looks
into one of the data directories; the shipped rules are
ones that can be read; what is left in the rules file by hand has entries, right or wrong, or
is not there or cannot be parsed; a dialog gives a name and whole numbers.
*Pricing:* an auction runs for some hours, the rungs are some discount apart, the other
settings are naturals, and the last tax tier has no upper bound, as in `tax.py`. *Appraisal:*
the thresholds of the search, the coins, hours and shares of what the market answers, and the
discounts and caps that were saved are naturals; an item has finitely many modifiers, whose
ranks, levels and recovered shares are whole. *Sellers:* a listing's seller is a seller or
none, and `None` is not a command. *Books:* amounts and what an item is worth
are naturals, and no amount stands for none.

**Agreement** is not inductive: while the process is down, or between the two transactions
of an operation, the tables need not be the replay of the log, and opening decides what to do
by the watermark and the version. `LedgerInv` adds `UpToDate`: unless a fault has struck or
the tables were built by another version, the tables are the replay and the watermark is the
length of the log. The heart of the step is that recording an event on tables that are the
replay of the log gives the replay of the longer log (`Replay(Append(log, e)) =
Apply(Replay(log), Len(log) + 1, e)` for an event that is not a correction), which is an
induction over positions of the log (`LogInduction`) because appending such an event changes
neither the corrections nor what was effective. Catching up from a watermark at the end of
the log is the identity.

`TypeOK`, `BehindIsCorrections` and `OneExitPerItem` are proved and in no configuration of their
own: the first two are what the other proofs rest on, the third is part of `ExitsMatchItems`.

**ExitsTraceable** needs `ExitsInv`, which says the same of the tables in every phase but
`"clearing"` and while the process is down. **OneExitPerItem** is inductive with `TypeOK`,
through a lemma that each handler, and hence any replay from any tables, preserves it.
**ExitsMatchItems** and **ChainNumbered** are shown of any tables (`Matched`, `Numbered`),
inductive together with `FreshIds(events)` and with `BehindIsCorrections`: a catch-up starts
from tables that are there, and keeps both because it has nothing to apply.
**LastCorrectionWins** speaks of the log alone and holds of every well-formed one
(`TypeOK => LastCorrectionWins`): by induction over the positions of the corrections, what the
collapse has made of an event up to a position is decided by the last of its corrections up to
there.

**NegotiationImplementsLedger** takes the ledger's variables as they are: each transaction of
a handler is an action of `Ledger` with arguments of the right types, which is what
`NegotiationTypeOK` provides, and `Raise` leaves the ledger alone.

**PendingRecorded** and **OneOfferWaits** compare memory with the tables, and a correction,
a restart or a clear replaces the tables by a replay. So `NegotiationInv` says what it says of
two sets of tables: those that are read, and those a rebuild would give from the log as it is.
They are the same most of the time; when they are not (down, or half way through clearing),
each action changes one of them and the invariant is already there for the other. The action
properties follow from it: an answer is recorded once because only an offer that waits is
answered, and a rebuild keeps every answer because it keeps those of the replay.

**LimiterKeepsQuota** holds for any set of windows with positive limits and any spans, minimum
interval, margin and callers. The quota speaks of everything ever sent, the limiter remembers
only a few times per window. `LimiterInv` relates the two: what a window remembers is the
tail of what was sent, and all that was sent before that tail has left the window; no
window remembers more than its limit. Pruning keeps this (a longer prefix has left), so does
the clock (what has left stays out), and a granted request is appended to both. A grant finds
every window either short of its limit or with its oldest hit out of it, hence fewer than the
limit of all requests ever sent are still inside. **LimiterHonoursPenalties** needs that the
one time the limiter keeps is an upper bound of all it was told.

**CoflnetImplementsLimiter** shows that each step of the client is one of acquire(), a
turn of its loop, note_retry_after() or the clock, or leaves the limiter alone; it assumes
that the server's delays are naturals. The two properties follow. In
**CoflnetStaleOnlyAfterFailure** the invariant `CallInv` also fixes the shape of a call,
so that a step which changes where a call stands leaves its answer as it was.

**UplinkNeverFalselyConnected** is inductive with the types of what it speaks of.
**UplinkAgreedUnlessAstray** is about an idle line, of which no step but the last knows that
it will be idle. `LineInv` says where the last selection is while it is not, unless `astray`
names a mishap: there is one way from the mod to the window (one socket, one drain that carries
a frame, one open connection), and of queue, drain, connection and window the first that holds
a selection ends its selections with it. That a full queue drops its head keeps this, because
the head is not the last selection unless only other frames are behind it (`"evicted"`) or a
newer selection comes.

**The trade feed** relates a history (what was announced) with two sequences that other
processes have written (what is on the wire, what was told). `FeedInv` has two increasing
functions, from the trades told and from those on the wire to the trades announced, whose
values do not cross; the open block with what is still in the chat is the announced trade that
comes after all of them. **NoTradeLost** adds that the two ranges cover every trade that moved
anything while no line was late. **ListsLastSent** needs that the last selection on the wire,
or else the list, is the one sent last; **MatchIsCertain** that a trade settles at most the one
item that the comparison leaves.

**ScreenCatchesUp** is true once both threads are quiet, and `DeskInv` says what makes it true
while they are not, in terms of the signals in the queue. The last list that waits is the
controller's; a price behind every list is of an item on it, and that item has its ladder; an
item with a ladder is shown in its row (and by the rungs, if it is selected), unless its price
is on its way; the last signal that sets the total sets it to what the controller's items
count, unless an estimate was typed. A step of the asyncio thread appends to the queue, a
delivery takes the head off, and both are lemmas about the queue alone (`ListedAdded`,
`ValuedTaken`, ...). **ExpandedWasOffered** is kept beside it because every signal that
changes the selected row or its rungs folds the rung.

**The editors** step on their own but for a restart, so each has an invariant of its own.
**PriceAtItsLevel** is of the table in force only; `PricesInv` says it of the file as it would
be read and of the screen too, whose levels are those of the table behind it, which is what a
save puts beside the prices and the tier on screen. **EditsSurviveFetch** needs that the cells
are those of a table with every enchantment, so that a quotation names nothing that is not on
screen. **RestartChangesNothing** needs that the settings in force are complete, so that what is
written is read back as it is with no default in between (`WrittenIsRead`); each action then
either leaves home's file and a setting both alone, changes them together, or puts the setting
among those astray. **WholeFileOrNothing** and **SaveKeepsProtection** rest on `RulesInv`: the
list on screen has each name once and discounts in range. That a sorted list is such a list
again, of the same names, takes the order apart: names compare by the first place where they
differ (`NamesOrdered`), so no two rules are level, and the rank of a rule, the number of those
up to it, is a place of its own (`RanksArePlaces`). A copy gets a fresh name because there are
more numbers to append than names taken (`CopyIsNew`); a file written from such a list has as
many names as entries, and its discounts, a hundred times as large, read as what they were
unless they were of 1% or less.

**The appraisal** has an invariant of several parts (`AppraisalInv`): the files are ones that
may be saved (`Saved`), the lists of the search hold the item's own modifiers (`Lists`), the
comparables are among the sales (`Compared`), the figures are numbers (`Figures`), the queries
that are left are the end of the halvings and the one asked is the first of them (`Asking`),
and the ladder that is shown is honest about the estimate and the decision beside it (`Quoted`).
Coins are whole throughout: that an estimate is a natural number goes through the median, the
lowest listing that is believed and their blend.
**KeptIsBest** is about one pass over the modifiers, never going back. `Kept(sold, n)` is what
is kept of the first n. If other modifiers are supported and are not those kept, there is a
first place where the two differ (`FirstDifference`); had the other set the modifier there and
the search not, then enough sales share what was kept so far and this one (they share even
more), so the search would have kept it. It is therefore the search that has the dearer
modifier (`SearchKeepsBest`).
**AsksWiden** reads the place in the halvings off `Asking`: a halving goes down
(`HalvingGoesDown`), fewer modifiers of the same list ask for fewer parameters although
the query has only so many slots for enchantments (`FiltersGrow`), and the last halving is
none or the last allowed. **CostsCovered** follows from the honesty of a rung: its coins and its
profit come from one discount, and so does whether it meets the floor. The number of auctions,
which the code computes by a division that rounds up, is the one a seller would count, because
only one number fits (`RunsOnce`); the rounding of the tax, of the coins and of the floor is
bounded one by one, and they fall on the same side (`HonestCovers`).
**ProtectionsHold** goes rule by rule (`AskedRule`): what is decided never becomes laxer, and a
rule that speaks is heeded even if its offer comes too late; what is decided has stopped only if
a rule that spoke said so, hence a rule before which none said stop was heard
(`RulingHeedsAll`). An honest ladder is built on no more than the cap, and no rung pays more
than what it is built on, whether that was estimated or typed.

**LastClickStays** needs to know where the command of a click still is: `EachOnce` says that it
is in one lookup or in one place of the queue, and only while the clipboard has not had it.
Without an overlap nothing but the last click waits (`LastOnly`), so what is delivered last is
its command. **FrontIsCurrent** speaks of the tab in front and is inductive with what holds of
the table behind it: what a tab shows is a function of the ledger and the filter (`Table`,
`Position`), every step that changes one of them fills the tab in front, and the others leave
both alone. What is hidden is hidden by the click on a band, and every later change of the
ledger or the filter takes the claim back (`Outgrown`), behind another tab too. **SavedAsItWas** needs that the dialog,
until it is touched, is as it was opened although a week passes or a trade settles behind it
(`AsOpened`), and that what is on record is consistent (`Recorded`: an amount unless it is in
stock, a tax only on a sale): opening such an exit and choosing what the form shows gives it
back.

**Checked by TLC only:** the liveness properties (`Reconnects`, `QueueDrains`, `BlocksClose`,
`QuestionsEnd`, `PricesArrive`, `ClicksAnswered`); every other property of a passing run has a
theorem. Liveness is out of the prover's reach, as is what `Replay` or a fold computes in general:
there is no induction principle over data with an operator parameter that the installed
provers can instantiate, which is why `LogInduction` proves the instances it needs for
functions on segments of the naturals.

## Plan

Done: the modules above with their runs, and the theorems above, one for each property of a
passing run that is not a liveness property. What is left:

1. The fit of the acceptance curve and the confidence score, of which only what they return
   is modelled.
2. Liveness, once a prover has rules for it: `QueueDrains` and `ClicksAnswered` would rest on
   `LineInv` and on `EachOnce`.

## Not modelled

* Parsing of item NBT, demo data, charts, layout and painting: stateless, or read by nothing
  else here. Of the statistics, `Books` has which items they count.
* The confidence score, the estimate of the sell time and the fit of the acceptance curve:
  floating-point statistics, whose results `Pricing` takes as any of an instance's.
* Malformed frames, what is in a frame of another kind than a selection or a trade, and the
  wording of status lines.
* The order in which `start` and `stop` bring the parts up and down: the wait of `stop` has
  a timeout and each part's own stopping is modelled where it matters.
