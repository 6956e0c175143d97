------------------------------ MODULE PriceBook -----------------------------
(***************************************************************************)
(* The modifier prices: values.yaml (pricing/values.py), the Pricing tab   *)
(* (ui/views/config.py), and the fetch from the bazaar (api/bazaar.py,     *)
(* AppController.fetch_bazaar_prices), which runs on the asyncio thread    *)
(* while the user goes on editing.                                         *)
(*                                                                         *)
(* A table is [price, level, tier]: the price of each modifier, the level  *)
(* an enchantment's price refers to where it has one of its own, and the   *)
(* level of the other enchantments.  The prices and the tier are on the    *)
(* screen, the levels are not: the editor carries them beside the screen.  *)
(***************************************************************************)
EXTENDS Integers, FiniteSets, Functions

CONSTANTS
    Enchants,    \* enchantments, which the bazaar may trade
    Skins,       \* skins the user may list by name
    DefaultTable,
    HandTables,  \* what a user may leave in values.yaml by hand: parts of a table, or Spoilt
    Quotes,      \* what the bazaar may answer: a partial function from
                 \* enchantments to [price, level]
    TypedCoins,  \* prices a user may type
    TypedTiers   \* tiers a user may set

\* The defaults price every enchantment, the bazaar trades nothing else, no skin is one,
\* and no tier is out of the spin box's range, which would change it.
ASSUME PricesAssumption ==
    /\ Enchants \subseteq DOMAIN DefaultTable.price
    /\ \A quote \in Quotes : DOMAIN quote \subseteq Enchants
    /\ Skins \cap Enchants = {}
    /\ TypedTiers \cup {DefaultTable.tier} \subseteq 1..10
    /\ \A t \in HandTables : "tier" \in DOMAIN t => t.tier \in 1..10

VARIABLES
    store,       \* the file: a table, part of one, or Spoilt
    applied,     \* the table valuations and rules read
    base,        \* PricingEditor.table
    cells,       \* the price cells on screen: coins, or Illegible
    tierBox,     \* the spin box of the tier
    asked,       \* a fetch is under way, its button disabled
    reply        \* the signal queued for the GUI thread: a quote, Failed, or Nothing

priceVars == <<store, applied, base, cells, tierBox, asked, reply>>

Spoilt == [spoilt |-> TRUE]
Illegible == -1
Nothing == [nothing |-> TRUE]
Failed == [failed |-> TRUE]

\* What a file does not say is as in the defaults.
Over(said, default) == [m \in DOMAIN said \cup DOMAIN default |->
                           IF m \in DOMAIN said THEN said[m] ELSE default[m]]
FromDict(content) == [price |-> Over(content.price, DefaultTable.price),
                      level |-> Over(content.level, DefaultTable.level),
                      tier |-> IF "tier" \in DOMAIN content THEN content.tier
                                                            ELSE DefaultTable.tier]

\* A file that cannot be read gives the defaults.
LoadValues(content) == IF content = Spoilt THEN DefaultTable ELSE FromDict(content)

ReferenceLevel(table, e) == IF e \in DOMAIN table.level THEN table.level[e] ELSE table.tier

\* Every widget read back into a table, or nothing when one cannot be read.
Legible == \A m \in DOMAIN cells : cells[m] # Illegible
\* Mutant of Collected: the levels of the defaults go with the cells.
CollectedAfresh == [price |-> cells, level |-> DefaultTable.level, tier |-> tierBox]
\* Mutant of Collected: the table behind the screen, not what is on it.
CollectedOffScreen == base
Collected == [price |-> cells, level |-> base.level, tier |-> tierBox]

\* refresh_values: what the bazaar does not trade is left as it was.
RefreshValues(table, quote) ==
    [price |-> [m \in DOMAIN table.price |->
                   IF m \in DOMAIN quote THEN quote[m].price ELSE table.price[m]],
     level |-> Over([e \in DOMAIN quote |-> quote[e].level], table.level),
     tier |-> table.tier]
-----------------------------------------------------------------------------
\* The editor shows a table it was given.
Populate(table) == base' = table /\ cells' = table.price /\ tierBox' = table.tier

TypePrice == \E m \in DOMAIN cells, coins \in TypedCoins \cup {Illegible} :
                 /\ cells' = [cells EXCEPT ![m] = coins]
                 /\ UNCHANGED <<store, applied, base, tierBox, asked, reply>>

TypeTier == tierBox' \in TypedTiers /\ UNCHANGED <<store, applied, base, cells, asked, reply>>

\* A new row of the skins table starts at nought; a row may be removed.
AddSkin == \E s \in Skins \ DOMAIN cells :
               /\ cells' = [m \in DOMAIN cells \cup {s} |-> IF m = s THEN 0 ELSE cells[m]]
               /\ UNCHANGED <<store, applied, base, tierBox, asked, reply>>
RemoveSkin == \E s \in Skins \cap DOMAIN cells :
                  /\ cells' = Restrict(cells, DOMAIN cells \ {s})
                  /\ UNCHANGED <<store, applied, base, tierBox, asked, reply>>

\* Save and apply.
SavePrices ==
    /\ Legible
    /\ base' = Collected
    /\ store' = Collected
    /\ applied' = LoadValues(store')
    /\ UNCHANGED <<cells, tierBox, asked, reply>>

ReloadPrices == Populate(LoadValues(store)) /\ UNCHANGED <<store, applied, asked, reply>>

RestoreDefaultPrices == Populate(DefaultTable) /\ UNCHANGED <<store, applied, asked, reply>>

Fetch == ~asked /\ asked' = TRUE /\ UNCHANGED <<store, applied, base, cells, tierBox, reply>>

\* On the asyncio thread the request ends, and its callback emits the signal.
FetchReturns == /\ asked /\ reply = Nothing
                /\ reply' \in Quotes \cup {Failed}
                /\ UNCHANGED <<store, applied, base, cells, tierBox, asked>>

\* The reply lands on the screen as it is now; on an illegible one it is lost.
ShowReply ==
    /\ reply # Nothing
    /\ asked' = FALSE
    /\ reply' = Nothing
    /\ IF reply # Failed /\ Legible THEN Populate(RefreshValues(Collected, reply))
                                    ELSE UNCHANGED <<base, cells, tierBox>>
    /\ UNCHANGED <<store, applied>>

HandEditPrices == /\ store' \in HandTables
                  /\ UNCHANGED <<applied, base, cells, tierBox, asked, reply>>

\* The fetch of a process that ends is cancelled.
RestartPrices ==
    /\ applied' = LoadValues(store)
    /\ Populate(LoadValues(store))
    /\ asked' = FALSE
    /\ reply' = Nothing
    /\ UNCHANGED store

\* The first start writes the defaults out.
PricesInit ==
    /\ store = DefaultTable
    /\ applied = store
    /\ base = store
    /\ cells = store.price
    /\ tierBox = store.tier
    /\ asked = FALSE
    /\ reply = Nothing

PricesStep ==
    \/ TypePrice \/ TypeTier \/ AddSkin \/ RemoveSkin \/ SavePrices \/ ReloadPrices
    \/ RestoreDefaultPrices \/ Fetch
-----------------------------------------------------------------------------
(***************************************************************************)
(* Properties.                                                             *)
(***************************************************************************)

\* Prices and the levels they refer to, as the defaults, a file or the bazaar
\* gave them together.
PairsOf(table) == {<<table.price[e], ReferenceLevel(table, e)>> : e \in Enchants}
Pairs == UNION ({PairsOf(LoadValues(t)) : t \in HandTables \cup {Spoilt}}
                \cup {{<<q[e].price, q[e].level>> : e \in DOMAIN q} : q \in Quotes})

\* The tier, which speaks for an enchantment without a level of its own, was set by hand.
TierTyped(table, e) == e \notin DOMAIN table.level /\ table.tier \in TypedTiers

\* A price no one typed is applied at the level it was quoted for: fetching,
\* editing, restoring, reloading and saving in any order never leave a price
\* beside the level of another source (values.py: reading a level V price as a
\* level VII one is wrong by a factor of thirty-six), unless the user says so with
\* the spin box that sets the level of all that have none of their own.
PriceAtItsLevel ==
    \A e \in Enchants : \/ applied.price[e] \in TypedCoins \/ TierTyped(applied, e)
                        \/ <<applied.price[e], ReferenceLevel(applied, e)>> \in Pairs

\* What was typed while the bazaar was being asked survives the answer, unless the
\* answer has a price for that very modifier; a failed or unused answer changes nothing.
EditsSurviveFetch ==
    [][ShowReply =>
         /\ tierBox' = tierBox
         /\ IF reply = Failed \/ ~Legible
            THEN cells' = cells
            ELSE /\ DOMAIN cells' = DOMAIN cells
                 /\ \A m \in DOMAIN cells \ DOMAIN reply : cells'[m] = cells[m]]_priceVars
=============================================================================
