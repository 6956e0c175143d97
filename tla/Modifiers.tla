------------------------------ MODULE Modifiers ----------------------------
(***************************************************************************)
(* What an item carries beyond its tag, what each of those modifiers is    *)
(* worth, how it is asked for on the auction house, and whether a sale has *)
(* it too (pricing/modifiers.py, pricing/matching.py, and the value table  *)
(* of pricing/values.py).                                                  *)
(*                                                                         *)
(* An item (ItemSignature) is a record:                                    *)
(*   rarity, enchants and attributes: sets of <<name, level>>,             *)
(*   stars, potato: numbers, gems: quality -> count, recomb, aow: BOOLEAN, *)
(*   reforge, skin, dye, rune (a level), pet: None when absent,            *)
(*   scrolls: a set of names.                                              *)
(* A pet is [level, exact, held, skin, candy].  A sale (SoldItem) has the  *)
(* same fields as far as the auction feed reports them, and a price.       *)
(* Which tag a modifier is bought under is left out: `priceable` says that *)
(* it has one; a reforge shows as the first word of a sale's name, and a   *)
(* pet's level in that name, or not at all (level None).  An ultimate      *)
(* enchantment that no table lists has the default as its listed figure.   *)
(* Coins are integers; shares are per cent.                                *)
(***************************************************************************)
EXTENDS Integers, FiniteSets, SequencesExt

CONSTANTS
    None,
    Builtin,     \* the figures written into modifiers.py
    KeyOrder,    \* the keys of modifiers of one kind, in alphabetical order
    SampleSize   \* how many sales are looked at to see what the feed reports

Least(a, b) == IF a < b THEN a ELSE b
Most(a, b) == IF a > b THEN a ELSE b
Total(f) == FoldFunction(+, 0, f)
Only(condition, m) == IF condition THEN {m} ELSE {}

\* ValueTable.enchant_value: a table lists an enchantment at one level, and
\* each level below divides the price.
EnchantValue(table, name, level) ==
    CASE name \in DOMAIN table.ultimate ->
             (table.ultimate[name] * Least(level, 5) ^ 2) \div 25
      [] name \in DOMAIN table.top ->
             table.top[name].coins
                 \div table.top[name].decay ^ Most(0, table.top[name].level - level)
      [] OTHER -> table.common * Most(1, level - 4)
-----------------------------------------------------------------------------
\* How much of a modifier's own price carries into the item.
Recovery(kind) ==
    CASE kind \in {"attribute", "dye"} -> 90
      [] kind \in {"star", "skin", "pet_skin", "pet_held_item", "ability_scroll"} -> 85
      [] kind \in {"recomb", "art_of_war"} -> 80
      [] kind \in {"gem", "hot_potato"} -> 70
      [] kind = "reforge" -> 60
      [] kind = "rune" -> 50
      [] OTHER -> 75

\* The parameters asked of the API are pairs <<parameter, value>>.
Modifier(kind, key, level, rank, filters, priceable) ==
    [kind |-> kind, key |-> key, level |-> level, rank |-> rank, filters |-> filters,
     priceable |-> priceable, recovery |-> Recovery(kind), matching |-> TRUE]

\* Only the expensive enchantments narrow the comparables.
Enchantment(name, level, table) ==
    LET rank == EnchantValue(table, name, level)
        worthy == rank >= table.floor
    IN  [Modifier("enchantment", name, level, rank,
                  IF worthy THEN {<<"Enchantment", name>>, <<"EnchantLvl", level>>} ELSE {},
                  TRUE) EXCEPT !.matching = worthy]

Attribute(name, level) ==
    Modifier("attribute", name, level, Builtin.attribute * 2 ^ Most(0, level - 1), {}, TRUE)

\* The first five stars cost essence, the next five are items.
StarWorth(figures, stars) ==
    figures.essence * Least(stars, 5)
        + Total([i \in 1..Most(0, stars - 5) |-> figures.master[i]])
Stars(n) == Modifier("star", "stars", n, StarWorth(Builtin, n), {<<"Stars", n>>}, n > 5)

GemFilters(quality, n) ==
    CASE quality = "PERFECT" -> {<<"PerfectGemsCount", n>>}
      [] quality = "FLAWLESS" -> {<<"FlawlessGemsCount", n>>}
      [] OTHER -> {}
Gems(quality, n) ==
    Modifier("gem", quality, n, Builtin.gems[quality] * n, GemFilters(quality, n), TRUE)

\* A level past 100 is no filter: the API reads it as "100 or more exp".
PetModifiers(pet) ==
    Only(pet.exact, Modifier("pet_level", "level", pet.level, Builtin.level * pet.level,
                             {<<"PetLevel", pet.level>>}, FALSE))
    \cup Only(pet.held # None, Modifier("pet_held_item", pet.held, 0, Builtin.held,
                                        {<<"PetItem", pet.held>>}, TRUE))
    \cup Only(pet.skin # None, Modifier("pet_skin", pet.skin, 0, Builtin.skin \div 2,
                                        {<<"PetSkin", pet.skin>>}, TRUE))
    \cup Only(pet.candy > 0, Modifier("pet_candy", "candy", pet.candy, -1, {}, FALSE))

\* Past ten, the extra potato books are fuming ones.
Potato(n) ==
    Modifier("hot_potato", "hot_potato", n,
             Builtin.potato * Least(10, n) + Builtin.fuming * Most(0, n - 10),
             {<<"HotPotatoCount", n>>}, TRUE)

ModifiersOf(item, table) ==
    {Enchantment(e[1], e[2], table) : e \in item.enchants}
    \cup {Attribute(a[1], a[2]) : a \in item.attributes}
    \cup Only(item.stars > 0, Stars(item.stars))
    \cup {Gems(q, item.gems[q]) : q \in {q \in DOMAIN item.gems : item.gems[q] > 0}}
    \cup (IF item.pet = None THEN {} ELSE PetModifiers(item.pet))
    \cup Only(item.recomb, Modifier("recomb", "recombobulated", 0, Builtin.recomb,
                                    {<<"Recombobulated", TRUE>>}, TRUE))
    \cup Only(item.reforge # None, Modifier("reforge", item.reforge, 0, Builtin.reforge,
                                            {<<"Reforge", item.reforge>>}, FALSE))
    \cup Only(item.potato > 0, Potato(item.potato))
    \cup Only(item.aow, Modifier("art_of_war", "art_of_war", 0, Builtin.aow,
                                 {<<"ArtOfTheWar", TRUE>>}, TRUE))
    \cup Only(item.skin # None, Modifier("skin", item.skin, 0, Builtin.skin,
                                         {<<"Skin", item.skin>>}, TRUE))
    \cup Only(item.dye # None, Modifier("dye", item.dye, 0, Builtin.dye,
                                        {<<"DyeItem", item.dye>>}, TRUE))
    \cup Only(item.rune # None, Modifier("rune", "rune", item.rune,
                                         Builtin.rune * item.rune, {}, TRUE))
    \cup {Modifier("ability_scroll", s, 0, Builtin.scroll, {}, TRUE) : s \in item.scrolls}

KindOrder == <<"ability_scroll", "art_of_war", "attribute", "dye", "enchantment", "gem",
               "hot_potato", "pet_candy", "pet_held_item", "pet_level", "pet_skin",
               "recomb", "reforge", "rune", "skin", "star">>
Position(seq, e) == CHOOSE i \in DOMAIN seq : seq[i] = e

\* The sort key (-rank, kind, key).
Before(a, b) ==
    \/ a.rank > b.rank
    \/ a.rank = b.rank /\ Position(KindOrder, a.kind) < Position(KindOrder, b.kind)
    \/ /\ a.rank = b.rank /\ a.kind = b.kind /\ a.key # b.key
       /\ Position(KeyOrder, a.key) < Position(KeyOrder, b.key)

\* rank_by_value_contribution: most valuable first.
Ranked(item, table) ==
    LET mods == ModifiersOf(item, table)
    IN  [i \in 1..Cardinality(mods) |->
            CHOOSE m \in mods : Cardinality({o \in mods : Before(o, m)}) = i - 1]
-----------------------------------------------------------------------------
\* to_filters: the query for a sequence of modifiers.  The API takes two
\* enchantments; what it cannot express is left out of the query.
AddFilter(query, m) ==
    LET second == {<<"SecondEnchantment", m.key>>, <<"SecondEnchantLvl", m.level>>}
        named == {p[1] : p \in query}
    IN  IF m.kind # "enchantment" THEN
            IF \E p \in m.filters : p[1] \in named THEN query ELSE query \cup m.filters
        ELSE IF m.filters = {} THEN query
        ELSE IF "Enchantment" \notin named THEN query \cup m.filters
        ELSE IF "SecondEnchantment" \notin named THEN query \cup second
        ELSE query
FiltersUpTo(mods, item) ==
    LET upTo[n \in 0..Len(mods)] ==
            IF n = 0 THEN Only(item.rarity # None, <<"Rarity", item.rarity>>)
            ELSE AddFilter(upTo[n - 1], mods[n])
    IN  upTo
ToFilters(mods, item) == FiltersUpTo(mods, item)[Len(mods)]
-----------------------------------------------------------------------------
LevelOf(pairs, name) ==
    IF \E p \in pairs : p[1] = name THEN (CHOOSE p \in pairs : p[1] = name)[2] ELSE 0
GemCount(sale, quality) ==
    IF quality \in DOMAIN sale.gems THEN sale.gems[quality] ELSE 0
PetLevelTolerance(level) == Most(5, (level * 8) \div 100)
Apart(a, b) == IF a > b THEN a - b ELSE b - a

\* modifier_matches answers None where the feed does not report the modifier.
Reported(m, sale) ==
    CASE m.kind \in {"attribute", "skin", "pet_skin", "dye", "rune"} -> FALSE
      [] m.kind = "pet_level" -> sale.pet # None /\ sale.pet.level # None
      [] OTHER -> TRUE

Carries(m, sale) ==
    CASE m.kind = "enchantment" -> LevelOf(sale.enchants, m.key) >= m.level
      [] m.kind = "star" -> sale.stars = m.level
      [] m.kind = "recomb" -> sale.recomb
      [] m.kind = "hot_potato" -> sale.potato >= m.level
      [] m.kind = "art_of_war" -> sale.aow
      [] m.kind = "reforge" -> sale.reforge = m.key
      [] m.kind = "gem" -> GemCount(sale, m.key) >= m.level
      [] m.kind = "ability_scroll" -> m.key \in sale.scrolls
      [] m.kind = "pet_level" -> Apart(sale.pet.level, m.level) <= PetLevelTolerance(m.level)
      [] m.kind = "pet_held_item" -> sale.pet # None /\ sale.pet.held = m.key
      [] m.kind = "pet_candy" -> sale.pet # None /\ sale.pet.candy > 0

Matchable(m, sales) ==
    \E i \in 1..Least(SampleSize, Len(sales)) : Reported(m, sales[i])

\* A modifier a sale cannot answer for does not disqualify the sale.
MatchesAll(sale, mods, rarity) ==
    /\ rarity # None /\ sale.rarity # None => sale.rarity = rarity
    /\ \A m \in mods : Reported(m, sale) => Carries(m, sale)

\* The sales that match, by their positions.
Select(sales, mods, rarity) == {n \in DOMAIN sales : MatchesAll(sales[n], mods, rarity)}
=============================================================================
