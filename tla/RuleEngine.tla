------------------------------ MODULE RuleEngine ---------------------------
(***************************************************************************)
(* Evaluating rules against an item (rules/engine.py, rules/model.py).     *)
(*                                                                         *)
(* A rule is [enabled, when, offer, cap, exclude, normalise, note, stop]:  *)
(* `when` is a set of conditions [field, op, expected], `offer` basis      *)
(* points below the estimate or None, `cap` coins or None, `normalise` a   *)
(* set of rewrites <<field, value>>.  A rule set is a sequence in order of *)
(* (priority, name), which is the order they are evaluated in, and a rule  *)
(* is named by its place in it.  Left out: the operator `matches` (regular *)
(* expressions), fields named for one enchantment or attribute, the action *)
(* `valuation`, which nothing reads, and the wording of firings.           *)
(***************************************************************************)
EXTENDS Modifiers

\* What each family of modifiers is worth to a rule: read from the table,
\* not from the figures that the search ranks by.
SkinWorth(table, skin) ==
    CASE skin = None -> 0
      [] skin \in DOMAIN table.skins -> table.skins[skin]
      [] OTHER -> table.skin
EnchantWorths(item, table) == [e \in item.enchants |-> EnchantValue(table, e[1], e[2])]
AttributeWorths(item, table) ==
    [a \in item.attributes |-> table.attribute * 2 ^ Most(0, a[2] - 1)]
GemWorths(item, table) == [q \in DOMAIN item.gems |-> table.gems[q] * item.gems[q]]
Extras(item, table) ==
    LET flag(present, coins) == IF present THEN coins ELSE 0
    IN  flag(item.recomb, table.recomb) + flag(item.aow, table.aow)
        + flag(item.reforge # None, table.reforge) + flag(item.rune # None, table.rune)
        + flag(item.dye # None, table.dye) + table.potato * item.potato
        + table.scroll * Cardinality(item.scrolls)
        + flag(item.pet # None /\ item.pet.held # None, table.held)

\* build_context: the fields a rule may test.
Context(item, table, estimate) ==
    LET enchants == EnchantWorths(item, table)
        pet(field) == IF item.pet = None THEN None ELSE item.pet[field]
        petSkin == SkinWorth(table, pet("skin"))
    IN  [rarity |-> item.rarity, is_pet |-> item.pet # None, has_skin |-> item.skin # None,
         has_dye |-> item.dye # None, skin |-> item.skin, dye |-> item.dye,
         reforge |-> item.reforge, stars |-> item.stars, hot_potato |-> item.potato,
         recombobulated |-> item.recomb, art_of_war |-> item.aow,
         gem_count |-> Total(item.gems), enchantments |-> {e[1] : e \in item.enchants},
         attributes |-> {a[1] : a \in item.attributes},
         ability_scroll_count |-> Cardinality(item.scrolls),
         pet_level |-> pet("level"), pet_level_is_exact |-> pet("exact"),
         pet_candy |-> pet("candy"), pet_held_item |-> pet("held"), pet_skin |-> pet("skin"),
         top_enchant_value |-> FoldFunction(Most, 0, enchants),
         enchant_value_total |-> Total(enchants),
         attribute_value_total |-> Total(AttributeWorths(item, table)),
         gem_value_total |-> Total(GemWorths(item, table)),
         star_value |-> StarWorth(table, item.stars),
         skin_value |-> SkinWorth(table, item.skin), pet_skin_value |-> petSkin,
         modifier_value_total |->
             Total(enchants) + Total(AttributeWorths(item, table))
             + Total(GemWorths(item, table)) + StarWorth(table, item.stars)
             + SkinWorth(table, item.skin) + petSkin + Extras(item, table),
         estimate |-> estimate]

MapFields == {"enchantments", "attributes"}

\* _compare: an absent field matches nothing but `exists: false`, and a map
\* with nothing in it counts as absent.
Holds(c, context) ==
    LET value == context[c.field]
        absent == value = None
    IN  CASE c.op = "exists" ->
                 c.expected = (~absent /\ (c.field \in MapFields => value # {}))
          [] c.op = "eq" -> ~absent /\ value = c.expected
          [] c.op = "ne" -> ~absent /\ value # c.expected
          [] c.op = "lt" -> ~absent /\ value < c.expected
          [] c.op = "lte" -> ~absent /\ value <= c.expected
          [] c.op = "gt" -> ~absent /\ value > c.expected
          [] c.op = "gte" -> ~absent /\ value >= c.expected
          [] c.op = "in" -> ~absent /\ value \in c.expected
          [] c.op = "not_in" -> ~absent /\ value \notin c.expected
          [] c.op = "contains" -> c.expected \in value

Matches(rule, context) == rule.enabled /\ \A c \in rule.when : Holds(c, context)
-----------------------------------------------------------------------------
GemQualities == <<"ROUGH", "FLAWED", "FINE", "FLAWLESS", "PERFECT">>
GemAtLeast(q, cut) == Position(GemQualities, q) >= Position(GemQualities, cut)

\* One rewrite of a signature; None stands for the word "none".
Rewrite(item, change, table) ==
    LET field == change[1]
        value == change[2]
    IN  CASE field \in {"pet_level", "pet_candy", "pet_skin"} /\ item.pet = None -> item
          [] field = "pet_level" -> [item EXCEPT !.pet.level = value, !.pet.exact = TRUE]
          [] field = "pet_candy" -> [item EXCEPT !.pet.candy = value]
          [] field = "pet_skin" -> [item EXCEPT !.pet.skin = value]
          [] field = "stars" -> [item EXCEPT !.stars = value]
          [] field = "hot_potato" -> [item EXCEPT !.potato = value]
          [] field = "recombobulated" -> [item EXCEPT !.recomb = value]
          [] field = "reforge" -> [item EXCEPT !.reforge = value]
          [] field = "skin" -> [item EXCEPT !.skin = value]
          [] field = "dye" -> [item EXCEPT !.dye = value]
          [] field = "rarity" -> [item EXCEPT !.rarity = value]
          [] field = "drop_enchants_below" ->
                 [item EXCEPT !.enchants =
                     {e \in @ : EnchantValue(table, e[1], e[2]) >= value}]
          [] field = "drop_attributes_below" ->
                 [item EXCEPT !.attributes =
                     {a \in @ : table.attribute * 2 ^ Most(0, a[2] - 1) >= value}]
          [] field = "drop_gems_below" ->
                 [item EXCEPT !.gems = [q \in {q \in DOMAIN @ : GemAtLeast(q, value)} |-> @[q]]]
          [] field = "gems" -> [item EXCEPT !.gems = [q \in {} |-> 0]]

\* A rule rewrites different fields, so the order of its rewrites is free.
RewriteAll(item, changes, table) ==
    FoldSet(LAMBDA change, acc : Rewrite(acc, change, table), item, changes)

\* RuleEngine.normalise: before the item is valued.  A later rule sees the
\* item as the earlier ones left it.
NormaliseBy(acc, rule, table) ==
    LET item == acc.item
        updated == RewriteAll(item, rule.normalise, table)
    IN  IF acc.stopped \/ rule.normalise = {} \/ ~Matches(rule, Context(item, table, None))
        THEN acc
        ELSE [item |-> updated, stopped |-> rule.stop]
Normalise(rules, item, table) ==
    FoldLeft(LAMBDA acc, rule : NormaliseBy(acc, rule, table),
             [item |-> item, stopped |-> FALSE], rules).item
-----------------------------------------------------------------------------
\* Decision: what the rules that fired do together.  `by` names the first
\* rule that set the offer.
Undecided == [offer |-> None, by |-> None, cap |-> None, excluded |-> FALSE,
              stopped |-> FALSE]

\* Mutant of Lower: the first cap wins, as the first offer does.
LowerFirst(cap, other) == IF cap = None THEN other ELSE cap
Lower(cap, other) == IF cap = None \/ other < cap THEN other ELSE cap

\* One rule of RuleEngine.evaluate: the first offer and the lowest cap win.
\* A rule that changed nothing does not stop the others.
Decide(decision, rule, name) ==
    LET offers == rule.offer # None /\ decision.offer = None
        caps == rule.cap # None /\ Lower(decision.cap, rule.cap) # decision.cap
        excludes == rule.exclude /\ ~decision.excluded
    IN  [offer |-> IF offers THEN rule.offer ELSE decision.offer,
         by |-> IF offers THEN name ELSE decision.by,
         cap |-> IF caps THEN rule.cap ELSE decision.cap,
         excluded |-> decision.excluded \/ rule.exclude,
         stopped |-> rule.stop /\ (offers \/ caps \/ excludes \/ rule.note)]

Ask(decision, rule, name, context) ==
    IF decision.stopped \/ ~Matches(rule, context) THEN decision
    ELSE Decide(decision, rule, name)

\* What has been decided after each rule.
DecidedUpTo(rules, context) ==
    LET upTo[n \in 0..Len(rules)] ==
            IF n = 0 THEN Undecided ELSE Ask(upTo[n - 1], rules[n], n, context)
    IN  upTo
Evaluate(rules, item, table, estimate) ==
    DecidedUpTo(rules, Context(item, table, estimate))[Len(rules)]
=============================================================================
