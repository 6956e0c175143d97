----------------------------- MODULE MCAppraisal ---------------------------
(***************************************************************************)
(* A small instance of Appraisal.  One coin stands for 100,000.            *)
(***************************************************************************)
EXTENDS Appraisal

MCBuiltin ==
    [ultimate |-> [chimera |-> 1200, duplex |-> 200],
     top |-> [sharpness |-> [coins |-> 600, level |-> 7, decay |-> 6]],
     common |-> 4, floor |-> 150, discount |-> 0,
     attribute |-> 3, essence |-> 20, master |-> <<300, 600, 1200, 2500, 5000>>,
     gems |-> [PERFECT |-> 80, FLAWLESS |-> 15, FINE |-> 2, FLAWED |-> 0, ROUGH |-> 0],
     level |-> 2, held |-> 100, skin |-> 500, skins |-> [dragon |-> 40],
     recomb |-> 120, reforge |-> 30, potato |-> 1, fuming |-> 12, aow |-> 50,
     dye |-> 2000, rune |-> 20, scroll |-> 800]
MCKeyOrder == <<"chimera", "duplex", "first", "second", "sharpness">>

Bare == [rarity |-> "LEGENDARY", enchants |-> {}, attributes |-> {}, stars |-> 0,
         potato |-> 0, gems |-> [q \in {} |-> 0], recomb |-> FALSE, aow |-> FALSE,
         reforge |-> None, skin |-> None, dye |-> None, rune |-> None, pet |-> None,
         scrolls |-> {}]
Sword == [Bare EXCEPT !.enchants = {<<"chimera", 5>>, <<"duplex", 5>>},
                      !.skin = "katana", !.scrolls = {"first"}]
Dragon == [Bare EXCEPT !.pet = [level |-> 100, exact |-> TRUE, held |-> "shelmet",
                                skin |-> "dragon", candy |-> 2]]
Boots == [Bare EXCEPT !.stars = 6, !.gems = [PERFECT |-> 2, ROUGH |-> 1],
                      !.reforge = "ancient", !.attributes = {<<"mana", 2>>}]
MCItems == {Sword, Dragon, Boots}

MCTables == {MCBuiltin, [MCBuiltin EXCEPT !.discount = 10, !.floor = 700, !.recomb = 90]}

\* What was sold: like one of the items, or with some of it missing.
For(sale, coins) == sale @@ [price |-> coins]
Sales == <<For([Dragon EXCEPT !.pet.level = None, !.pet.candy = 0], 900),
           For([Dragon EXCEPT !.pet.level = 94], 3000),
           For(Sword, 8000),
           For([Sword EXCEPT !.scrolls = {}], 6000),
           For([Boots EXCEPT !.stars = 5], 2000)>>
Sold(i, j, k) == <<Sales[i], Sales[j], Sales[k]>>
MCMarkets == {Sold(1, 1, 5), Sold(1, 2, 2), Sold(2, 2, 3), Sold(3, 3, 4), Sold(3, 4, 4),
              Sold(4, 4, 1), Sold(5, 5, 3), Sold(2, 3, 5)}
MCBooks == {<<90, 50, 150, 7000>>}
MCAnalyses == {[median |-> 3500, liquidity |-> 60, risk |-> 150]}

Rule == [enabled |-> TRUE, when |-> {}, offer |-> None, cap |-> None, exclude |-> FALSE,
         normalise |-> {}, note |-> FALSE, stop |-> FALSE]
If(field, op, expected) == [field |-> field, op |-> op, expected |-> expected]
MCRuleSets ==
    {<<[Rule EXCEPT !.when = {If("pet_skin_value", "lt", 500)},
                    !.normalise = {<<"pet_skin", None>>}, !.note = TRUE],
       [Rule EXCEPT !.when = {If("top_enchant_value", "gt", 0)},
                    !.normalise = {<<"drop_enchants_below", 100>>}],
       [Rule EXCEPT !.when = {If("has_skin", "eq", TRUE)}, !.offer = 1150],
       [Rule EXCEPT !.when = {If("estimate", "gte", 3000)}, !.cap = 3000],
       [Rule EXCEPT !.when = {If("stars", "in", {5, 6}), If("rarity", "ne", "EPIC")},
                    !.offer = 2200, !.cap = 2500, !.stop = TRUE],
       [Rule EXCEPT !.when = {If("pet_candy", "gt", 0)}, !.exclude = TRUE]>>,
     <<[Rule EXCEPT !.when = {If("modifier_value_total", "gt", 400)}, !.cap = 5000],
       [Rule EXCEPT !.when = {If("pet_level", "lte", 100), If("is_pet", "eq", TRUE)},
                    !.normalise = {<<"pet_level", 1>>, <<"pet_candy", 0>>}, !.stop = TRUE],
       [Rule EXCEPT !.when = {If("attributes", "exists", TRUE)},
                    !.normalise = {<<"drop_gems_below", "FINE">>}],
       [Rule EXCEPT !.when = {If("enchantments", "contains", "chimera")}, !.offer = 900,
                    !.cap = 4000, !.exclude = TRUE]>>}
MCCurves == {[enough |-> TRUE, steep |-> 5], [enough |-> FALSE, steep |-> 5]}
MCTiers == <<[upper |-> 99, bp |-> 100], [upper |-> 1000, bp |-> 200],
             [upper |-> None, bp |-> 250]>>
=============================================================================
