------------------------------ MODULE MCConfig ------------------------------
EXTENDS Config

Cond(field, op, value, many) == [field |-> field, op |-> op, value |-> value, many |-> many]
Worth == Cond("worth", "gt", "ten", FALSE)
Tag == Cond("tag", "eq", "hyperion", FALSE)
TagIn == Cond("tag", "in", "both", TRUE)

MCShipped == <<[name |-> <<1>>, priority |-> 1, enabled |-> TRUE, when |-> <<Worth>>, pct |-> 2500]>>
Entry(name, priority, when, pct) ==
    [name |-> name, priority |-> priority, enabled |-> TRUE, when |-> when, pct |-> pct]
MCHandFiles ==
    {Absent, Unreadable,
     Entries(<<Entry(<<2>>, 1, {TagIn}, 200000), Entry(<<1>>, 1, {Tag, Worth}, 100)>>),
     Entries(<<Entry(<<2>>, 1, {Tag}, 120000), Entry(<<2>>, 2, {}, 120000)>>),
     Entries(<<Entry(<<1>>, 2, {}, 120000), Entry(<<1, 1>>, 1, {Worth}, 999999)>>)}
MCSheets ==
    {[name |-> <<2>>, priority |-> 2, enabled |-> TRUE, percent |-> 20,
      rows |-> <<[Worth EXCEPT !.value = "typo"]>>],
     [name |-> <<1, 1>>, priority |-> 1, enabled |-> TRUE, percent |-> 1,
      rows |-> <<Tag>>],
     [name |-> <<1, 1>>, priority |-> 1, enabled |-> TRUE, percent |-> 12,
      rows |-> <<Tag, Cond("tag", "contains", "hyp", FALSE)>>],
     [name |-> <<3>>, priority |-> 1, enabled |-> FALSE, percent |-> 0,
      rows |-> <<Cond("tag", "in", "hyperion", FALSE), Cond("tag", "in", "terminator", FALSE)>>]}

NoLevels == [e \in {} |-> 0]
\* The defaults give "lore" a level of its own, and "book" that of the tier.
MCDefaultTable == [price |-> [book |-> 60, lore |-> 40, rune |-> 2],
                   level |-> [lore |-> 5], tier |-> 7]
RuneOnly == [price |-> [rune |-> 5], level |-> NoLevels]
BookAtSix == [price |-> [book |-> 50], level |-> [book |-> 6], tier |-> 8]
MCHandTables == {Spoilt, RuneOnly, BookAtSix}
Quote(price, level) == [e \in {"book"} |-> [price |-> price, level |-> level]]
MCQuotes == {Quote(90, 5), Quote(80, 7), NoLevels}

Saved(port, min, margin, hourly) ==
    [port |-> port, min |-> min, margin |-> margin, hourly |-> hourly]
MCHandSettings == {Missing, Garbled, [port |-> 9000, tags |-> "own", rules |-> "elsewhere"],
                   [dir |-> "elsewhere", margin |-> 60], Saved(9000, 3, 55, 2345)}
MCStarts == {[Plain EXCEPT !.dir = "elsewhere"], [Plain EXCEPT !.port = 9000, !.prefetch = FALSE]}
MCAmounts == {Typo, [amount |-> 3456]}
=============================================================================
