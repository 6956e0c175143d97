------------------------------ MODULE RuleBook ------------------------------
(***************************************************************************)
(* The rules: the YAML file (rules/loader.py), the list of the Config tab  *)
(* (ui/views/config.py), the dialog that edits one rule                    *)
(* (ui/dialogs/rule_editor.py) and the engine the valuations ask           *)
(* (controller.py).  All of it runs on the GUI thread; the user may also   *)
(* edit the file by hand at any moment.                                    *)
(*                                                                         *)
(* A rule is [name, priority, enabled, when, pct]: `when` is the sequence  *)
(* of its conditions and `pct` stands for its action, a discount in basis  *)
(* points.  A name is a non-empty sequence of numbers, so that the copy of *)
(* a copy can be named.  A condition is [field, op, value, many], `many`   *)
(* telling a list from a bare value.                                       *)
(***************************************************************************)
EXTENDS Integers, Sequences, FiniteSets, SequencesExt

CONSTANTS
    Shipped,    \* the rules of defaults.yaml
    HandFiles,  \* what a user may leave in the file by hand
    Sheets,     \* what a user may enter in the dialog
    MaxRules    \* bound: the longest list

VARIABLES
    file,       \* Absent, Unreadable, or the sequence of the file's entries
    engine,     \* the rules the valuations are judged by
    list,       \* the rules on screen
    dirty       \* whether the list was edited since it was read or written

ruleVars == <<file, engine, list, dirty>>

Absent == [kind |-> "absent"]
Unreadable == [kind |-> "unreadable"]
Entries(rules) == [kind |-> "rules", rules |-> rules]

\* A rule of a list, or an entry of a file; a list of either; a list the engine would take.
IsRule(r) == /\ DOMAIN r = {"name", "priority", "enabled", "when", "pct"}
             /\ r.name \in Seq(Nat) /\ r.priority \in Int /\ r.pct \in Int
AreRules(rules) == /\ rules \in Seq({rules[i] : i \in DOMAIN rules})
                   /\ \A i \in DOMAIN rules : IsRule(rules[i])
Discounts == 0..9500
InRange(r) == r.pct \in Discounts
NamesDiffer(rules) == \A i, j \in DOMAIN rules : rules[i].name = rules[j].name => i = j
Sound(rules) == /\ AreRules(rules)
                /\ \A i \in DOMAIN rules : InRange(rules[i])
                /\ NamesDiffer(rules)

\* The rules that are shipped can be read; a file has entries, right or wrong, or cannot be
\* parsed; a sheet has a name and two numbers.
ASSUME RulesAssumption ==
    /\ Sound(Shipped)
    /\ \A content \in HandFiles :
           \/ content \in {Absent, Unreadable}
           \/ content = Entries(content.rules) /\ AreRules(content.rules)
    /\ \A sheet \in Sheets :
           sheet.name \in Seq(Nat) /\ sheet.priority \in Int /\ sheet.percent \in Nat
-----------------------------------------------------------------------------
\* The kinds of field of the catalogue, one field of each.
KindOf(field) == CASE field = "worth" -> "coins"
                   [] field = "count" -> "number"
                   [] field = "is_pet" -> "boolean"
                   [] OTHER -> "text"

\* The priority first, then the name.
NameBefore(a, b) ==
    \/ IsStrictPrefix(a, b)
    \/ \E i \in 1..Len(a) : i <= Len(b) /\ a[i] < b[i] /\ \A j \in 1..(i - 1) : a[j] = b[j]
Before(r, s) == \/ r.priority < s.priority
                \/ r.priority = s.priority /\ NameBefore(r.name, s.name)
\* Where a rule goes: behind those before it, and behind its equals that precede it.
Rank(rules, i) ==
    Cardinality({j \in DOMAIN rules : \/ Before(rules[j], rules[i])
                                      \/ j <= i /\ ~ Before(rules[i], rules[j])})
Sorted(rules) == [n \in DOMAIN rules |-> rules[CHOOSE i \in DOMAIN rules : Rank(rules, i) = n]]

(***************************************************************************)
(* Reading.  A file is taken whole or not at all: one entry in error, and  *)
(* two rules of one name are an error, refuses it.  A number above 1 is a  *)
(* percentage and any other a fraction; `written` is the number in units   *)
(* of 1/10000, the result is in basis points.                              *)
(***************************************************************************)
PctRead(written) == IF written > 10000 THEN written \div 100 ELSE written
Sane(entry) == PctRead(entry.pct) \in Discounts
NamesOf(rules) == {rules[i].name : i \in DOMAIN rules}
Readable(content) == \/ content = Absent
                     \/ /\ content.kind = "rules"
                        /\ \A i \in DOMAIN content.rules : Sane(content.rules[i])
                        /\ Cardinality(NamesOf(content.rules)) = Len(content.rules)
RuleRead(entry) == [entry EXCEPT !.pct = PctRead(entry.pct), !.when = SetToSeq(entry.when)]
LoadRules(content) ==
    IF content = Absent THEN Shipped
    ELSE [i \in DOMAIN content.rules |-> RuleRead(content.rules[i])]

\* Mutant of EngineRules: the entries in error are left out and the others applied.
EngineRulesPartly(content) ==
    IF content = Absent THEN Shipped
    ELSE IF content = Unreadable THEN <<>>
    ELSE LoadRules(Entries(SelectSeq(content.rules, Sane)))

\* What the engine gets: a file in error leaves it without a rule.
EngineRules(content) == IF Readable(content) THEN LoadRules(content) ELSE <<>>

(***************************************************************************)
(* Writing.  A discount is written as a percentage.  The conditions of a   *)
(* rule become a mapping: a bare value replaces what the field had, an     *)
(* operator joins the field's operators, and raises when the field already *)
(* has a bare value.                                                       *)
(***************************************************************************)
PctWritten(pct) == 100 * pct
Bare(when, field) == \E c \in when : c.field = field /\ c.op = "eq"
Put(when, c) ==
    IF c.op = "eq" THEN {d \in when : d.field # c.field} \cup {c}
    ELSE {d \in when : d.field # c.field \/ d.op # c.op} \cup {c}
WhenWritten(conditions) == FoldLeft(Put, {}, conditions)
Writable(rule) ==
    \A i \in DOMAIN rule.when :
        rule.when[i].op # "eq"
            => ~Bare(WhenWritten(SubSeq(rule.when, 1, i - 1)), rule.when[i].field)
DumpRules(rules) ==
    Entries([i \in DOMAIN rules |->
        [Sorted(rules)[i] EXCEPT !.when = WhenWritten(@), !.pct = PctWritten(@)]])
-----------------------------------------------------------------------------
(***************************************************************************)
(* The dialog.  A row holds a text; an amount that cannot be read and an   *)
(* empty text give no condition, an amount under "in" stays one number.    *)
(***************************************************************************)
Entered(row) == row.value \notin {"", "typo"}
ConditionOf(row) ==
    CASE row.op = "exists" -> <<[row EXCEPT !.value = "yes"]>>
      [] ~Entered(row) -> <<>>
      [] row.op = "in" /\ KindOf(row.field) = "text" -> <<[row EXCEPT !.many = TRUE]>>
      [] OTHER -> <<row>>

\* The row an existing condition is shown in: a list shows as Python prints it.
RowOf(c) == IF c.many THEN [c EXCEPT !.value = "printed list", !.many = FALSE] ELSE c
\* A list in the field of a number or of an amount raises while the row is built.
Opens(rule) == \A i \in DOMAIN rule.when :
                  ~(rule.when[i].many /\ KindOf(rule.when[i].field) \in {"number", "coins"})

\* Whole percents, and twenty for a rule that offers the estimate itself.
PctShown(pct) == IF pct = 0 THEN 20 ELSE (pct + 50) \div 100
SheetOf(rule) == [name |-> rule.name, priority |-> rule.priority, enabled |-> rule.enabled,
                  rows |-> [i \in DOMAIN rule.when |-> RowOf(rule.when[i])],
                  percent |-> PctShown(rule.pct)]

PctEntered(sheet) == PctRead(10000 * sheet.percent)
Accepted(sheet, taken) ==
    /\ sheet.name \notin taken
    /\ PctEntered(sheet) \in Discounts
RuleOf(sheet) == [name |-> sheet.name, priority |-> sheet.priority, enabled |-> sheet.enabled,
                  when |-> FlattenSeq([i \in DOMAIN sheet.rows |-> ConditionOf(sheet.rows[i])]),
                  pct |-> PctEntered(sheet)]

\* Mutant of CopyName: the name of a copy is not checked.
CopyNameOnce(name, taken) == Append(name, 1)

\* "x (copy)", "x (copy 2)", ...: the first that is free.
CopyName(name, taken) ==
    Append(name, CHOOSE k \in 1..(Cardinality(taken) + 1) :
                     /\ Append(name, k) \notin taken
                     /\ \A j \in 1..(k - 1) : Append(name, j) \in taken)
-----------------------------------------------------------------------------
\* The process starts: the engine and the list each read the file.
RulesStart(content) ==
    /\ engine' = EngineRules(content)
    /\ list' = Sorted(EngineRules(content))
    /\ dirty' = FALSE

Edited(rules) == list' = Sorted(rules) /\ dirty' = TRUE /\ UNCHANGED <<file, engine>>

\* Reload from disk: a file in error leaves the list as it is.
Reload ==
    /\ Readable(file)
    /\ list' = Sorted(LoadRules(file))
    /\ dirty' = FALSE
    /\ UNCHANGED <<file, engine>>

RestoreDefaults == Edited(Shipped)

New == \E sheet \in Sheets :
           /\ Len(list) < MaxRules
           /\ Accepted(sheet, NamesOf(list))
           /\ Edited(Append(list, RuleOf(sheet)))

\* The dialog of rule i closes, with new contents or as it was opened.
Edit(i) ==
    /\ Opens(list[i])
    /\ \E sheet \in Sheets \cup {SheetOf(list[i])} :
           /\ Accepted(sheet, NamesOf(list) \ {list[i].name})
           /\ Edited([list EXCEPT ![i] = RuleOf(sheet)])

Duplicate(i) ==
    /\ Len(list) < MaxRules
    /\ Edited(Append(list, [list[i] EXCEPT !.name = CopyName(@, NamesOf(list))]))

Delete(i) == Edited(RemoveAt(list, i))

Toggle(i) == Edited([list EXCEPT ![i].enabled = ~@])

\* Save and apply: write the file, then the engine reads it back.
SaveRules ==
    /\ \A i \in DOMAIN list : Writable(list[i])
    /\ file' = DumpRules(list)
    /\ engine' = EngineRules(file')
    /\ dirty' = FALSE
    /\ UNCHANGED list

\* Ctrl+R: the engine reads the file, the list does not.
ReloadRules == engine' = EngineRules(file) /\ UNCHANGED <<file, list, dirty>>

\* The user edits the file beside the application.
HandEdit == \E content \in HandFiles : file' = content /\ UNCHANGED <<engine, list, dirty>>

RestartRules == RulesStart(file) /\ UNCHANGED file

\* The first start finds no file.
RulesInit ==
    /\ file = Absent
    /\ engine = Shipped
    /\ list = Sorted(Shipped)
    /\ dirty = FALSE

RulesStep ==
    \/ Reload \/ RestoreDefaults \/ New \/ SaveRules \/ ReloadRules
    \/ \E i \in DOMAIN list : Edit(i) \/ Duplicate(i) \/ Delete(i) \/ Toggle(i)
-----------------------------------------------------------------------------
(***************************************************************************)
(* Properties.                                                             *)
(***************************************************************************)

\* The engine gets every rule of a file or none of them (loader.py: "Half a
\* rule set is worse than none"), whoever wrote the file and whichever way it
\* is read: Save and apply, Ctrl+R or a start.
WholeFileOrNothing ==
    [][engine' # engine => engine' = <<>> \/ file' = Absent \/ Len(engine') = Len(file'.rules)]_ruleVars

\* What the application writes it can read: no sequence of new, edited, copied,
\* toggled and restored rules and no hand-edited file makes a save that leaves
\* the engine without the rules on the screen.  The exception is a discount of
\* 1% or less, which is written as a number that reads as a fraction.
SaveKeepsProtection ==
    [][SaveRules /\ (\A i \in DOMAIN list : list[i].pct \notin 1..100)
           => NamesOf(engine') = NamesOf(list)]_ruleVars

=============================================================================
