---------------------------- MODULE SettingsForm ----------------------------
(***************************************************************************)
(* The settings: settings.yaml (config.py), the start (__main__.py), the   *)
(* form of the Config tab (ui/views/config.py).  Of the settings the form  *)
(* has, four stand for the rest: the port, which the command line may set  *)
(* too; the comparables needed, a spin box; the margin, shown in whole     *)
(* percents; and the hourly return, typed as text.  The others are the     *)
(* tags to warm up, the data directory and the path of the rules, which    *)
(* only the file and the command line set.  Margins are in 1/1000, coins   *)
(* in thousands.                                                           *)
(***************************************************************************)
EXTENDS Integers

CONSTANTS
    Dirs, Home,    \* data directories, and the one a start looks into
    HandSettings,  \* what a user may leave in a settings.yaml by hand, Missing included
    Starts,        \* command lines: [dir, port, prefetch]
    Unset,         \* what a command line or a file does not say
    Ports, Comparables, Percents,  \* what the spin boxes may be set to
    Amounts        \* what may be typed as the hourly return, "typo" included

ASSUME HomeAssumption == Home \in Dirs

VARIABLES
    files,         \* the settings.yaml of each directory: some settings, Missing or Garbled
    settings,      \* controller.settings
    widgets,       \* what the form shows
    astray         \* history: the settings that a start need not bring back, and why below

settingsVars == <<files, settings, widgets, astray>>

DefaultSettings == [port |-> 8765, min |-> 5, margin |-> 50, hourly |-> 2000,
                    tags |-> "none", dir |-> Home, rules |-> Unset]

Missing == [missing |-> TRUE]
\* A file that cannot be read: it sets nothing that anyone reads.
Garbled == [garbled |-> TRUE]

\* What the file does not say is as in the defaults.
LoadSettings(content) ==
    [key \in DOMAIN DefaultSettings |->
        IF key \in DOMAIN content THEN content[key] ELSE DefaultSettings[key]]

\* What save_settings writes of the settings: neither the directory nor the path.
Written(s) == [port |-> s.port, min |-> s.min, margin |-> s.margin, hourly |-> s.hourly,
               tags |-> s.tags]

\* Two decimals of the unit below a hundred millions, one from there to a billion.
FormatCoins(coins) == IF coins < 1000 THEN coins
                      ELSE IF coins < 100000 THEN ((coins + 5) \div 10) * 10
                      ELSE ((coins + 50) \div 100) * 100
Shown(s) == [port |-> s.port, min |-> s.min, percent |-> (s.margin + 5) \div 10,
             hourly |-> [amount |-> FormatCoins(s.hourly)]]
Typo == [typo |-> TRUE]
-----------------------------------------------------------------------------
Given(flag, otherwise) == IF flag = Unset THEN otherwise ELSE flag
Plain == [dir |-> Unset, port |-> Unset, prefetch |-> TRUE]

\* No tags mean the built-in ones, unless the command line says none.
Warmed(flags, tags) == IF ~flags.prefetch THEN "none" ELSE IF tags = "none" THEN "hot" ELSE tags

\* The file is looked for at home, whatever directory the command line names; the
\* command line goes over it.
Started(flags) ==
    [LoadSettings(files[Home]) EXCEPT
        !.dir = Given(flags.dir, @), !.port = Given(flags.port, @),
        !.tags = Warmed(flags, @)]

\* What is in force without the next start knowing of it: what the command line said,
Overridden(flags) == {key \in {"dir", "port"} : flags[key] # Unset}
                        \cup (IF flags.prefetch THEN {} ELSE {"tags"})
\* and, once home's file has been written, what that leaves out.
Unwritten(s) == (IF s.tags = "none" THEN {"tags"} ELSE {})
                    \cup (IF s.rules # Unset THEN {"rules"} ELSE {})

\* A directory without a file is given one.
SettingsStart(flags) ==
    LET s == Started(flags)
        first == files[s.dir] = Missing
    IN  /\ settings' = s
        /\ widgets' = Shown(s)
        /\ files' = IF first THEN [files EXCEPT ![s.dir] = Written(s)] ELSE files
        /\ astray' = IF first /\ s.dir = Home THEN Unwritten(s) ELSE Overridden(flags)

TypeSetting ==
    /\ \/ \E p \in Ports : widgets' = [widgets EXCEPT !.port = p]
       \/ \E m \in Comparables : widgets' = [widgets EXCEPT !.min = m]
       \/ \E q \in Percents : widgets' = [widgets EXCEPT !.percent = q]
       \/ \E t \in Amounts : widgets' = [widgets EXCEPT !.hourly = t]
    /\ UNCHANGED <<files, settings, astray>>

\* What Save settings makes of the boxes.
Applied == [settings EXCEPT !.port = widgets.port, !.min = widgets.min,
                            !.margin = 10 * widgets.percent]
WithAmount == [Applied EXCEPT !.hourly = widgets.hourly.amount]
Boxes == {"port", "min", "margin"}
\* After a save, home's file says what is in force or, elsewhere, is not touched.
AstrayOnceSaved == IF settings.dir = Home THEN Unwritten(settings)
                                          ELSE astray \cup Boxes \cup {"hourly"}
\* Mutant of SaveSettings: the file is written before the amount is read.
SaveSettingsEarly ==
    /\ files' = [files EXCEPT ![settings.dir] = Written(Applied)]
    /\ IF widgets.hourly = Typo
       THEN settings' = Applied /\ astray' = astray \cup Boxes
       ELSE settings' = WithAmount /\ astray' = AstrayOnceSaved
    /\ UNCHANGED widgets
\* The boxes are applied before the amount is read, and an amount that cannot
\* be read ends the save there.
SaveSettings ==
    /\ IF widgets.hourly = Typo
       THEN settings' = Applied /\ astray' = astray \cup Boxes /\ UNCHANGED files
       ELSE /\ settings' = WithAmount
            /\ files' = [files EXCEPT ![settings.dir] = Written(WithAmount)]
            /\ astray' = AstrayOnceSaved
    /\ UNCHANGED widgets

HandEditSettings ==
    \E d \in Dirs, content \in HandSettings :
        /\ files' = [files EXCEPT ![d] = content]
        /\ astray' = IF d = Home THEN DOMAIN settings ELSE astray
        /\ UNCHANGED <<settings, widgets>>

\* The first start writes out the defaults, with the tags that are built in.
SettingsInit ==
    /\ settings = [DefaultSettings EXCEPT !.tags = "hot"]
    /\ files = [d \in Dirs |-> IF d = Home THEN Written(settings) ELSE Missing]
    /\ widgets = Shown(settings)
    /\ astray = {}

SettingsStep == TypeSetting \/ SaveSettings
-----------------------------------------------------------------------------
(***************************************************************************)
(* Properties.                                                             *)
(***************************************************************************)

\* A plain start brings back the settings in force, whatever was typed, saved and started
\* before, but for the ones astray: those the command line had overridden; those a save
\* applied without writing them where a start looks (an amount that cannot be read ends
\* it half way, another data directory has a file of its own) or left out of that file
\* (the rules' path, tags switched off); and all of them once that file is edited by hand.
RestartChangesNothing ==
    \A key \in DOMAIN settings \ astray : Started(Plain)[key] = settings[key]
=============================================================================
