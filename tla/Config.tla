------------------------------- MODULE Config -------------------------------
(***************************************************************************)
(* The Config tab: the settings form, the rules editor and the pricing     *)
(* editor beside each other (ui/views/config.py, ConfigView), in a process *)
(* that may be restarted at any moment and over files that are also edited *)
(* by hand.                                                                *)
(***************************************************************************)
EXTENDS RuleBook, PriceBook, SettingsForm

CONSTANTS
    Tabs,      \* bound: the tabs the user may be on; he stays on the one he opens
    MaxTurns   \* bound: what the user does, over all starts

VARIABLES tab, turns

configVars == <<ruleVars, priceVars, settingsVars, tab, turns>>

User(t) == tab = t /\ turns < MaxTurns /\ turns' = turns + 1 /\ UNCHANGED tab

OnRules == User("rules") /\ (RulesStep \/ HandEdit) /\ UNCHANGED <<priceVars, settingsVars>>

OnPrices == /\ User("prices")
            /\ PricesStep \/ HandEditPrices
            /\ UNCHANGED <<ruleVars, settingsVars>>

OnSettings == /\ User("settings")
              /\ SettingsStep \/ HandEditSettings
              /\ UNCHANGED <<ruleVars, priceVars>>

\* The asyncio thread and the queued signal, whatever the user does.
Background == (FetchReturns \/ ShowReply) /\ UNCHANGED <<ruleVars, settingsVars, tab, turns>>

\* Closed, or killed, and started again: only the files survive.  Bound: a command line
\* is given on the settings tab only.  What rules.yaml and values.yaml of another
\* directory then change is what a hand edit before the restart changes on the other tabs.
Restart == /\ RestartRules /\ RestartPrices
           /\ \E flags \in {Plain} \cup (IF tab = "settings" THEN Starts ELSE {}) :
                 SettingsStart(flags)
           /\ UNCHANGED <<tab, turns>>

ConfigInit == RulesInit /\ PricesInit /\ SettingsInit /\ tab \in Tabs /\ turns = 0
ConfigNext == OnRules \/ OnPrices \/ OnSettings \/ Background \/ Restart

ConfigSpec == ConfigInit /\ [][ConfigNext]_configVars
=============================================================================
