------------------------------ MODULE MCCoflnet -----------------------------
(***************************************************************************)
(* A small instance of Coflnet: one caller asks for an analysis of two     *)
(* windows, the other for the same or for the sales.                       *)
(***************************************************************************)
EXTENDS Coflnet, TLC

CONSTANTS Prefetch, Item, Week, Day

MCCallers   == {Prefetch, Item}
MCQuestions == (Prefetch :> {<<Week, Day>>}) @@ (Item :> {<<Week, Day>>})
MCWindows   == {"burst", "minute"}
MCLimit     == [w \in MCWindows |-> IF w = "burst" THEN 2 ELSE 3]
MCSpan      == [w \in MCWindows |-> IF w = "burst" THEN 2 ELSE 4]
MCBackoffs  == <<1, 2>>

=============================================================================
