----------------------------- MODULE MCTradeFeed ----------------------------
(***************************************************************************)
(* Two chests that the server gave the same container id, and trades:    *)
(* a purchase and a gift.                                                  *)
(***************************************************************************)
EXTENDS TradeFeed, TLC

CONSTANTS Chest, OtherChest, Sword, SameSword, LongSword, Junk

MCScreens   == {Chest, OtherChest}
MCScreenId  == [s \in MCScreens |-> "7:Chest"]
MCContent   == (Chest :> <<Sword, SameSword>>) @@ (OtherChest :> <<LongSword, Junk>>)
MCEncodes   == {Sword, SameSword, LongSword, Junk}
MCSignature == (Sword :> "sword") @@ (SameSword :> "sword") @@ (LongSword :> "long sword")
               @@ (Junk :> None)
MCNameOf    == [s \in {"sword", "long sword"} |-> s]
MCWithin    == {<<"sword", "sword">>, <<"sword", "long sword">>, <<"long sword", "long sword">>}

Line(sign, what, count) == [sign |-> sign, what |-> what, count |-> count]
MCTrades ==
    {[who |-> "Ann", lines |-> <<Line("+", "sword", 1), Line("-", Coins, 3)>>],
     [who |-> "Bob", lines |-> <<Line("+", "long sword", 1)>>]}

=============================================================================
