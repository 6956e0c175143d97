------------------------------ MODULE MCLedger ------------------------------
(***************************************************************************)
(* Small instances of Ledger for TLC.                                      *)
(***************************************************************************)
EXTENDS Ledger, TLC

MCClaimTax == [a \in Amounts |-> a]

\* A database of an older build: one item bought and sold, on the auction house
\* or to another player.
MCLegacyLogs ==
    LET bought(i)     == [type |-> "ITEM_ACQUIRED",
                          payload |-> [NoPayload EXCEPT !.item = i, !.amount = 1]]
        sold(type, i) == [type |-> type,
                          payload |-> [NoPayload EXCEPT !.item = i, !.amount = 2]]
    IN {<<bought(i), sold(type, i)>> : i \in Items,
                                       type \in {"ITEM_SOLD_AH", "ITEM_SOLD_PRIVATE"}}

MCPatches == {[k \in {"amount"} |-> 2], [k \in {"est"} |-> 1]}

MCItemOperations == {"ITEM_ACQUIRED", "ITEM_SOLD", "ITEM_KEPT", "EXIT_UNWOUND",
                     "VALUATION_RECORDED", "CORRECT", "CLEAR"}
MCChainOperations == {"SESSION_STARTED", "OFFER_MADE", "OFFER_REJECTED", "CORRECT"}

MCLedgerOperations == MCItemOperations \cup MCChainOperations

MCNegotiationSymmetry == Permutations(Sessions) \cup Permutations(Offers)

=============================================================================
