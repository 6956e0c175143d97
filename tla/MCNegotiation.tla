--------------------------- MODULE MCNegotiation ---------------------------
(***************************************************************************)
(* Small instances of Negotiation for TLC.                                 *)
(***************************************************************************)
EXTENDS Negotiation, TLC

MCClaimTax   == [a \in Amounts |-> a]
MCOperations == SessionEvents \cup {"ITEM_ACQUIRED", "VALUATION_RECORDED", "CLEAR"}

\* A database of an older build that was killed with an offer on the table.
MCLegacyLogs ==
    {<<[type |-> "SESSION_STARTED", payload |-> [NoPayload EXCEPT !.session = s]],
       [type |-> "OFFER_MADE", payload |-> [NoPayload EXCEPT !.session = s, !.offer = o]]>> :
         s \in Sessions, o \in Offers}

MCSymmetry   == Permutations(Keys) \cup Permutations(Sessions) \cup Permutations(Offers)
                  \cup Permutations(Items)

=============================================================================
