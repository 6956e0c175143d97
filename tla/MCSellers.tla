------------------------------ MODULE MCSellers -----------------------------
(***************************************************************************)
(* Sellers.tla for TLC.                                                    *)
(***************************************************************************)
EXTENDS Sellers

CONSTANTS a, b, c, x, y

\* Two listings of one seller, and two of others.
MCListings == {a, b, c}
MCSellers  == {x, y}
MCSellerOf == [l \in MCListings |-> CASE l = a -> x [] l = b -> y [] l = c -> None]

=============================================================================
