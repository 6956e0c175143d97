------------------------------- MODULE MCBooks ------------------------------
(***************************************************************************)
(* Books.tla for TLC.                                                      *)
(***************************************************************************)
EXTENDS Books, TLC

\* Nobody has valued an item but by what it cost.
MCWorth    == [i \in Items |-> 1]
MCSymmetry == Permutations(Items)

=============================================================================
