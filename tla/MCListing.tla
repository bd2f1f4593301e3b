------------------------------ MODULE MCListing ------------------------------
(***************************************************************************)
(* Three keys: one that stays, one removed and one inserted while it is    *)
(* listed; writes enough for the dictionary to have holes beforehand.      *)
(***************************************************************************)
EXTENDS Listing, TLC

CONSTANTS k1, k2, k3

MCSymmetry == Permutations(Key)
==============================================================================
