---------------------------- MODULE MCClientFlows ----------------------------
(***************************************************************************)
(* A small and a large table, two times, parties for either.               *)
(***************************************************************************)
EXTENDS ClientFlows, TLC

CONSTANTS small, large, noon, eve, ann, bob, cat, dan

MCCapacity == small :> 2 @@ large :> 4
MCSymmetry == Permutations(Client \ Editor)
==============================================================================
