------------------------------ MODULE MCFailover ------------------------------
(***************************************************************************)
(* One restaurant, one slot, a few HTTP requests through the gateway.      *)
(***************************************************************************)
EXTENDS Failover, TLC

CONSTANTS p1, b1, t1, d1, h1, h2, h3, h4

MCNode == {p1, b1}
MCBackupMap == p1 :> b1
MCConnection == Http \X Attempt
MCSymmetry == Permutations(Http)
===============================================================================
