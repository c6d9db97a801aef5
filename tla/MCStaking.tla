------------------------------ MODULE MCStaking ------------------------------
(* Instances of Staking for TLC. *)
EXTENDS Staking, TLC

CONSTANTS d1, d2, v1, v2, j1, j2

MCFunds == (d1 :> 3) @@ (d2 :> 1)
MCConsensusStake == v1 :> 2
Symmetric == Permutations({j1, j2})
=============================================================================
