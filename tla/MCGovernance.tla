---------------------------- MODULE MCGovernance ----------------------------
(* Instances of Governance for TLC. *)
EXTENDS Governance, TLC

CONSTANTS a1, a2, w1, w2, j1, j2

Proposed(k, params) == [kind |-> k, parameters |-> params]
MCContent ==
  {Proposed("ParameterChange", {"inflation_rate", "feature"}),
   Proposed("SoftwareUpgrade", {})}
MCSnapshot == {(a1 :> 2) @@ (a2 :> 0)}
Symmetric == Permutations({j1, j2}) \cup Permutations({w1, w2})
=============================================================================
