---------------------------- MODULE MCTwoFactor ----------------------------
(* Instances of TwoFactor for TLC. *)
EXTENDS TwoFactor, TLC

CONSTANTS c1, c2

Symmetric == Permutations({c1, c2})
=============================================================================
