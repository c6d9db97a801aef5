-------------------------- MODULE MCWalletSession --------------------------
(* Instances of WalletSession for TLC. *)
EXTENDS WalletSession

CONSTANTS p1, p2, c1, c2, w1, w2, w3
=============================================================================
