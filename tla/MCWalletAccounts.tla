--------------------------- MODULE MCWalletAccounts ---------------------------
(* An instance of WalletAccounts for TLC. *)
EXTENDS WalletAccounts, TLC

CONSTANTS h1, h2, h3, p1, p2, c1, c2

Symmetric == Permutations({h1, h2, h3}) \cup Permutations({p1, p2}) \cup Permutations({c1, c2})
=============================================================================
