--------------------------- MODULE MCWalletRequests ---------------------------
(* An instance of WalletRequests: two decimals, commas from 10 SLTN on, and *)
(* an account below and one above that.                                     *)
EXTENDS WalletRequests

MCTyped == {60}
MCAccounts == {[balance |-> 105, status |-> "VotingPeriod"],
               [balance |-> 1250, status |-> "DiscussionPeriod"]}
=============================================================================
