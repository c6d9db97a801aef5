------------------------- MODULE MCCrossShardCommit -------------------------
(* Instances of CrossShardCommit for TLC: two accounts in the first shard, *)
(* one in the second that does not exist at the start.                     *)
EXTENDS CrossShardCommit, TLC

CONSTANTS a1, a2, b1

MCAccount == {a1, a2, b1}
MCHome == (a1 :> 1) @@ (a2 :> 1) @@ (b1 :> 2)
MCGenesis == (a1 :> 2) @@ (a2 :> 0)
Transfer(f, t, amt, n) == [from |-> f, to |-> t, amount |-> amt, nonce |-> n]

(* Two transfers that compete for nonce 0 of a1, their successor, a        *)
(* same-shard rival and the way back.                                      *)
MCTx == {Transfer(a1, b1, 1, 0), Transfer(a1, b1, 2, 0),
         Transfer(a1, b1, 1, 1), Transfer(a1, a2, 1, 0),
         Transfer(b1, a2, 1, 0)}
=============================================================================
