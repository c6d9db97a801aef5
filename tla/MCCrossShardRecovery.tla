------------------------ MODULE MCCrossShardRecovery ------------------------
(* Instances of CrossShardRecovery for TLC: one account in each shard.     *)
EXTENDS CrossShardRecovery

CONSTANTS a, b

MCAccount == {a, b}
MCHome == (a :> 1) @@ (b :> 2)
MCGenesis == (a :> 2) @@ (b :> 1)
Transfer(f, t, amt, n) == [from |-> f, to |-> t, amount |-> amt, nonce |-> n]

(* Two transfers of a in nonce order, one of b that needs the first, and a *)
(* same-shard transfer of a to itself.                                     *)
MCTx == {Transfer(a, b, 1, 0), Transfer(a, b, 1, 1), Transfer(b, a, 2, 0),
         Transfer(a, a, 1, 0)}
=============================================================================
