--------------------------- MODULE TransferLedger ---------------------------
(***************************************************************************)
(* What the sharded ledger promises its users: an account ledger in which  *)
(* every transfer is one atomic step.  A transfer needs the funds, moves   *)
(* the amount whole and uses up exactly one nonce of the sender.           *)
(* Nothing else moves funds between accounts; deposits and withdrawals     *)
(* (staking, unstaking, rewards) change one account and no nonce.          *)
(* Which shard an account lives in, locks, logs, retries and aborted       *)
(* attempts are not visible here.                                          *)
(***************************************************************************)
EXTENDS Integers

CONSTANTS
  Account,
  Amount    \* the amounts one operation may move

VARIABLES
  bal,   \* balance of each account
  seq,   \* next nonce of each account
  net    \* deposits minus withdrawals

ledgerVars == <<bal, seq, net>>

(* The balances after moving amt from f to t; f = t leaves them alone. *)
Moved(f, t, amt) ==
  LET debited == [bal EXCEPT ![f] = @ - amt]
  IN  [debited EXCEPT ![t] = @ + amt]

Init ==
  /\ bal \in [Account -> Nat]
  /\ seq = [a \in Account |-> 0]
  /\ net = 0

Transfer(f, t, amt) ==
  /\ bal[f] >= amt
  /\ bal' = Moved(f, t, amt)
  /\ seq' = [seq EXCEPT ![f] = @ + 1]
  /\ UNCHANGED net

Deposit(a, amt) ==
  /\ bal' = [bal EXCEPT ![a] = @ + amt]
  /\ net' = net + amt
  /\ UNCHANGED seq

Withdraw(a, amt) ==
  /\ bal[a] >= amt
  /\ bal' = [bal EXCEPT ![a] = @ - amt]
  /\ net' = net - amt
  /\ UNCHANGED seq

Next ==
  \E a \in Account, amt \in Amount :
    \/ Deposit(a, amt)
    \/ Withdraw(a, amt)
    \/ \E t \in Account : Transfer(a, t, amt)

Spec == Init /\ [][Next]_ledgerVars
=============================================================================
