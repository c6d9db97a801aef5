----------------------------- MODULE WalletForms -----------------------------
(***************************************************************************)
(* What the wallet's forms compute: how an amount is shown and read back   *)
(* (core/wallet.ts), how a form checks it (core/security.ts and the        *)
(* screens), the text a signature is made over, and the text the node      *)
(* checks it against (sultan-core).                                        *)
(*                                                                         *)
(* An amount is counted in base units.  The text of an amount is a record: *)
(* its digits before and after the point, and whether it has commas.  The  *)
(* text of a message is the sequence of its keys.                          *)
(***************************************************************************)
EXTENDS Integers, Sequences

CONSTANTS
  Unit,   \* base units of one SLTN: 10^SULTAN_DECIMALS
  Group   \* numbers from here on are written with commas: 1000

ASSUME WalletFormsConstants == Unit \in Nat \ {0} /\ Group \in Nat \ {0, 1}

Text == [int: Nat, frac: 0 .. Unit - 1, commas: BOOLEAN]
Plain(x) == [int |-> x \div Unit, frac |-> x % Unit, commas |-> FALSE]
BaseUnits(t) == t.int * Unit + t.frac

---------------------------------------------------------------------------
(* Amounts. *)

(* What the digits of x % Unit mean when they are not padded to the left. *)
Unpadded[f \in Nat] == IF f = 0 \/ 10 * f >= Unit THEN f ELSE Unpadded[10 * f]

FormatSLTN_NoPad(x) ==
  [int |-> x \div Unit, frac |-> Unpadded[x % Unit], commas |-> x \div Unit >= Group]

FormatSLTN(x) ==
  [int |-> x \div Unit, frac |-> x % Unit, commas |-> x \div Unit >= Group]

(* The digits before the first comma. *)
Leading[n \in Nat] == IF n < Group THEN n ELSE Leading[n \div Group]

(* parseFloat stops at the first comma. *)
ParseFloat(t) == IF t.commas THEN Leading[t.int] * Unit ELSE BaseUnits(t)

(* Number() of a text with a comma is NaN, and NaN compares false: a test  *)
(* "a > b" succeeds only between numbers.                                  *)
Greater(t, u) == ~t.commas /\ ~u.commas /\ BaseUnits(t) > BaseUnits(u)

(* The format test refuses commas; both sides are then read by parseFloat. *)
ValidateAmount(amount, available) ==
  /\ ~amount.commas
  /\ ParseFloat(amount) > 0
  /\ ParseFloat(amount) <= ParseFloat(available)

---------------------------------------------------------------------------
(* Signed texts. *)

Alphabet == <<"amount", "from", "memo", "nonce", "timestamp", "to", "type", "validatorAddress">>

Fields(op) ==
  CASE op = "transfer" -> {"from", "to", "amount", "memo", "nonce", "timestamp"}
    [] op = "stake"    -> {"type", "from", "validatorAddress", "amount", "timestamp"}

(* signTransaction writes the keys in alphabetical order. *)
Signed(op) ==
  LET upTo[i \in 0 .. Len(Alphabet)] ==
        IF i = 0 THEN << >>
        ELSE IF Alphabet[i] \in Fields(op) THEN Append(upTo[i - 1], Alphabet[i])
        ELSE upTo[i - 1]
  IN  upTo[Len(Alphabet)]

(* The text the node rebuilds: for POST /tx and for POST /staking/delegate. *)
Rebuilt(op) ==
  IF op = "stake" THEN <<"from", "to", "amount", "delegate", "memo">>
  ELSE <<"from", "to", "amount", "memo", "nonce", "timestamp">>

Verifies(op) == Signed(op) = Rebuilt(op)

---------------------------------------------------------------------------
(* mapProposalStatus: an unknown status becomes a running vote. *)
MapProposalStatus(status) ==
  IF status \in {"DepositPeriod", "VotingPeriod", "Passed", "Rejected", "Failed", "Executed"}
  THEN status ELSE "VotingPeriod"
=============================================================================
