---------------------------- MODULE TokenFactory ----------------------------
(***************************************************************************)
(* The token factory of sultan-core (token_factory.rs): tokens that their  *)
(* creators register, and the balances of their holders.                   *)
(*                                                                         *)
(* The metadata (tokens) and the balances have a lock each, and every call *)
(* lets go of the one before it takes the other: creating a token looks    *)
(* for its denom, stores the metadata and then sets the balance of the     *)
(* creator; minting raises the supply and then credits; burning debits and *)
(* then lowers the supply.  Other calls run between these steps.           *)
(*                                                                         *)
(* A definition X_Suffix is a faulty variant of X that the specification   *)
(* does not use; PROJECT.json names the property that tells them apart.    *)
(***************************************************************************)
EXTENDS Integers, FiniteSets, Functions

CONSTANTS
  Call,       \* calls that may be in progress at a time
  Address,    \* holders of tokens
  Denom,      \* denoms
  Creator,    \* the address each denom is created for
  Word,       \* 2^128, the first number that does not fit into a u128
  MinSupply,  \* min_initial_supply
  Supply,     \* supplies that create_token is asked for
  Limit,      \* max_supply of new tokens
  Amount,     \* amounts of requests
  MaxCalls,   \* bound on calls
  NoMax,      \* no max_supply
  NoToken,    \* no metadata
  Idle        \* no call in progress

U128 == 0 .. Word - 1

ASSUME FactoryConstants ==
  /\ IsFiniteSet(Call) /\ IsFiniteSet(Address) /\ IsFiniteSet(Denom)
  /\ Creator \in [Denom -> Address]
  /\ Word \in Nat \ {0}
  /\ MinSupply \in Nat /\ MaxCalls \in Nat
  /\ Supply \cup Amount \subseteq U128
  /\ Limit \subseteq U128 \cup {NoMax}

Token == [total: U128, max: U128 \cup {NoMax}]

(* What a call carries from its first step to the next ones. *)
FactoryCall == [at: {"register", "fund", "credit", "reduce"}, denom: Denom,
                holder: Address, amount: U128, max: U128 \cup {NoMax}]

ASSUME FactorySentinels ==
  /\ NoMax \notin Int
  /\ NoToken \notin Token
  /\ Idle \notin FactoryCall

VARIABLES
  tokens,     \* tokens: total_supply and max_supply of each denom
  balances,   \* balances
  calls,      \* calls in progress
  contested,  \* auxiliary: denoms whose metadata was stored over other metadata
  made        \* calls so far

factoryVars == <<tokens, balances, calls, contested, made>>

FactoryTypeOK ==
  /\ tokens \in [Denom -> Token \cup {NoToken}]
  /\ balances \in [Denom -> [Address -> U128]]
  /\ calls \in [Call -> FactoryCall \cup {Idle}]
  /\ contested \subseteq Denom
  /\ made \in 0 .. MaxCalls

FactoryInit ==
  /\ tokens = [d \in Denom |-> NoToken]
  /\ balances = [d \in Denom |-> [x \in Address |-> 0]]
  /\ calls = [c \in Call |-> Idle]
  /\ contested = {}
  /\ made = 0

Registered(d) == tokens[d] # NoToken
Within(n, max) == max # NoMax => n <= max

Doing(c, at) == calls[c] # Idle /\ calls[c].at = at
Goes(c, at, d, x, n, max) ==
  calls' = [calls EXCEPT ![c] = [at |-> at, denom |-> d, holder |-> x,
                                 amount |-> n, max |-> max]]
Ends(c) == calls' = [calls EXCEPT ![c] = Idle]

-----------------------------------------------------------------------------
(* The steps of a call, as the exchange makes them too.                    *)

(* A new token: the denom is looked for, then its metadata is stored, then *)
(* the balance of the creator is set, whatever it was.                     *)
Announce(c, d, n, max) ==
  /\ ~Registered(d)
  /\ Goes(c, "register", d, Creator[d], n, max)
  /\ UNCHANGED <<tokens, balances, contested>>

Register(c) ==
  /\ Doing(c, "register")
  /\ LET r == calls[c]
     IN  /\ tokens' = [tokens EXCEPT ![r.denom] =
                         [total |-> r.amount, max |-> r.max]]
         /\ contested' = contested \cup
                           (IF Registered(r.denom) THEN {r.denom} ELSE {})
  /\ calls' = [calls EXCEPT ![c].at = "fund"]
  /\ UNCHANGED balances

Fund(c) ==
  /\ Doing(c, "fund")
  /\ balances' = [balances EXCEPT ![calls[c].denom][calls[c].holder] =
                    calls[c].amount]
  /\ Ends(c)
  /\ UNCHANGED <<tokens, contested>>

(* transfer_internal: one step of the balances.  What the sender gives is  *)
(* gone when the balance of the recipient has no room for it.              *)
Sends(d, from, n) == n > 0 /\ Registered(d) /\ balances[d][from] >= n
Debited(d, from, n) == [balances[d] EXCEPT ![from] = @ - n]
Arrives(d, from, to, n) ==
  Sends(d, from, n) /\ Debited(d, from, n)[to] + n < Word

Move_DebitsLast(d, from, to, n) ==
  balances' =
    IF Arrives(d, from, to, n)
      THEN [balances EXCEPT ![d] =
              [@ EXCEPT ![to] = @ + n, ![from] = balances[d][from] - n]]
      ELSE balances
Move(d, from, to, n) ==
  balances' =
    IF Arrives(d, from, to, n)
      THEN [balances EXCEPT ![d] = [Debited(d, from, n) EXCEPT ![to] = @ + n]]
    ELSE IF Sends(d, from, n)
      THEN [balances EXCEPT ![d] = Debited(d, from, n)]
    ELSE balances

(* Minting: the supply, if it stays within its limits; then the balance.   *)
MayIssue(d, n) ==
  /\ Registered(d)
  /\ tokens[d].total + n < Word
  /\ Within(tokens[d].total + n, tokens[d].max)

Issue_RaisesCopy(c, d, to, n) ==
  /\ MayIssue(d, n)
  /\ Goes(c, "credit", d, to, n, NoMax)
  /\ UNCHANGED <<tokens, balances, contested>>
Issue(c, d, to, n) ==
  /\ MayIssue(d, n)
  /\ tokens' = [tokens EXCEPT ![d].total = @ + n]
  /\ Goes(c, "credit", d, to, n, NoMax)
  /\ UNCHANGED <<balances, contested>>

Fits(c) == balances[calls[c].denom][calls[c].holder] + calls[c].amount < Word

Credit(c) ==
  /\ Doing(c, "credit")
  /\ balances' =
       IF Fits(c)
         THEN [balances EXCEPT ![calls[c].denom][calls[c].holder] =
                 @ + calls[c].amount]
         ELSE balances
  /\ Ends(c)
  /\ UNCHANGED <<tokens, contested>>

(* Burning: the balance first, then the supply (saturating_sub). *)
MayBurn(d, from, n) == n > 0 /\ balances[d][from] >= n

Withdraw(c, d, from, n) ==
  /\ MayBurn(d, from, n)
  /\ balances' = [balances EXCEPT ![d] = Debited(d, from, n)]
  /\ Goes(c, "reduce", d, from, n, NoMax)
  /\ UNCHANGED <<tokens, contested>>

Less(m, n) == IF m > n THEN m - n ELSE 0

Reduce(c) ==
  /\ Doing(c, "reduce")
  /\ LET d == calls[c].denom
     IN  tokens' = IF Registered(d)
                     THEN [tokens EXCEPT ![d].total = Less(@, calls[c].amount)]
                     ELSE tokens
  /\ Ends(c)
  /\ UNCHANGED <<balances, contested>>

Continue(c) == Register(c) \/ Fund(c) \/ Credit(c) \/ Reduce(c)

-----------------------------------------------------------------------------
(* The requests.  One that is refused at its first step changes nothing.   *)

Counted == made < MaxCalls /\ made' = made + 1
Accept(c) == calls[c] = Idle /\ Counted

CreateToken(c, d, n, max) ==
  /\ Accept(c)
  /\ n >= MinSupply /\ Within(n, max)
  /\ Announce(c, d, n, max)

Transfer(d, from, to, n) ==
  /\ Counted
  /\ Sends(d, from, n)
  /\ Move(d, from, to, n)
  /\ UNCHANGED <<tokens, calls, contested>>

MintTo_AnyToken(c, d, to, n) ==
  /\ Accept(c)
  /\ Issue(c, d, to, n)
MintTo(c, d, to, n) ==
  /\ Accept(c)
  /\ Registered(d) /\ tokens[d].max # NoMax
  /\ Issue(c, d, to, n)

Burn(c, d, from, n) ==
  /\ Accept(c)
  /\ Withdraw(c, d, from, n)

FactoryNext ==
  \/ \E c \in Call, d \in Denom :
       \/ \E n \in Supply, max \in Limit : CreateToken(c, d, n, max)
       \/ \E x \in Address, n \in Amount : MintTo(c, d, x, n) \/ Burn(c, d, x, n)
  \/ \E d \in Denom, from, to \in Address, n \in Amount : Transfer(d, from, to, n)
  \/ \E c \in Call : Continue(c) /\ UNCHANGED made

FactorySpec == FactoryInit /\ [][FactoryNext]_factoryVars

-----------------------------------------------------------------------------
(* Properties.                                                             *)

Held(d) == SumFunction(balances[d])

(* What calls have put into the supply of d and not yet into a balance, or *)
(* have taken from a balance and not yet from the supply.                  *)
Pending(r, d) ==
  IF r # Idle /\ r.at \in {"fund", "credit", "reduce"} /\ r.denom = d
    THEN r.amount
    ELSE 0
UnderWay(d) == SumFunction([c \in Call |-> Pending(calls[c], d)])

(* The tokens that exist never exceed the supply on record, nor that the   *)
(* maximum, however creations, mints, burns and transfers interleave; of a *)
(* denom that is not on record there are none.  A denom for which two      *)
(* creations passed the look-up is excepted.                               *)
SupplyCoversBalances ==
  \A d \in Denom \ contested :
    Held(d) + UnderWay(d) <= IF Registered(d) THEN tokens[d].total ELSE 0

SupplyWithinMax ==
  \A d \in Denom : Registered(d) => Within(tokens[d].total, tokens[d].max)

(* A transfer neither makes nor loses tokens: no recipient is ever without *)
(* room for what the sender has given away already.                        *)
TransfersLoseNothing ==
  [][\A d \in Denom \ contested :
       tokens' = tokens /\ calls' = calls => Held(d)' = Held(d)]_factoryVars
=============================================================================
