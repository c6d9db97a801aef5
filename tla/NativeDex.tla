------------------------------ MODULE NativeDex ------------------------------
(***************************************************************************)
(* The exchange of sultan-core (native_dex.rs) over the token factory.     *)
(*                                                                         *)
(* A pool keeps the reserves it reckons with (pools, in one lock); the     *)
(* tokens themselves are balances of the factory under the address of the  *)
(* pool.  A swap, an addition and a removal change the reserves first, in  *)
(* one step, and then move tokens with one call of the factory after the   *)
(* other.  The first that fails ends the request and nothing is undone.    *)
(* A new pair moves the tokens first and stores the pool last.             *)
(*                                                                         *)
(* Pools are saved at the end of a request; the factory is never saved.    *)
(* The release build wraps what is not checked and aborts on a division by *)
(* zero (Cargo.toml).                                                      *)
(*                                                                         *)
(* A definition X_Suffix is a faulty variant of X that the specification   *)
(* does not use; PROJECT.json names the property that tells them apart.    *)
(***************************************************************************)
EXTENDS TokenFactory

CONSTANTS
  Pair,          \* pairs: a pair_id is also the address of its pool
  TokenA,        \* token_a of each pair
  TokenB,        \* token_b
  LpOf,          \* lp_denom
  Treasury,      \* protocol_fee_address, empty if it is no address
  FeeRate,       \* default_fee_rate
  ProtocolRate,  \* default_protocol_fee_rate
  Basis,         \* 10000 basis points
  MaxRestarts,   \* bound on restarts
  NoPool,        \* no pool of a pair
  NoOrder        \* no request in progress

User == Address \ Pair

ASSUME DexConstants ==
  /\ Pair \subseteq Address
  /\ TokenA \in [Pair -> Denom] /\ TokenB \in [Pair -> Denom]
  /\ LpOf \in [Pair -> Denom]
  /\ \A p \in Pair : Creator[LpOf[p]] = p /\ LpOf[p] \notin {TokenA[p], TokenB[p]}
  /\ \A d \in Denom : Creator[d] \in Pair => d = LpOf[Creator[d]]
  /\ Treasury \notin Pair
  /\ {FeeRate, ProtocolRate, MaxRestarts} \subseteq Nat
  /\ Basis \in Nat /\ ProtocolRate <= FeeRate /\ FeeRate < Basis

Pool == [a: U128, b: U128, shares: U128]

(* A request: what it moves of either token, its shares and its fee.  "at" *)
(* is the step it makes next.                                              *)
Order == [kind: {"create", "sellA", "sellB", "add", "remove"},
          at: {"payA", "payB", "fee", "announce", "issue", "hand", "open",
               "mint", "credit", "burn", "reduce", "getA", "getB", "save"},
          pair: Pair, user: User, a: U128, b: U128, lp: U128, fee: U128]

ASSUME DexSentinels == NoPool \notin Pool /\ NoOrder \notin Order

VARIABLES
  pools,      \* pools
  saved,      \* pools.json
  orders,     \* requests in progress
  up,         \* the node runs
  restarts,   \* restarts so far
  missed,     \* auxiliary: what reserves count and no transfer will bring
  unburnt,    \* auxiliary: shares written off that were never burnt
  overdrawn   \* auxiliary: pools from which a removal took more than there was

dexVars == <<pools, saved, orders, up, restarts, missed, unburnt, overdrawn>>
vars == <<factoryVars, dexVars>>

DexTypeOK ==
  /\ FactoryTypeOK
  /\ pools \in [Pair -> Pool \cup {NoPool}]
  /\ saved \in [Pair -> Pool \cup {NoPool}]
  /\ orders \in [Call -> Order \cup {NoOrder}]
  /\ up \in BOOLEAN
  /\ restarts \in 0 .. MaxRestarts
  /\ missed \in [Pair -> [Denom -> Nat]]
  /\ unburnt \in [Pair -> Nat]
  /\ overdrawn \subseteq Pair

Nothing == [p \in Pair |-> [d \in Denom |-> 0]]

DexInit ==
  /\ FactoryInit
  /\ pools = [p \in Pair |-> NoPool]
  /\ saved = pools
  /\ orders = [c \in Call |-> NoOrder]
  /\ up = TRUE
  /\ restarts = 0
  /\ missed = Nothing
  /\ unburnt = [p \in Pair |-> 0]
  /\ overdrawn = {}

-----------------------------------------------------------------------------
(* What an order has done and has left to do.                              *)

(* The part in denom d of an amount a of token A and b of token B. *)
PartIn(p, d, a, b) ==
  (IF d = TokenA[p] THEN a ELSE 0) + (IF d = TokenB[p] THEN b ELSE 0)

Reserve(r, p, d) == IF r = NoPool THEN 0 ELSE PartIn(p, d, r.a, r.b)

(* Payments to the pool that its reserves count already. *)
Due(o, d) ==
  PartIn(o.pair, d,
         IF o.kind \in {"sellA", "add"} /\ o.at = "payA" THEN o.a ELSE 0,
         IF \/ o.kind = "sellB" /\ o.at = "payB"
            \/ o.kind = "add" /\ o.at \in {"payA", "payB"} THEN o.b ELSE 0)

(* Tokens of the pool that are no part of its reserves any more, or not    *)
(* yet: what it has to pay out, and what a new pair was paid.              *)
Owed(o, d) ==
  PartIn(o.pair, d,
         IF \/ o.kind = "create" /\ o.at \in {"payB", "announce", "issue", "hand", "open"}
            \/ o.kind = "sellB" /\ o.at \in {"payB", "fee", "getA"}
            \/ o.kind = "remove" /\ o.at \in {"burn", "reduce", "getA"} THEN o.a ELSE 0,
         IF \/ o.kind = "create" /\ o.at \in {"announce", "issue", "hand", "open"}
            \/ o.kind = "sellA" /\ o.at \in {"payA", "fee", "getB"}
            \/ o.kind = "remove" /\ o.at \in {"burn", "reduce", "getA", "getB"}
           THEN o.b ELSE 0)

FeeOr(o, at) == IF o.fee > 0 THEN "fee" ELSE at

(* The step after a transfer. *)
After(o) ==
  CASE o.at = "payA" /\ o.kind = "sellA" -> FeeOr(o, "getB")
    [] o.at = "payA" /\ o.kind # "sellA" -> "payB"
    [] o.at = "payB" /\ o.kind = "create" -> "announce"
    [] o.at = "payB" /\ o.kind = "add" -> "mint"
    [] o.at = "payB" /\ o.kind = "sellB" -> FeeOr(o, "getA")
    [] o.at = "fee" -> IF o.kind = "sellA" THEN "getB" ELSE "getA"
    [] o.at = "hand" -> "open"
    [] o.at = "getA" /\ o.kind = "remove" -> "getB"
    [] OTHER -> "save"

(* Without an address for protocol fees they go to the pool. *)
FeeTo(p) == IF Treasury \in Address THEN Treasury ELSE p

(* The transfer an order makes next. *)
Payment(o) ==
  LET p == o.pair
      Pay(d, to, n) == [denom |-> d, from |-> o.user, to |-> to, amount |-> n]
      Get(d, n) == [denom |-> d, from |-> p, to |-> o.user, amount |-> n]
  IN  CASE o.at = "payA" -> Pay(TokenA[p], p, o.a)
        [] o.at = "payB" -> Pay(TokenB[p], p, o.b)
        [] o.at = "fee" -> Pay(IF o.kind = "sellA" THEN TokenA[p] ELSE TokenB[p],
                               FeeTo(p), o.fee)
        [] o.at = "hand" -> Get(LpOf[p], o.lp)
        [] o.at = "getA" -> Get(TokenA[p], o.a)
        [] o.at = "getB" -> Get(TokenB[p], o.b)

Placing(c, at) == orders[c] # NoOrder /\ orders[c].at = at
Proceed(c, at) == orders' = [orders EXCEPT ![c].at = at] /\ UNCHANGED missed
Finish(c) == orders' = [orders EXCEPT ![c] = NoOrder] /\ UNCHANGED missed

(* A request that ends in an error: no later transfer makes up for what it *)
(* has not paid.                                                           *)
Fail(c) ==
  /\ orders' = [orders EXCEPT ![c] = NoOrder]
  /\ missed' = [missed EXCEPT ![orders[c].pair] =
                  [d \in Denom |-> @[d] + Due(orders[c], d)]]

Place(c, p, kind, at, u, a, b, lp, fee) ==
  /\ orders[c] = NoOrder
  /\ Accept(c)
  /\ orders' = [orders EXCEPT ![c] =
       [kind |-> kind, at |-> at, pair |-> p, user |-> u,
        a |-> a, b |-> b, lp |-> lp, fee |-> fee]]

Abort ==
  /\ up' = FALSE
  /\ UNCHANGED <<tokens, balances, calls, contested, pools, saved, orders,
                 restarts, missed, unburnt, overdrawn>>

stores == <<tokens, balances, calls, contested>>
rest == <<saved, up, restarts>>

-----------------------------------------------------------------------------
(* The transfers of an order (transfer_internal with the ? operator).      *)

TransferNext(c) ==
  /\ orders[c] # NoOrder
  /\ orders[c].at \in {"payA", "payB", "fee", "hand", "getA", "getB"}
  /\ LET t == Payment(orders[c])
     IN  /\ Move(t.denom, t.from, t.to, t.amount)
         /\ IF Arrives(t.denom, t.from, t.to, t.amount)
              THEN Proceed(c, After(orders[c]))
              ELSE Fail(c)
  /\ UNCHANGED <<tokens, calls, contested, made, pools, rest, unburnt, overdrawn>>

-----------------------------------------------------------------------------
(* create_pair_internal                                                    *)

CreatePair(c, p, u, a, b) ==
  /\ a > 0 /\ b > 0
  /\ pools[p] = NoPool
  /\ Place(c, p, "create", "payA", u, a, b, 0, 0)
  /\ UNCHANGED <<stores, pools, rest, missed, unburnt, overdrawn>>

(* integer_sqrt, whose first step divides by zero for the last number. *)
Isqrt(n) == CHOOSE r \in 0 .. n : r * r <= n /\ n < (r + 1) * (r + 1)

AnnounceShares(c) ==
  /\ Placing(c, "announce")
  /\ UNCHANGED made
  /\ LET o == orders[c]
         product == (o.a * o.b) % Word
         lp == Isqrt(product)
     IN  IF product = Word - 1
           THEN Abort
         ELSE IF lp = 0 \/ Registered(LpOf[o.pair])
           THEN Fail(c) /\ UNCHANGED <<stores, pools, rest, unburnt, overdrawn>>
         ELSE /\ Announce(c, LpOf[o.pair], lp, NoMax)
              /\ orders' = [orders EXCEPT ![c] = [o EXCEPT !.at = "issue", !.lp = lp]]
              /\ UNCHANGED <<pools, rest, missed, unburnt, overdrawn>>

IssueShares_Unfunded(c) ==
  /\ Placing(c, "issue")
  /\ Register(c) /\ Proceed(c, "hand")
  /\ UNCHANGED <<made, pools, rest, unburnt, overdrawn>>
IssueShares(c) ==
  /\ Placing(c, "issue")
  /\ \/ Register(c) /\ UNCHANGED <<orders, missed>>
     \/ Fund(c) /\ Proceed(c, "hand")
  /\ UNCHANGED <<made, pools, rest, unburnt, overdrawn>>

OpenPool_Swapped(c) ==
  /\ Placing(c, "open")
  /\ LET o == orders[c]
     IN  pools' = [pools EXCEPT ![o.pair] = [a |-> o.b, b |-> o.a, shares |-> o.lp]]
  /\ Proceed(c, "save")
  /\ UNCHANGED <<stores, made, rest, unburnt, overdrawn>>

(* The pool is stored, over another one if there is one by now. *)
OpenPool(c) ==
  /\ Placing(c, "open")
  /\ LET o == orders[c]
     IN  pools' = [pools EXCEPT ![o.pair] = [a |-> o.a, b |-> o.b, shares |-> o.lp]]
  /\ Proceed(c, "save")
  /\ UNCHANGED <<stores, made, rest, unburnt, overdrawn>>

-----------------------------------------------------------------------------
(* swap_internal.  A minimum that the amount does not reach refuses the    *)
(* request before anything has changed and is left out, as below.          *)

TotalFee(n) == ((n * FeeRate) % Word) \div Basis
ProtocolFee(n) == ((n * ProtocolRate) % Word) \div Basis

(* What n of one token buys from reserves x of it and y of the other. *)
AmountOut_RoundsUp(x, y, n) ==
  (y * (n - TotalFee(n)) + x + n - TotalFee(n) - 1) \div (x + n - TotalFee(n))
AmountOut(x, y, n) == (y * (n - TotalFee(n))) \div (x + n - TotalFee(n))

MaySwap(x, y, n) ==
  /\ y * (n - TotalFee(n)) < Word
  /\ x + n - TotalFee(n) < Word
  /\ AmountOut(x, y, n) > 0
  /\ x + n - ProtocolFee(n) < Word

SellA(c, p, u, n) ==
  /\ n > 0 /\ pools[p] # NoPool
  /\ LET r == pools[p]
         net == n - ProtocolFee(n)
         out == AmountOut(r.a, r.b, n)
     IN  /\ MaySwap(r.a, r.b, n)
         /\ pools' = [pools EXCEPT ![p] =
              [a |-> r.a + net, b |-> r.b - out, shares |-> r.shares]]
         /\ Place(c, p, "sellA", "payA", u, net, out, 0, ProtocolFee(n))
  /\ UNCHANGED <<stores, rest, missed, unburnt, overdrawn>>

SellB(c, p, u, n) ==
  /\ n > 0 /\ pools[p] # NoPool /\ TokenB[p] # TokenA[p]
  /\ LET r == pools[p]
         net == n - ProtocolFee(n)
         out == AmountOut(r.b, r.a, n)
     IN  /\ MaySwap(r.b, r.a, n)
         /\ pools' = [pools EXCEPT ![p] =
              [a |-> r.a - out, b |-> r.b + net, shares |-> r.shares]]
         /\ Place(c, p, "sellB", "payB", u, out, net, 0, ProtocolFee(n))
  /\ UNCHANGED <<stores, rest, missed, unburnt, overdrawn>>

-----------------------------------------------------------------------------
(* add_liquidity_internal                                                  *)

(* A product that wraps, divided. *)
Scaled_RoundsUp(n, m, k) == (((n * m) % Word) + k - 1) \div k
Scaled(n, m, k) == ((n * m) % Word) \div k

(* The amounts in the ratio of the reserves, and the shares for them. *)
Offer(r, a, b) ==
  LET forA == Scaled(a, r.b, r.a)
  IN  IF forA <= b THEN [a |-> a, b |-> forA]
                   ELSE [a |-> Scaled(b, r.a, r.b), b |-> b]
SharesFor(r, a, b) ==
  LET forA == Scaled(a, r.shares, r.a)
      forB == Scaled(b, r.shares, r.b)
  IN  IF forA <= forB THEN forA ELSE forB

Divisible(r) == r.a > 0 /\ r.b > 0

AddLiquidity(c, p, u, a, b) ==
  /\ pools[p] # NoPool /\ Divisible(pools[p])
  /\ LET r == pools[p]
         o == Offer(r, a, b)
         lp == SharesFor(r, o.a, o.b)
     IN  /\ lp > 0
         /\ r.a + o.a < Word /\ r.b + o.b < Word /\ r.shares + lp < Word
         /\ pools' = [pools EXCEPT ![p] =
              [a |-> r.a + o.a, b |-> r.b + o.b, shares |-> r.shares + lp]]
         /\ Place(c, p, "add", "payA", u, o.a, o.b, lp, 0)
  /\ UNCHANGED <<stores, rest, missed, unburnt, overdrawn>>

(* The reserves are raised one after the other: the error of a later sum   *)
(* leaves the earlier ones raised.                                         *)
AddLiquidityOverflows(c, p, a, b) ==
  /\ pools[p] # NoPool /\ Divisible(pools[p])
  /\ orders[c] = NoOrder /\ Accept(c)
  /\ LET r == pools[p]
         o == Offer(r, a, b)
         lp == SharesFor(r, o.a, o.b)
         moreB == IF r.b + o.b < Word THEN o.b ELSE 0
     IN  /\ lp > 0 /\ r.a + o.a < Word
         /\ r.b + o.b < Word => r.shares + lp >= Word
         /\ pools' = [pools EXCEPT ![p] =
              [a |-> r.a + o.a, b |-> r.b + moreB, shares |-> r.shares]]
         /\ missed' = [missed EXCEPT ![p] =
                         [d \in Denom |-> @[d] + PartIn(p, d, o.a, moreB)]]
  /\ UNCHANGED <<tokens, balances, calls, contested, orders, rest, unburnt, overdrawn>>

AddLiquidityAborts(p) ==
  /\ Counted
  /\ pools[p] # NoPool /\ ~Divisible(pools[p])
  /\ Abort

(* mint_internal *)
MintShares(c) ==
  /\ Placing(c, "mint")
  /\ LET o == orders[c]
     IN  IF MayIssue(LpOf[o.pair], o.lp)
           THEN Issue(c, LpOf[o.pair], o.user, o.lp) /\ Proceed(c, "credit")
           ELSE Fail(c) /\ UNCHANGED stores
  /\ UNCHANGED <<made, pools, rest, unburnt, overdrawn>>

CreditShares(c) ==
  /\ Placing(c, "credit")
  /\ Credit(c)
  /\ IF Fits(c) THEN Proceed(c, "save") ELSE Fail(c)
  /\ UNCHANGED <<made, pools, rest, unburnt, overdrawn>>

-----------------------------------------------------------------------------
(* remove_liquidity_internal: the shares are looked for in the balance,    *)
(* and burnt after the reserves have been lowered.                         *)

RemoveLiquidity_Unchecked(c, p, u, lp) ==
  /\ lp > 0 /\ pools[p] # NoPool /\ pools[p].shares > 0
  /\ LET r == pools[p]
         a == Scaled(r.a, lp, r.shares)
         b == Scaled(r.b, lp, r.shares)
         left(m, n) == (m - n) % Word
     IN  /\ pools' = [pools EXCEPT ![p] =
              [a |-> left(r.a, a), b |-> left(r.b, b), shares |-> left(r.shares, lp)]]
         /\ overdrawn' = overdrawn \cup (IF lp > r.shares THEN {p} ELSE {})
         /\ Place(c, p, "remove", "burn", u, a, b, lp, 0)
  /\ UNCHANGED <<stores, rest, missed, unburnt>>
RemoveLiquidity(c, p, u, lp) ==
  /\ lp > 0 /\ pools[p] # NoPool /\ pools[p].shares > 0
  /\ balances[LpOf[p]][u] >= lp
  /\ LET r == pools[p]
         a == Scaled(r.a, lp, r.shares)
         b == Scaled(r.b, lp, r.shares)
         left(m, n) == (m - n) % Word
     IN  /\ pools' = [pools EXCEPT ![p] =
              [a |-> left(r.a, a), b |-> left(r.b, b), shares |-> left(r.shares, lp)]]
         /\ overdrawn' = overdrawn \cup (IF lp > r.shares THEN {p} ELSE {})
         /\ Place(c, p, "remove", "burn", u, a, b, lp, 0)
  /\ UNCHANGED <<stores, rest, missed, unburnt>>

RemoveLiquidityAborts(p, u, lp) ==
  /\ Counted
  /\ lp > 0 /\ pools[p] # NoPool /\ pools[p].shares = 0
  /\ balances[LpOf[p]][u] >= lp
  /\ Abort

(* burn_internal *)
BurnShares(c) ==
  /\ Placing(c, "burn")
  /\ LET o == orders[c]
         d == LpOf[o.pair]
     IN  IF MayBurn(d, o.user, o.lp)
           THEN Withdraw(c, d, o.user, o.lp) /\ Proceed(c, "reduce") /\ UNCHANGED unburnt
           ELSE /\ Fail(c)
                /\ unburnt' = [unburnt EXCEPT ![o.pair] = @ + o.lp]
                /\ UNCHANGED stores
  /\ UNCHANGED <<made, pools, rest, overdrawn>>

ReduceShares(c) ==
  /\ Placing(c, "reduce")
  /\ Reduce(c)
  /\ Proceed(c, "getA")
  /\ UNCHANGED <<made, pools, rest, unburnt, overdrawn>>

-----------------------------------------------------------------------------
(* save_to_storage at the end of a request, and a new start of the node:   *)
(* the factory starts empty, the pools are read back, or none are if the   *)
(* file was being written.                                                 *)

Save(c) ==
  /\ Placing(c, "save")
  /\ saved' = pools
  /\ Finish(c)
  /\ UNCHANGED <<stores, made, pools, up, restarts, unburnt, overdrawn>>

Restart ==
  /\ restarts < MaxRestarts
  /\ restarts' = restarts + 1
  /\ up' = TRUE
  /\ tokens' = [d \in Denom |-> NoToken]
  /\ balances' = [d \in Denom |-> [x \in Address |-> 0]]
  /\ calls' = [c \in Call |-> Idle]
  /\ orders' = [c \in Call |-> NoOrder]
  /\ contested' = {}
  /\ \/ pools' = saved
     \/ (\E c \in Call : Placing(c, "save")) /\ pools' = [p \in Pair |-> NoPool]
  /\ saved' = pools'
  /\ missed' = [p \in Pair |-> [d \in Denom |-> Reserve(pools'[p], p, d)]]
  /\ unburnt' = [p \in Pair |-> 0]
  /\ UNCHANGED <<made, overdrawn>>

-----------------------------------------------------------------------------
(* A step of the factory for a request of its own. *)
FactoryStep ==
  /\ \/ \E c \in Call, d \in Denom : orders[c] = NoOrder /\
          \/ /\ Creator[d] \in User
             /\ \E n \in Supply, max \in Limit : CreateToken(c, d, n, max)
          \/ \E x \in Address, n \in Amount : MintTo(c, d, x, n)
          \/ \E u \in User, n \in Amount : Burn(c, d, u, n)
     \/ \E d \in Denom, u \in User, x \in Address, n \in Amount : Transfer(d, u, x, n)
     \/ \E c \in Call : orders[c] = NoOrder /\ Continue(c) /\ UNCHANGED made
  /\ UNCHANGED dexVars

OrderStep(c) ==
  \/ TransferNext(c)
  \/ AnnounceShares(c) \/ IssueShares(c) \/ OpenPool(c)
  \/ MintShares(c) \/ CreditShares(c)
  \/ BurnShares(c) \/ ReduceShares(c)
  \/ Save(c)

NewOrder(c) ==
  \E p \in Pair, u \in User :
    \/ \E a, b \in Amount :
         \/ CreatePair(c, p, u, a, b)
         \/ AddLiquidity(c, p, u, a, b)
         \/ AddLiquidityOverflows(c, p, a, b)
    \/ \E n \in Amount :
         \/ SellA(c, p, u, n) \/ SellB(c, p, u, n)
         \/ RemoveLiquidity(c, p, u, n)
         \/ RemoveLiquidityAborts(p, u, n)
    \/ AddLiquidityAborts(p)

DexNext ==
  \/ up /\ FactoryStep
  \/ \E c \in Call : up /\ (OrderStep(c) \/ NewOrder(c))
  \/ Restart

DexSpec == DexInit /\ [][DexNext]_vars

-----------------------------------------------------------------------------
(* Properties.                                                             *)

Owing(o, p, d) ==
  IF o # NoOrder /\ o.pair = p THEN Owed(o, d) - Due(o, d) ELSE 0

(* The tokens under the address of a pool are enough for its reserves, for *)
(* what it has to pay out and for what pairs in creation have paid in;     *)
(* only payments that never came, and reserves read back after a restart,  *)
(* are missing.  So a payment out of the pool never fails for want of      *)
(* tokens as long as nothing is missing.                                   *)
PoolsAreCovered ==
  \A p \in Pair \ overdrawn, d \in Denom :
    balances[d][p] + missed[p][d] >=
      Reserve(pools[p], p, d)
      + SumFunction([c \in Call |-> Owing(orders[c], p, d)])

ToBurn(o, p) ==
  IF o # NoOrder /\ o.pair = p /\ o.kind = "remove" /\ o.at = "burn"
    THEN o.lp ELSE 0
WrittenOff(p) ==
  SumFunction([c \in Call |-> ToBurn(orders[c], p)]) + unburnt[p]

(* The shares that exist are never more than the pool reckons with and     *)
(* those that removals have written off without burning them: no sequence  *)
(* of additions, removals, transfers and burns makes a share of nothing.   *)
SharesAreBacked ==
  \A p \in Pair \ overdrawn :
    LpOf[p] \notin contested /\ pools[p] # NoPool =>
      Held(LpOf[p]) <= pools[p].shares + WrittenOff(p)

(* A removal takes more than a pool has only while another removal of the  *)
(* same pool has written its shares off and not burnt them.                *)
OnlyOverlapOverdraws ==
  [][\A p \in overdrawn' \ overdrawn :
       WrittenOff(p) > 0 \/ LpOf[p] \in contested]_vars

(* A pool with shares never runs out of either token, so that the node     *)
(* aborts only on a pool whose shares are all redeemed, or that was        *)
(* overdrawn.                                                              *)
SharesHaveReserves ==
  \A p \in Pair \ overdrawn :
    pools[p] # NoPool /\ pools[p].shares > 0 => Divisible(pools[p])

FeeWraps(o) == (o.fee + (IF o.kind = "sellA" THEN o.a ELSE o.b)) * FeeRate >= Word

(* No swap, addition or removal lowers what a share is worth: the product  *)
(* of the reserves per square of the shares never falls, whatever is       *)
(* rounded or wraps, the fee of a swap excepted.                           *)
SharesKeepTheirWorth ==
  [][\A p \in Pair \ overdrawn' :
       LET r == pools[p]
           s == pools'[p]
           wraps == \E c \in Call : /\ orders[c] = NoOrder /\ orders'[c] # NoOrder
                                    /\ orders'[c].kind \in {"sellA", "sellB"}
                                    /\ FeeWraps(orders'[c])
           opens == \E c \in Call : Placing(c, "open") /\ orders[c].pair = p
       IN  r # NoPool /\ s # NoPool /\ restarts' = restarts /\ ~wraps /\ ~opens
           => r.a * r.b * s.shares * s.shares <= s.a * s.b * r.shares * r.shares]_vars

(* A pair whose share token is on record is open, or a request that will   *)
(* open it is on its way and has the shares to hand out: no failure leaves *)
(* a pair that can never be created again.                                 *)
RegisteredPairsOpen ==
  \A p \in Pair :
    LpOf[p] \notin contested /\ Registered(LpOf[p]) /\ pools[p] = NoPool =>
      \E c \in Call :
        /\ orders[c] # NoOrder /\ orders[c].pair = p /\ orders[c].kind = "create"
        /\ \/ orders[c].at = "issue" /\ Doing(c, "fund")
           \/ orders[c].at = "hand" /\ balances[LpOf[p]][p] >= orders[c].lp
           \/ orders[c].at = "open"
=============================================================================
