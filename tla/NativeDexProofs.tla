-------------------------- MODULE NativeDexProofs --------------------------
(***************************************************************************)
(* Proofs about TokenFactory and NativeDex for any accounts, denoms and    *)
(* pairs, any number of requests in progress, every amount and fee rate    *)
(* and every width of the integers.                                        *)
(***************************************************************************)
EXTENDS NativeDex, FiniteSums, TLAPS

USE FactoryConstants

-----------------------------------------------------------------------------
(* Sums.                                                                   *)

LEMMA Added ==
  ASSUME NEW S, IsFiniteSet(S), NEW f, DOMAIN f = S, \A k \in S : f[k] \in Nat
  PROVE  /\ SumFunction(f) \in Nat
         /\ \A k \in S : f[k] <= SumFunction(f)
         /\ \A k, l \in S : k # l => f[k] + f[l] <= SumFunction(f)
<1>1. \A k \in S : f[k] \in Int
  OBVIOUS
<1>2. SumFunctionOnSet(f, S) \in Nat
  BY SumNat
<1>3. ASSUME NEW k \in S
      PROVE  /\ SumFunctionOnSet(f, S) = f[k] + SumFunctionOnSet(f, S \ {k})
             /\ SumFunctionOnSet(f, S \ {k}) \in Nat
  <2>1. IsFiniteSet(S \ {k}) /\ \A l \in S \ {k} : f[l] \in Nat
    BY FS_RemoveElement
  <2>2. SumFunctionOnSet(f, S \ {k}) \in Nat
    BY <2>1, SumNat
  <2> QED BY <1>1, <2>2, SumTake
<1>4. ASSUME NEW k \in S, NEW l \in S, k # l
      PROVE  f[k] + f[l] <= SumFunctionOnSet(f, S)
  <2>1. IsFiniteSet(S \ {k}) /\ l \in S \ {k} /\ \A m \in S \ {k} : f[m] \in Nat
    BY <1>4, FS_RemoveElement
  <2>2. SumFunctionOnSet(f, S \ {k}) = f[l] + SumFunctionOnSet(f, (S \ {k}) \ {l})
    <3>1. \A m \in S \ {k} : f[m] \in Int
      OBVIOUS
    <3> QED BY <2>1, <3>1, SumTake
  <2>3. SumFunctionOnSet(f, (S \ {k}) \ {l}) \in Nat
    <3>1. IsFiniteSet((S \ {k}) \ {l}) /\ \A m \in (S \ {k}) \ {l} : f[m] \in Nat
      BY <2>1, FS_RemoveElement
    <3> QED BY <3>1, SumNat
  <2>4. SumFunctionOnSet(f, S) = f[k] + SumFunctionOnSet(f, S \ {k}) /\ f[k] \in Nat /\ f[l] \in Nat
    BY <1>3
  <2> QED BY <2>2, <2>3, <2>4
<1>5. ASSUME NEW k \in S PROVE f[k] <= SumFunctionOnSet(f, S)
  <2>1. f[k] \in Nat
    OBVIOUS
  <2>2. SumFunctionOnSet(f, S) = f[k] + SumFunctionOnSet(f, S \ {k}) /\ SumFunctionOnSet(f, S \ {k}) \in Nat
    BY <1>3
  <2> QED BY <2>1, <2>2
<1> QED BY <1>2, <1>4, <1>5 DEF SumFunction

LEMMA Whole ==
  ASSUME NEW S, IsFiniteSet(S), NEW f, DOMAIN f = S, \A k \in S : f[k] \in Int
  PROVE  SumFunction(f) \in Int
BY SumInt DEF SumFunction

LEMMA OneChanges ==
  ASSUME NEW S, IsFiniteSet(S), NEW f, NEW g, DOMAIN f = S, DOMAIN g = S, NEW j \in S,
         \A k \in S : f[k] \in Int /\ g[k] \in Int,
         \A k \in S \ {j} : g[k] = f[k]
  PROVE  SumFunction(g) = SumFunction(f) + g[j] - f[j]
BY SumUpdate DEF SumFunction

LEMMA NoneChanges ==
  ASSUME NEW S, IsFiniteSet(S), NEW f, NEW g, DOMAIN f = S, DOMAIN g = S,
         \A k \in S : f[k] \in Int /\ g[k] = f[k]
  PROVE  SumFunction(g) = SumFunction(f)
BY SumSame DEF SumFunction

LEMMA AllZero ==
  ASSUME NEW S, IsFiniteSet(S), NEW f, DOMAIN f = S, \A k \in S : f[k] = 0
  PROVE  SumFunction(f) = 0
BY SumZero DEF SumFunction

-----------------------------------------------------------------------------
(* The stores of the factory.                                              *)

StoresOK ==
  /\ tokens \in [Denom -> Token \cup {NoToken}]
  /\ balances \in [Denom -> [Address -> U128]]
  /\ calls \in [Call -> FactoryCall \cup {Idle}]
  /\ contested \subseteq Denom

CallsWithin ==
  \A c \in Call : Doing(c, "register") => Within(calls[c].amount, calls[c].max)

(* The invariant of the factory.  A supply is stored within its maximum    *)
(* because the call that stores it has checked the two before.             *)
FactoryInv == StoresOK /\ SupplyCoversBalances /\ SupplyWithinMax /\ CallsWithin

Total(d) == IF Registered(d) THEN tokens[d].total ELSE 0

LEMMA TokenOf ==
  ASSUME StoresOK, NEW d \in Denom
  PROVE  /\ Registered(d) => tokens[d] \in Token /\ tokens[d].total \in U128
         /\ Total(d) \in Nat /\ Total(d) < Word
         /\ Registered(d) => Total(d) = tokens[d].total
BY DEF StoresOK, Registered, Total, Token, U128

LEMMA CallOf ==
  ASSUME StoresOK, NEW c \in Call, calls[c] # Idle
  PROVE  /\ calls[c] \in FactoryCall /\ calls[c].denom \in Denom
         /\ calls[c].holder \in Address /\ calls[c].amount \in U128
         /\ calls[c].amount \in Nat
         /\ calls[c].max \in U128 \cup {NoMax}
BY DEF StoresOK, FactoryCall, U128

LEMMA BalanceOf ==
  ASSUME StoresOK, NEW d \in Denom, NEW x \in Address
  PROVE  balances[d] \in [Address -> U128] /\ balances[d][x] \in Nat /\ balances[d][x] < Word
BY DEF StoresOK, U128

LEMMA HeldIs ==
  ASSUME StoresOK, NEW d \in Denom
  PROVE  /\ Held(d) \in Nat
         /\ \A x \in Address : balances[d][x] <= Held(d)
         /\ \A x, y \in Address : x # y => balances[d][x] + balances[d][y] <= Held(d)
<1>1. DOMAIN balances[d] = Address /\ \A x \in Address : balances[d][x] \in Nat
  BY BalanceOf
<1> QED BY <1>1, Added DEF Held

LEMMA PendingIs ==
  ASSUME StoresOK, NEW c \in Call, NEW d \in Denom
  PROVE  Pending(calls[c], d) \in Nat
BY CallOf DEF Pending

LEMMA UnderWayIs ==
  ASSUME StoresOK, NEW d \in Denom
  PROVE  /\ UnderWay(d) \in Nat
         /\ \A c \in Call : Pending(calls[c], d) <= UnderWay(d)
<1> DEFINE f == [c \in Call |-> Pending(calls[c], d)]
<1>1. DOMAIN f = Call /\ \A c \in Call : f[c] \in Nat /\ f[c] = Pending(calls[c], d)
  BY PendingIs
<1>2. UnderWay(d) = SumFunction(f)
  BY DEF UnderWay
<1> HIDE DEF f
<1> QED BY <1>1, <1>2, Added

(* One balance changes. *)
Sets(d, x, n) == balances' = [balances EXCEPT ![d][x] = n]

LEMMA BalanceChanges ==
  ASSUME StoresOK, NEW d \in Denom, NEW x \in Address, NEW n \in U128, Sets(d, x, n)
  PROVE  /\ balances' \in [Denom -> [Address -> U128]]
         /\ balances'[d][x] = n
         /\ \A y \in Address \ {x} : balances'[d][y] = balances[d][y]
         /\ \A e \in Denom \ {d} : balances'[e] = balances[e] /\ Held(e)' = Held(e)
         /\ Held(d)' = Held(d) + n - balances[d][x]
<1>1. /\ balances' \in [Denom -> [Address -> U128]]
      /\ balances'[d][x] = n
      /\ \A y \in Address \ {x} : balances'[d][y] = balances[d][y]
      /\ \A e \in Denom \ {d} : balances'[e] = balances[e]
  BY DEF StoresOK, Sets
<1>2. \A e \in Denom \ {d} : Held(e)' = Held(e)
  BY <1>1 DEF Held
<1> DEFINE f == balances[d]
           g == balances'[d]
<1>3. /\ DOMAIN f = Address /\ DOMAIN g = Address
      /\ \A y \in Address : f[y] \in Int /\ g[y] \in Int
      /\ \A y \in Address \ {x} : g[y] = f[y]
      /\ g[x] = n
  BY <1>1 DEF StoresOK, U128
<1>4. Held(d) = SumFunction(f) /\ Held(d)' = SumFunction(g) /\ f[x] = balances[d][x]
  BY DEF Held
<1> HIDE DEF f, g
<1>5. SumFunction(g) = SumFunction(f) + g[x] - f[x]
  BY <1>3, OneChanges
<1> QED BY <1>1, <1>2, <1>3, <1>4, <1>5

(* One call changes. *)
LEMMA CallChanges ==
  ASSUME StoresOK, NEW c \in Call, NEW r \in FactoryCall \cup {Idle},
         calls' = [calls EXCEPT ![c] = r]
  PROVE  /\ calls' \in [Call -> FactoryCall \cup {Idle}]
         /\ calls'[c] = r
         /\ \A e \in Call \ {c} : calls'[e] = calls[e]
         /\ \A d \in Denom : UnderWay(d)' = UnderWay(d) + Pending(r, d) - Pending(calls[c], d)
<1>1. /\ calls' \in [Call -> FactoryCall \cup {Idle}]
      /\ calls'[c] = r
      /\ \A e \in Call \ {c} : calls'[e] = calls[e]
  BY DEF StoresOK
<1>2. ASSUME NEW d \in Denom
      PROVE  UnderWay(d)' = UnderWay(d) + Pending(r, d) - Pending(calls[c], d)
  <2> DEFINE f == [e \in Call |-> Pending(calls[e], d)]
             g == [e \in Call |-> Pending(calls'[e], d)]
  <2>1. \A e \in Call : f[e] \in Int /\ f[e] = Pending(calls[e], d)
    BY PendingIs
  <2>2. \A e \in Call : g[e] \in Int /\ g[e] = Pending(calls'[e], d)
    BY <1>1 DEF Pending, FactoryCall, U128
  <2>3. DOMAIN f = Call /\ DOMAIN g = Call /\ \A e \in Call \ {c} : g[e] = f[e]
    BY <1>1
  <2>4. UnderWay(d) = SumFunction(f) /\ UnderWay(d)' = SumFunction(g)
    BY DEF UnderWay
  <2> HIDE DEF f, g
  <2>5. SumFunction(g) = SumFunction(f) + g[c] - f[c]
    BY <2>1, <2>2, <2>3, OneChanges
  <2> QED BY <1>1, <2>1, <2>2, <2>4, <2>5
<1> QED BY <1>1, <1>2

(* Calls that stay. *)
LEMMA Stays ==
  /\ UNCHANGED calls => \A d : UnderWay(d)' = UnderWay(d)
  /\ UNCHANGED balances => \A d : Held(d)' = Held(d)
BY DEF UnderWay, Held

(* What SupplyCoversBalances says, with Total. *)
LEMMA Covers ==
  SupplyCoversBalances <=> \A d \in Denom \ contested : Held(d) + UnderWay(d) <= Total(d)
BY DEF SupplyCoversBalances, Total

LEMMA SumsNext ==
  ASSUME StoresOK', NEW d \in Denom
  PROVE  /\ Held(d)' \in Nat /\ UnderWay(d)' \in Nat /\ Total(d)' \in Nat
         /\ \A x \in Address : balances'[d][x] <= Held(d)'
<1>1. /\ DOMAIN balances'[d] = Address /\ \A x \in Address : balances'[d][x] \in Nat
      /\ Held(d)' = SumFunction(balances'[d])
  BY DEF StoresOK, U128, Held
<1> DEFINE f == [c \in Call |-> Pending(calls'[c], d)]
<1>2. DOMAIN f = Call /\ \A c \in Call : f[c] \in Nat
  BY DEF StoresOK, Pending, FactoryCall, U128
<1>3. UnderWay(d)' = SumFunction(f)
  BY DEF UnderWay
<1>4. Total(d)' \in Nat
  BY DEF StoresOK, Total, Registered, Token, U128
<1> HIDE DEF f
<1> QED BY <1>1, <1>2, <1>3, <1>4, Added

(* A step that adds no more to balances and calls than to the supply. *)
LEMMA SupplyStep ==
  ASSUME StoresOK, StoresOK', SupplyCoversBalances, contested \subseteq contested',
         \A d \in Denom \ contested' :
           Held(d)' + UnderWay(d)' - Total(d)' <= Held(d) + UnderWay(d) - Total(d)
  PROVE  SupplyCoversBalances'
<1> SUFFICES ASSUME NEW d \in Denom \ contested'
             PROVE  Held(d)' + UnderWay(d)' <= Total(d)'
  BY DEF SupplyCoversBalances, Total, Registered
<1>1. Held(d) + UnderWay(d) <= Total(d)
  BY Covers
<1>2. Held(d) \in Nat /\ UnderWay(d) \in Nat /\ Total(d) \in Nat
  BY HeldIs, UnderWayIs, TokenOf
<1>3. Held(d)' \in Nat /\ UnderWay(d)' \in Nat /\ Total(d)' \in Nat
  BY SumsNext
<1> QED BY <1>1, <1>2, <1>3

LEMMA AnnounceStep ==
  ASSUME FactoryInv, NEW c \in Call, NEW d \in Denom, NEW n \in U128,
         NEW max \in U128 \cup {NoMax}, Within(n, max), calls[c] = Idle,
         Announce(c, d, n, max)
  PROVE  FactoryInv'
<1> DEFINE r == [at |-> "register", denom |-> d, holder |-> Creator[d],
                 amount |-> n, max |-> max]
<1>1. /\ r \in FactoryCall /\ r # Idle
      /\ r.at = "register" /\ r.amount = n /\ r.max = max
      /\ calls' = [calls EXCEPT ![c] = r]
      /\ UNCHANGED <<tokens, balances, contested>>
  BY FactorySentinels DEF Announce, Goes, FactoryCall
<1>2. \A e \in Denom : Pending(r, e) = 0 /\ Pending(calls[c], e) = 0
  BY <1>1 DEF Pending
<1> HIDE DEF r
<1>3. /\ calls' \in [Call -> FactoryCall \cup {Idle}]
      /\ calls'[c] = r
      /\ \A e \in Call \ {c} : calls'[e] = calls[e]
      /\ \A e \in Denom : UnderWay(e)' = UnderWay(e) + Pending(r, e) - Pending(calls[c], e)
  BY <1>1, CallChanges DEF FactoryInv
<1>4. StoresOK'
  BY <1>1, <1>3 DEF FactoryInv, StoresOK
<1>5. SupplyCoversBalances'
  <2>1. \A e \in Denom : Held(e)' = Held(e) /\ UnderWay(e)' = UnderWay(e) /\ Total(e)' = Total(e)
    <3>1. \A e \in Denom : UnderWay(e) \in Nat
      BY UnderWayIs DEF FactoryInv
    <3> QED BY <1>1, <1>2, <1>3, <3>1, Stays DEF Total, Registered
  <2>2. \A e \in Denom : Held(e) \in Nat /\ UnderWay(e) \in Nat /\ Total(e) \in Nat
    BY HeldIs, UnderWayIs, TokenOf DEF FactoryInv
  <2> QED BY <1>1, <1>4, <2>1, <2>2, SupplyStep DEF FactoryInv
<1>6. SupplyWithinMax'
  BY <1>1 DEF FactoryInv, SupplyWithinMax, Registered, Within
<1>7. CallsWithin'
  BY <1>1, <1>3 DEF FactoryInv, CallsWithin, Doing, Within
<1> QED BY <1>4, <1>5, <1>6, <1>7 DEF FactoryInv

LEMMA RegisterStep ==
  ASSUME FactoryInv, NEW c \in Call, Register(c)
  PROVE  FactoryInv'
<1> DEFINE r == calls[c]
           d == r.denom
           s == [r EXCEPT !.at = "fund"]
           token == [total |-> r.amount, max |-> r.max]
<1>1. r # Idle /\ r.at = "register"
  BY DEF Register, Doing
<1>2. /\ r \in FactoryCall /\ d \in Denom /\ r.amount \in U128 /\ r.amount \in Nat
      /\ r.max \in U128 \cup {NoMax}
  BY <1>1, CallOf DEF FactoryInv
<1>3. /\ tokens' = [tokens EXCEPT ![d] = token]
      /\ contested' = contested \cup (IF Registered(d) THEN {d} ELSE {})
      /\ UNCHANGED balances
  BY DEF Register
<1>4. calls' = [calls EXCEPT ![c] = s]
  <2>1. calls' = [calls EXCEPT ![c].at = "fund"]
    BY DEF Register
  <2>2. [calls EXCEPT ![c].at = "fund"] = [calls EXCEPT ![c] = [calls[c] EXCEPT !.at = "fund"]]
    OBVIOUS
  <2> QED BY <2>1, <2>2
<1>5. token \in Token /\ token # NoToken /\ token.total = r.amount /\ token.max = r.max
  BY <1>2, FactorySentinels DEF Token
<1>6. /\ s \in FactoryCall /\ s # Idle /\ s.at = "fund" /\ s.denom = d /\ s.amount = r.amount
  BY <1>2, FactorySentinels DEF FactoryCall
<1>7. \A e \in Denom : /\ Pending(r, e) = 0
                       /\ Pending(s, e) = IF e = d THEN r.amount ELSE 0
  BY <1>1, <1>6 DEF Pending
<1>8. Within(r.amount, r.max)
  BY <1>1 DEF FactoryInv, CallsWithin, Doing
<1> HIDE DEF token, s
<1>9. /\ calls' \in [Call -> FactoryCall \cup {Idle}]
      /\ calls'[c] = s
      /\ \A e \in Call \ {c} : calls'[e] = calls[e]
      /\ \A e \in Denom : UnderWay(e)' = UnderWay(e) + Pending(s, e) - Pending(r, e)
  BY <1>4, <1>6, CallChanges DEF FactoryInv
<1>10. StoresOK'
  BY <1>2, <1>3, <1>5, <1>9 DEF FactoryInv, StoresOK
<1>11. SupplyCoversBalances'
  <2>1. contested \subseteq contested'
    BY <1>3
  <2>2. ASSUME NEW e \in Denom \ contested'
        PROVE  Held(e)' + UnderWay(e)' - Total(e)' <= Held(e) + UnderWay(e) - Total(e)
    <3>1. Held(e) \in Nat /\ UnderWay(e) \in Nat /\ Total(e) \in Nat /\ Held(e)' = Held(e)
      BY <1>3, HeldIs, UnderWayIs, TokenOf, Stays DEF FactoryInv
    <3>2. CASE e = d
      <4>1. ~Registered(d)
        BY <1>3, <3>2
      <4>2. Total(e) = 0 /\ Total(e)' = r.amount
        BY <1>2, <1>3, <1>5, <3>2, <4>1 DEF Total, Registered, FactoryInv, StoresOK
      <4>3. UnderWay(e)' = UnderWay(e) + r.amount
        BY <1>2, <1>7, <1>9, <3>1, <3>2
      <4> QED BY <1>2, <3>1, <4>2, <4>3
    <3>3. CASE e # d
      <4>1. Total(e)' = Total(e)
        BY <1>3, <3>3 DEF Total, Registered, FactoryInv, StoresOK
      <4>2. UnderWay(e)' = UnderWay(e)
        BY <1>7, <1>9, <3>1, <3>3
      <4> QED BY <3>1, <4>1, <4>2
    <3> QED BY <3>2, <3>3
  <2> QED BY <1>10, <2>1, <2>2, SupplyStep DEF FactoryInv
<1>12. SupplyWithinMax'
  <2> SUFFICES ASSUME NEW e \in Denom, Registered(e)'
               PROVE  Within(tokens'[e].total, tokens'[e].max)
    BY DEF SupplyWithinMax, Registered, Within
  <2>1. CASE e = d
    BY <1>2, <1>3, <1>5, <1>8, <2>1 DEF FactoryInv, StoresOK
  <2>2. CASE e # d
    BY <1>3, <2>2 DEF FactoryInv, StoresOK, SupplyWithinMax, Registered
  <2> QED BY <2>1, <2>2
<1>13. CallsWithin'
  BY <1>6, <1>9 DEF FactoryInv, CallsWithin, Doing, Within
<1> QED BY <1>10, <1>11, <1>12, <1>13 DEF FactoryInv

(* Steps that end a call. *)
LEMMA EndsCall ==
  ASSUME StoresOK, NEW c \in Call, calls[c] # Idle, Ends(c)
  PROVE  /\ calls' \in [Call -> FactoryCall \cup {Idle}]
         /\ calls'[c] = Idle
         /\ \A e \in Call \ {c} : calls'[e] = calls[e]
         /\ \A d \in Denom : UnderWay(d)' = UnderWay(d) - Pending(calls[c], d)
         /\ CallsWithin => CallsWithin'
<1>1. /\ calls' \in [Call -> FactoryCall \cup {Idle}]
      /\ calls'[c] = Idle
      /\ \A e \in Call \ {c} : calls'[e] = calls[e]
      /\ \A d \in Denom : UnderWay(d)' = UnderWay(d) + Pending(Idle, d) - Pending(calls[c], d)
  BY CallChanges DEF Ends
<1>2. \A d \in Denom : /\ Pending(Idle, d) = 0 /\ UnderWay(d) \in Nat
                       /\ Pending(calls[c], d) \in Nat
  BY PendingIs, UnderWayIs DEF Pending
<1>3. CallsWithin => CallsWithin'
  BY <1>1 DEF CallsWithin, Doing, Within
<1> QED BY <1>1, <1>2, <1>3

(* Steps that start or carry on a call with what is under way. *)
LEMMA GoesOn ==
  ASSUME StoresOK, NEW c \in Call, calls[c] = Idle, NEW d \in Denom, NEW x \in Address,
         NEW n \in U128, NEW at \in {"credit", "reduce"}, Goes(c, at, d, x, n, NoMax)
  PROVE  /\ calls' \in [Call -> FactoryCall \cup {Idle}]
         /\ calls'[c] # Idle /\ calls'[c].at = at /\ calls'[c].denom = d
         /\ calls'[c].holder = x /\ calls'[c].amount = n
         /\ \A e \in Call \ {c} : calls'[e] = calls[e]
         /\ \A e \in Denom : UnderWay(e)' = UnderWay(e) + (IF e = d THEN n ELSE 0)
         /\ CallsWithin => CallsWithin'
<1> DEFINE r == [at |-> at, denom |-> d, holder |-> x, amount |-> n, max |-> NoMax]
<1>1. /\ r \in FactoryCall /\ r # Idle /\ r.at = at /\ r.denom = d /\ r.amount = n /\ r.holder = x
      /\ calls' = [calls EXCEPT ![c] = r]
  BY FactorySentinels DEF Goes, FactoryCall
<1>2. \A e \in Denom : /\ Pending(r, e) = IF e = d THEN n ELSE 0
                       /\ Pending(calls[c], e) = 0
  BY <1>1 DEF Pending
<1> HIDE DEF r
<1>3. /\ calls' \in [Call -> FactoryCall \cup {Idle}]
      /\ calls'[c] = r
      /\ \A e \in Call \ {c} : calls'[e] = calls[e]
      /\ \A e \in Denom : UnderWay(e)' = UnderWay(e) + Pending(r, e) - Pending(calls[c], e)
  BY <1>1, CallChanges
<1>4. \A e \in Denom : UnderWay(e) \in Nat
  BY UnderWayIs
<1>5. n \in Nat
  BY DEF U128
<1>6. \A e \in Denom : UnderWay(e)' = UnderWay(e) + (IF e = d THEN n ELSE 0)
  BY <1>2, <1>3, <1>4, <1>5
<1>7. CallsWithin => CallsWithin'
  BY <1>1, <1>3 DEF CallsWithin, Doing, Within
<1> QED BY <1>1, <1>3, <1>6, <1>7

LEMMA FundStep ==
  ASSUME FactoryInv, NEW c \in Call, Fund(c)
  PROVE  FactoryInv'
<1>0. PICK r, d, x, n : r = calls[c] /\ d = r.denom /\ x = r.holder /\ n = r.amount
  OBVIOUS
<1> USE DEF FactoryInv
<1>1. r # Idle /\ r.at = "fund" /\ Ends(c) /\ UNCHANGED <<tokens, contested>>
  BY <1>0 DEF Fund, Doing
<1>2. d \in Denom /\ x \in Address /\ n \in U128 /\ n \in Nat
  BY <1>0, <1>1, CallOf
<1>3. Sets(d, x, n)
  BY <1>0 DEF Fund, Sets
<1>4. /\ balances' \in [Denom -> [Address -> U128]]
      /\ \A e \in Denom \ {d} : Held(e)' = Held(e)
      /\ Held(d)' = Held(d) + n - balances[d][x]
  BY <1>2, <1>3, BalanceChanges
<1>5. /\ calls' \in [Call -> FactoryCall \cup {Idle}]
      /\ \A e \in Denom : UnderWay(e)' = UnderWay(e) - Pending(r, e)
      /\ CallsWithin'
  BY <1>0, <1>1, EndsCall
<1>6. StoresOK'
  BY <1>1, <1>4, <1>5 DEF StoresOK
<1>7. SupplyCoversBalances'
  <2>1. ASSUME NEW e \in Denom \ contested'
        PROVE  Held(e)' + UnderWay(e)' - Total(e)' <= Held(e) + UnderWay(e) - Total(e)
    <3>1. Held(e) \in Nat /\ UnderWay(e) \in Nat /\ Total(e) \in Nat /\ Total(e)' = Total(e)
      BY <1>1, HeldIs, UnderWayIs, TokenOf DEF Total, Registered
    <3>2. CASE e = d
      <4>1. Pending(r, e) = n /\ balances[d][x] \in Nat
        BY <1>0, <1>1, <1>2, <3>2, BalanceOf DEF Pending
      <4>2. Held(e)' = Held(e) + n - balances[d][x] /\ UnderWay(e)' = UnderWay(e) - n
        BY <1>4, <1>5, <3>2, <4>1
      <4> QED BY <1>2, <3>1, <4>1, <4>2
    <3>3. CASE e # d
      <4>1. Pending(r, e) = 0
        BY <1>0, <3>3 DEF Pending
      <4>2. UnderWay(e)' = UnderWay(e) /\ Held(e)' = Held(e)
        BY <1>4, <1>5, <3>1, <3>3, <4>1
      <4> QED BY <3>1, <4>2
    <3> QED BY <3>2, <3>3
  <2> QED BY <1>1, <1>6, <2>1, SupplyStep
<1>8. SupplyWithinMax'
  BY <1>1 DEF SupplyWithinMax, Registered, Within
<1> QED BY <1>5, <1>6, <1>7, <1>8

(* A transfer moves an amount, or loses it on the way, or does nothing. *)
LEMMA MoveEffect ==
  ASSUME StoresOK, NEW d \in Denom, NEW from \in Address, NEW to \in Address, NEW n \in U128,
         Move(d, from, to, n)
  PROVE  /\ balances' \in [Denom -> [Address -> U128]]
         /\ \A e \in Denom \ {d} : balances'[e] = balances[e] /\ Held(e)' = Held(e)
         /\ \A x \in Address \ {from, to} : balances'[d][x] = balances[d][x]
         /\ from # to /\ Arrives(d, from, to, n) =>
              /\ balances'[d][from] = balances[d][from] - n
              /\ balances'[d][to] = balances[d][to] + n
         /\ from = to /\ Arrives(d, from, to, n) => balances'[d][to] = balances[d][to]
         /\ Sends(d, from, n) /\ ~Arrives(d, from, to, n) =>
              /\ balances'[d][from] = balances[d][from] - n
              /\ from # to => balances'[d][to] = balances[d][to]
         /\ ~Sends(d, from, n) => UNCHANGED balances
         /\ Held(d)' <= Held(d)
         /\ Arrives(d, from, to, n) \/ ~Sends(d, from, n) => Held(d)' = Held(d)
<1> DEFINE f == balances[d]
           g == Debited(d, from, n)
           h == [g EXCEPT ![to] = @ + n]
<1>1. f \in [Address -> U128] /\ \A x \in Address : f[x] \in Nat /\ f[x] < Word
  BY BalanceOf
<1>2. n \in Nat /\ n < Word
  BY DEF U128
<1>3. g = [f EXCEPT ![from] = @ - n]
  BY DEF Debited
<1>4. /\ DOMAIN g = Address /\ g[from] = f[from] - n
      /\ \A x \in Address \ {from} : g[x] = f[x]
  BY <1>1, <1>3
<1>5. /\ DOMAIN h = Address /\ h[to] = g[to] + n
      /\ \A x \in Address \ {to} : h[x] = g[x]
  BY <1>4
<1>6. Held(d) = SumFunction(f) /\ Held(d) \in Nat
  BY HeldIs DEF Held
<1>7. Sends(d, from, n) => f[from] >= n
  BY DEF Sends
<1>8. Arrives(d, from, to, n) => Sends(d, from, n) /\ g[to] + n < Word
  BY DEF Arrives
<1>9. balances' = IF Arrives(d, from, to, n) THEN [balances EXCEPT ![d] = h]
                  ELSE IF Sends(d, from, n) THEN [balances EXCEPT ![d] = g]
                  ELSE balances
  BY DEF Move
<1>10. Sends(d, from, n) => g \in [Address -> U128] /\ SumFunction(g) = SumFunction(f) - n
  <2> SUFFICES ASSUME Sends(d, from, n)
               PROVE  g \in [Address -> U128] /\ SumFunction(g) = SumFunction(f) - n
    OBVIOUS
  <2>1. g \in [Address -> U128]
    BY <1>1, <1>2, <1>3, <1>7 DEF U128
  <2>2. /\ \A x \in Address : f[x] \in Int /\ g[x] \in Int
        /\ DOMAIN f = Address /\ f[from] \in Nat
    BY <1>1, <2>1 DEF U128
  <2> HIDE DEF f, g
  <2>3. SumFunction(g) = SumFunction(f) + g[from] - f[from]
    BY <1>4, <2>2, OneChanges
  <2>4. SumFunction(f) \in Int
    BY <1>6
  <2> QED BY <1>2, <1>4, <2>1, <2>2, <2>3, <2>4
<1>11. Arrives(d, from, to, n) => h \in [Address -> U128] /\ SumFunction(h) = SumFunction(f)
  <2> SUFFICES ASSUME Arrives(d, from, to, n)
               PROVE  h \in [Address -> U128] /\ SumFunction(h) = SumFunction(f)
    OBVIOUS
  <2>1. g \in [Address -> U128] /\ SumFunction(g) = SumFunction(f) - n /\ g[to] + n < Word
    BY <1>8, <1>10
  <2>2. h \in [Address -> U128] /\ g[to] \in Nat
    <3>1. g[to] \in Nat /\ g[to] + n \in U128
      BY <1>2, <2>1 DEF U128
    <3> HIDE DEF g
    <3> QED BY <2>1, <3>1
  <2>3. /\ \A x \in Address : g[x] \in Int /\ h[x] \in Int
    BY <2>1, <2>2 DEF U128
  <2> HIDE DEF f, g, h
  <2>4. SumFunction(h) = SumFunction(g) + h[to] - g[to]
    BY <1>4, <1>5, <2>3, OneChanges
  <2>5. SumFunction(f) \in Int
    BY <1>6
  <2> QED BY <1>2, <1>5, <2>1, <2>2, <2>4, <2>5
<1> HIDE DEF f, g, h
<1>12. DOMAIN balances = Denom /\ balances \in [Denom -> [Address -> U128]]
  BY DEF StoresOK
<1>13. balances[d] = f
  BY DEF f
<1>14. CASE Arrives(d, from, to, n)
  <2>1. /\ balances' \in [Denom -> [Address -> U128]] /\ balances'[d] = h
        /\ \A e \in Denom \ {d} : balances'[e] = balances[e]
    BY <1>9, <1>11, <1>12, <1>14
  <2>2. Held(d)' = Held(d) /\ \A e \in Denom \ {d} : Held(e)' = Held(e)
    BY <1>6, <1>11, <1>14, <2>1 DEF Held
  <2>3. /\ \A x \in Address \ {from, to} : h[x] = f[x]
        /\ from # to => h[from] = f[from] - n /\ h[to] = f[to] + n
        /\ from = to => h[to] = f[to]
    BY <1>1, <1>2, <1>4, <1>5
  <2>4. Held(d)' <= Held(d)
    BY <1>6, <2>2
  <2> QED BY <1>8, <1>13, <1>14, <2>1, <2>2, <2>3, <2>4
<1>15. CASE Sends(d, from, n) /\ ~Arrives(d, from, to, n)
  <2>1. /\ balances' \in [Denom -> [Address -> U128]] /\ balances'[d] = g
        /\ \A e \in Denom \ {d} : balances'[e] = balances[e]
    BY <1>9, <1>10, <1>12, <1>15
  <2>2. Held(d)' = Held(d) - n /\ \A e \in Denom \ {d} : Held(e)' = Held(e)
    BY <1>6, <1>10, <1>15, <2>1 DEF Held
  <2>3. Held(d)' <= Held(d)
    BY <1>2, <1>6, <2>2
  <2> QED BY <1>4, <1>13, <1>15, <2>1, <2>2, <2>3
<1>16. CASE ~Sends(d, from, n)
  <2>1. UNCHANGED balances /\ ~Arrives(d, from, to, n)
    BY <1>8, <1>9, <1>16
  <2>2. \A e \in Denom : Held(e)' = Held(e)
    BY <2>1, Stays
  <2>3. Held(d)' <= Held(d)
    BY <1>6, <2>2
  <2> QED BY <1>12, <1>16, <2>1, <2>2, <2>3
<1> QED BY <1>14, <1>15, <1>16

(* The supply leaves room for every transfer of tokens that exist. *)
LEMMA Arriving ==
  ASSUME FactoryInv, NEW d \in Denom, d \notin contested, NEW from \in Address,
         NEW to \in Address, NEW n \in U128, Sends(d, from, n)
  PROVE  Arrives(d, from, to, n)
<1> USE DEF FactoryInv
<1>1. Held(d) <= Total(d) /\ Total(d) < Word /\ Held(d) \in Nat /\ Total(d) \in Nat
  <2>1. Held(d) + UnderWay(d) <= Total(d)
    BY Covers
  <2>2. Held(d) \in Nat /\ UnderWay(d) \in Nat /\ Total(d) \in Nat /\ Total(d) < Word
    BY HeldIs, UnderWayIs, TokenOf
  <2> QED BY <2>1, <2>2
<1>2. /\ balances[d] \in [Address -> U128] /\ balances[d][from] \in Nat /\ balances[d][to] \in Nat
      /\ balances[d][to] <= Held(d)
      /\ from # to => balances[d][from] + balances[d][to] <= Held(d)
      /\ balances[d][from] >= n /\ n \in Nat
  BY BalanceOf, HeldIs DEF Sends, U128
<1>3. CASE from = to
  <2>1. Debited(d, from, n)[to] = balances[d][to] - n
    BY <1>2, <1>3 DEF Debited
  <2> QED BY <1>1, <1>2, <2>1 DEF Arrives
<1>4. CASE from # to
  <2>1. Debited(d, from, n)[to] = balances[d][to]
    BY <1>2, <1>4 DEF Debited
  <2> QED BY <1>1, <1>2, <1>4, <2>1 DEF Arrives
<1> QED BY <1>3, <1>4

LEMMA MoveStep ==
  ASSUME FactoryInv, NEW d \in Denom, NEW from \in Address, NEW to \in Address, NEW n \in U128,
         Move(d, from, to, n), UNCHANGED <<tokens, calls, contested>>
  PROVE  /\ FactoryInv'
         /\ d \notin contested => Held(d)' = Held(d)
<1> USE DEF FactoryInv
<1>1. /\ balances' \in [Denom -> [Address -> U128]]
      /\ \A e \in Denom \ {d} : Held(e)' = Held(e)
      /\ Held(d)' <= Held(d)
      /\ Arrives(d, from, to, n) \/ ~Sends(d, from, n) => Held(d)' = Held(d)
  BY MoveEffect
<1>2. StoresOK'
  BY <1>1 DEF StoresOK
<1>3. SupplyCoversBalances'
  <2>1. \A e \in Denom : /\ Held(e)' \in Nat /\ Held(e) \in Nat /\ UnderWay(e) \in Nat /\ Total(e) \in Nat
                         /\ UnderWay(e)' = UnderWay(e) /\ Total(e)' = Total(e)
    BY <1>2, HeldIs, UnderWayIs, TokenOf, SumsNext, Stays DEF Total, Registered
  <2>2. \A e \in Denom : Held(e)' <= Held(e)
    BY <1>1, <2>1
  <2> QED BY <1>2, <2>1, <2>2, SupplyStep
<1>4. SupplyWithinMax' /\ CallsWithin'
  BY DEF SupplyWithinMax, CallsWithin, Registered, Within, Doing
<1>5. d \notin contested /\ Sends(d, from, n) => Arrives(d, from, to, n)
  BY Arriving
<1> QED BY <1>1, <1>2, <1>3, <1>4, <1>5

LEMMA IssueStep ==
  ASSUME FactoryInv, NEW c \in Call, calls[c] = Idle, NEW d \in Denom, NEW x \in Address,
         NEW n \in U128, Issue(c, d, x, n)
  PROVE  FactoryInv'
<1> USE DEF FactoryInv
<1>1. /\ MayIssue(d, n) /\ Goes(c, "credit", d, x, n, NoMax)
      /\ tokens' = [tokens EXCEPT ![d].total = @ + n] /\ UNCHANGED <<balances, contested>>
  BY DEF Issue
<1>2. /\ calls' \in [Call -> FactoryCall \cup {Idle}]
      /\ \A e \in Denom : UnderWay(e)' = UnderWay(e) + (IF e = d THEN n ELSE 0)
      /\ CallsWithin'
  BY <1>1, GoesOn
<1>3. /\ Registered(d) /\ tokens[d].total + n < Word /\ Within(tokens[d].total + n, tokens[d].max)
      /\ tokens[d] \in Token /\ tokens[d].total \in U128 /\ n \in Nat
  BY <1>1, TokenOf DEF MayIssue, U128
<1>4. PICK t : t = [tokens[d] EXCEPT !.total = @ + n]
  OBVIOUS
<1>5. t \in Token /\ t.total = tokens[d].total + n /\ t.max = tokens[d].max
  BY <1>3, <1>4 DEF Token, U128
<1>6. tokens' \in [Denom -> Token \cup {NoToken}] /\ tokens'[d] = t /\ \A e \in Denom \ {d} : tokens'[e] = tokens[e]
  BY <1>1, <1>4, <1>5 DEF StoresOK
<1>7. StoresOK'
  BY <1>1, <1>2, <1>6 DEF StoresOK
<1>8. SupplyCoversBalances'
  <2>1. ASSUME NEW e \in Denom \ contested'
        PROVE  Held(e)' + UnderWay(e)' - Total(e)' <= Held(e) + UnderWay(e) - Total(e)
    <3>1. Held(e) \in Nat /\ UnderWay(e) \in Nat /\ Total(e) \in Nat /\ Held(e)' = Held(e)
      BY <1>1, HeldIs, UnderWayIs, TokenOf, Stays
    <3>2. Total(e)' = Total(e) + (IF e = d THEN n ELSE 0)
      <4>1. t # NoToken
        BY <1>5, FactorySentinels
      <4> QED BY <1>3, <1>5, <1>6, <3>1, <4>1 DEF Total, Registered
    <3> QED BY <1>2, <1>3, <3>1, <3>2
  <2> QED BY <1>1, <1>7, <2>1, SupplyStep
<1>9. SupplyWithinMax'
  <2> SUFFICES ASSUME NEW e \in Denom, Registered(e)'
               PROVE  Within(tokens'[e].total, tokens'[e].max)
    BY DEF SupplyWithinMax, Registered, Within
  <2> QED BY <1>3, <1>5, <1>6 DEF SupplyWithinMax, Registered
<1> QED BY <1>2, <1>7, <1>8, <1>9

LEMMA CreditStep ==
  ASSUME FactoryInv, NEW c \in Call, Credit(c)
  PROVE  /\ FactoryInv'
         /\ \A d \in Denom, x \in Address : balances'[d][x] >= balances[d][x]
<1> USE DEF FactoryInv
<1>0. PICK r, d, x, n : r = calls[c] /\ d = r.denom /\ x = r.holder /\ n = r.amount
  OBVIOUS
<1>1. r # Idle /\ r.at = "credit" /\ Ends(c) /\ UNCHANGED <<tokens, contested>>
  BY <1>0 DEF Credit, Doing
<1>2. d \in Denom /\ x \in Address /\ n \in U128 /\ n \in Nat
  BY <1>0, <1>1, CallOf
<1>3. balances[d][x] \in Nat
  BY <1>2, BalanceOf
<1>4. PICK m : m = IF balances[d][x] + n < Word THEN balances[d][x] + n ELSE balances[d][x]
  OBVIOUS
<1>5. m \in U128 /\ m \in Nat /\ balances[d][x] <= m /\ m <= balances[d][x] + n
  BY <1>2, <1>3, <1>4, BalanceOf DEF U128
<1>6. Sets(d, x, m)
  <2>1. balances = [balances EXCEPT ![d][x] = balances[d][x]]
    BY <1>2 DEF StoresOK
  <2> QED BY <1>0, <1>4, <2>1 DEF Credit, Fits, Sets
<1>7. /\ balances' \in [Denom -> [Address -> U128]]
      /\ \A e \in Denom \ {d} : balances'[e] = balances[e] /\ Held(e)' = Held(e)
      /\ Held(d)' = Held(d) + m - balances[d][x]
      /\ balances'[d][x] = m /\ \A y \in Address \ {x} : balances'[d][y] = balances[d][y]
  BY <1>2, <1>5, <1>6, BalanceChanges
<1>8. /\ calls' \in [Call -> FactoryCall \cup {Idle}]
      /\ \A e \in Denom : UnderWay(e)' = UnderWay(e) - Pending(r, e)
      /\ CallsWithin'
  BY <1>0, <1>1, EndsCall
<1>9. StoresOK'
  BY <1>1, <1>7, <1>8 DEF StoresOK
<1>10. SupplyCoversBalances'
  <2>1. ASSUME NEW e \in Denom \ contested'
        PROVE  Held(e)' + UnderWay(e)' - Total(e)' <= Held(e) + UnderWay(e) - Total(e)
    <3>1. Held(e) \in Nat /\ UnderWay(e) \in Nat /\ Total(e) \in Nat /\ Total(e)' = Total(e)
      BY <1>1, HeldIs, UnderWayIs, TokenOf DEF Total, Registered
    <3>2. CASE e = d
      <4>1. Pending(r, e) = n
        BY <1>0, <1>1, <3>2 DEF Pending
      <4>2. Held(e)' = Held(e) + m - balances[d][x] /\ UnderWay(e)' = UnderWay(e) - n
        BY <1>7, <1>8, <3>2, <4>1
      <4> QED BY <1>2, <1>3, <1>5, <3>1, <4>2
    <3>3. CASE e # d
      <4>1. Pending(r, e) = 0
        BY <1>0, <3>3 DEF Pending
      <4>2. UnderWay(e)' = UnderWay(e) /\ Held(e)' = Held(e)
        BY <1>7, <1>8, <3>1, <3>3, <4>1
      <4> QED BY <3>1, <4>2
    <3> QED BY <3>2, <3>3
  <2> QED BY <1>1, <1>9, <2>1, SupplyStep
<1>11. SupplyWithinMax'
  BY <1>1 DEF SupplyWithinMax, Registered, Within
<1>12. ASSUME NEW e \in Denom, NEW y \in Address
       PROVE  balances'[e][y] >= balances[e][y]
  <2>1. balances[e][y] \in Nat
    BY BalanceOf
  <2> QED BY <1>5, <1>7, <2>1
<1> QED BY <1>8, <1>9, <1>10, <1>11, <1>12

LEMMA WithdrawStep ==
  ASSUME FactoryInv, NEW c \in Call, calls[c] = Idle, NEW d \in Denom, NEW x \in Address,
         NEW n \in U128, Withdraw(c, d, x, n)
  PROVE  /\ FactoryInv'
         /\ \A e \in Denom, y \in Address : y # x => balances'[e][y] = balances[e][y]
<1> USE DEF FactoryInv
<1>1. /\ MayBurn(d, x, n) /\ Goes(c, "reduce", d, x, n, NoMax) /\ UNCHANGED <<tokens, contested>>
      /\ balances' = [balances EXCEPT ![d] = Debited(d, x, n)]
  BY DEF Withdraw
<1>2. n \in Nat /\ balances[d][x] \in Nat /\ balances[d][x] >= n /\ balances[d][x] - n \in U128
  BY <1>1, BalanceOf DEF MayBurn, U128
<1>3. Sets(d, x, balances[d][x] - n)
  BY <1>1, <1>2 DEF Debited, Sets, StoresOK
<1>4. PICK m : m = balances[d][x] - n
  OBVIOUS
<1>5. /\ balances' \in [Denom -> [Address -> U128]]
      /\ \A e \in Denom \ {d} : balances'[e] = balances[e] /\ Held(e)' = Held(e)
      /\ Held(d)' = Held(d) + m - balances[d][x]
      /\ balances'[d][x] = m /\ \A y \in Address \ {x} : balances'[d][y] = balances[d][y]
  BY <1>2, <1>3, <1>4, BalanceChanges
<1>6. /\ calls' \in [Call -> FactoryCall \cup {Idle}]
      /\ \A e \in Denom : UnderWay(e)' = UnderWay(e) + (IF e = d THEN n ELSE 0)
      /\ CallsWithin'
  BY <1>1, GoesOn
<1>7. StoresOK'
  BY <1>1, <1>5, <1>6 DEF StoresOK
<1>8. SupplyCoversBalances'
  <2>1. ASSUME NEW e \in Denom \ contested'
        PROVE  Held(e)' + UnderWay(e)' - Total(e)' <= Held(e) + UnderWay(e) - Total(e)
    <3>1. Held(e) \in Nat /\ UnderWay(e) \in Nat /\ Total(e) \in Nat /\ Total(e)' = Total(e)
      BY <1>1, HeldIs, UnderWayIs, TokenOf DEF Total, Registered
    <3>2. CASE e = d
      <4>1. Held(e)' = Held(e) + m - balances[d][x] /\ UnderWay(e)' = UnderWay(e) + n
        BY <1>5, <1>6, <3>2
      <4> QED BY <1>2, <1>4, <3>1, <4>1
    <3>3. CASE e # d
      <4>2. UnderWay(e)' = UnderWay(e) /\ Held(e)' = Held(e)
        BY <1>5, <1>6, <3>1, <3>3
      <4> QED BY <3>1, <4>2
    <3> QED BY <3>2, <3>3
  <2> QED BY <1>1, <1>7, <2>1, SupplyStep
<1>9. SupplyWithinMax'
  BY <1>1 DEF SupplyWithinMax, Registered, Within
<1>10. \A e \in Denom, y \in Address : y # x => balances'[e][y] = balances[e][y]
  BY <1>5
<1> QED BY <1>6, <1>7, <1>8, <1>9, <1>10

LEMMA ReduceStep ==
  ASSUME FactoryInv, NEW c \in Call, Reduce(c)
  PROVE  /\ FactoryInv'
         /\ \A e \in Denom : /\ Total(e)' <= Total(e) /\ Registered(e)' = Registered(e)
                             /\ Registered(e) => tokens'[e].max = tokens[e].max
         /\ \A e \in Denom \ contested :
              e = calls[c].denom => Total(e)' = Total(e) - calls[c].amount
<1> USE DEF FactoryInv
<1>0. PICK r, d, n : r = calls[c] /\ d = r.denom /\ n = r.amount
  OBVIOUS
<1>1. r # Idle /\ r.at = "reduce" /\ Ends(c) /\ UNCHANGED <<balances, contested>>
  BY <1>0 DEF Reduce, Doing
<1>2. d \in Denom /\ n \in U128 /\ n \in Nat
  BY <1>0, <1>1, CallOf
<1>3. tokens' = IF Registered(d) THEN [tokens EXCEPT ![d].total = Less(@, n)] ELSE tokens
  BY <1>0 DEF Reduce
<1>4. /\ tokens' \in [Denom -> Token \cup {NoToken}]
      /\ \A e \in Denom \ {d} : tokens'[e] = tokens[e]
      /\ Registered(d) =>
           /\ tokens'[d] \in Token /\ tokens'[d].max = tokens[d].max
           /\ tokens'[d].total = Less(tokens[d].total, n)
      /\ ~Registered(d) => tokens'[d] = tokens[d]
  <2>1. CASE Registered(d)
    <3>1. PICK t : t = [tokens[d] EXCEPT !.total = Less(@, n)]
      OBVIOUS
    <3>2. tokens[d] \in Token /\ tokens[d].total \in U128
      BY <1>2, <2>1, TokenOf
    <3>3. Less(tokens[d].total, n) \in U128
      BY <1>2, <3>2 DEF Less, U128
    <3>4. t \in Token /\ t.max = tokens[d].max /\ t.total = Less(tokens[d].total, n)
      BY <3>1, <3>2, <3>3 DEF Token
    <3>5. tokens' = [tokens EXCEPT ![d] = t]
      BY <1>3, <2>1, <3>1
    <3> QED BY <1>2, <2>1, <3>4, <3>5 DEF StoresOK
  <2>2. CASE ~Registered(d)
    BY <1>3, <2>2 DEF StoresOK
  <2> QED BY <2>1, <2>2
<1>5. /\ calls' \in [Call -> FactoryCall \cup {Idle}]
      /\ \A e \in Denom : UnderWay(e)' = UnderWay(e) - Pending(r, e)
      /\ CallsWithin'
  BY <1>0, <1>1, EndsCall
<1>6. StoresOK'
  BY <1>1, <1>4, <1>5 DEF StoresOK
<1>7. \A e \in Denom : Registered(e)' = Registered(e)
  BY <1>4, FactorySentinels DEF Registered
<1>8. ASSUME NEW e \in Denom \ contested
      PROVE  /\ Held(e)' + UnderWay(e)' <= Total(e)'
             /\ e = d => Total(e)' = Total(e) - n
  <2>1. /\ Held(e) \in Nat /\ UnderWay(e) \in Nat /\ Total(e) \in Nat
        /\ Held(e)' = Held(e) /\ Held(e) + UnderWay(e) <= Total(e)
        /\ UnderWay(e)' \in Nat
    BY <1>1, <1>6, HeldIs, UnderWayIs, TokenOf, Stays, Covers, SumsNext
  <2>2. CASE e # d
    <3>1. Pending(r, e) = 0 /\ Total(e)' = Total(e)
      BY <1>0, <1>4, <2>2 DEF Pending, Total, Registered
    <3> QED BY <1>5, <2>1, <2>2, <3>1
  <2>3. CASE e = d
    <3>1. Pending(r, e) = n
      BY <1>0, <1>1, <2>3 DEF Pending
    <3>2. UnderWay(e)' = UnderWay(e) - n
      BY <1>5, <3>1
    <3>3. n <= Total(e)
      BY <1>2, <2>1, <3>2
    <3>4. CASE Registered(d)
      <4>1. Total(e) = tokens[d].total /\ Total(e)' = Less(tokens[d].total, n)
        BY <1>4, <1>7, <2>3, <3>4 DEF Total
      <4>2. Total(e)' = Total(e) - n
        BY <1>2, <2>1, <3>3, <4>1 DEF Less
      <4> QED BY <1>2, <2>1, <3>2, <4>2
    <3>5. CASE ~Registered(d)
      <4>1. Total(e) = 0 /\ Total(e)' = 0
        BY <1>7, <2>3, <3>5 DEF Total
      <4> QED BY <1>2, <2>1, <3>2, <3>3, <4>1
    <3> QED BY <3>4, <3>5
  <2> QED BY <2>2, <2>3
<1>12. SupplyCoversBalances'
  BY <1>1, <1>8 DEF SupplyCoversBalances, Total, Registered
<1>9. SupplyWithinMax'
  <2> SUFFICES ASSUME NEW e \in Denom, Registered(e)
               PROVE  Within(tokens'[e].total, tokens'[e].max)
    BY <1>7 DEF SupplyWithinMax, Registered, Within
  <2>1. CASE e # d
    BY <1>4, <2>1 DEF SupplyWithinMax
  <2>2. CASE e = d
    <3>1. Within(tokens[d].total, tokens[d].max) /\ tokens[d].total \in Nat /\ tokens[d].max \in U128 \cup {NoMax}
      BY <1>2, <2>2, TokenOf DEF SupplyWithinMax, Token, U128
    <3>2. Less(tokens[d].total, n) \in Nat /\ Less(tokens[d].total, n) <= tokens[d].total
      BY <1>2, <3>1 DEF Less
    <3> QED BY <1>4, <2>2, <3>1, <3>2 DEF Within, U128
  <2> QED BY <2>1, <2>2
<1>10. \A e \in Denom : Registered(e) => tokens'[e].max = tokens[e].max
  BY <1>4
<1>11. ASSUME NEW e \in Denom PROVE Total(e)' <= Total(e)
  <2>1. Total(e) \in Nat /\ (Registered(e) => Total(e) = tokens[e].total)
    BY TokenOf
  <2>2. CASE e = d /\ Registered(e)
    <3>1. Total(e)' = Less(Total(e), n)
      BY <1>4, <1>7, <2>1, <2>2 DEF Total
    <3> QED BY <1>2, <2>1, <3>1 DEF Less
  <2>3. CASE e # d \/ ~Registered(e)
    <3>1. tokens'[e] = tokens[e]
      BY <1>4, <2>3
    <3> QED BY <2>1, <3>1 DEF Total, Registered
  <2> QED BY <2>2, <2>3
<1> QED BY <1>0, <1>5, <1>6, <1>7, <1>8, <1>12, <1>9, <1>10, <1>11

-----------------------------------------------------------------------------
(* The factory by itself.                                                  *)

(* What TransfersLoseNothing says of a step. *)
Lossless ==
  \A d \in Denom \ contested :
    tokens' = tokens /\ calls' = calls => Held(d)' = Held(d)

LEMMA CreateTokenStep ==
  ASSUME FactoryInv, NEW c \in Call, NEW d \in Denom, NEW n \in Supply, NEW max \in Limit,
         CreateToken(c, d, n, max)
  PROVE  FactoryInv' /\ Lossless
<1>1. n \in U128 /\ max \in U128 \cup {NoMax}
  OBVIOUS
<1>2. calls[c] = Idle /\ Within(n, max) /\ Announce(c, d, n, max)
  BY DEF CreateToken, Accept
<1>3. FactoryInv'
  BY <1>1, <1>2, AnnounceStep
<1>4. UNCHANGED balances
  BY <1>2 DEF Announce
<1> QED BY <1>3, <1>4, Stays DEF Lossless

LEMMA TransferStep ==
  ASSUME FactoryInv, NEW d \in Denom, NEW from \in Address, NEW to \in Address,
         NEW n \in Amount, Transfer(d, from, to, n)
  PROVE  FactoryInv' /\ Lossless
<1>1. n \in U128 /\ Move(d, from, to, n) /\ UNCHANGED <<tokens, calls, contested>>
  BY DEF Transfer
<1>2. FactoryInv' /\ (d \notin contested => Held(d)' = Held(d))
  BY <1>1, MoveStep
<1>3. \A e \in Denom \ {d} : Held(e)' = Held(e)
  BY <1>1, MoveEffect DEF FactoryInv
<1> QED BY <1>2, <1>3 DEF Lossless

LEMMA MintToStep ==
  ASSUME FactoryInv, NEW c \in Call, NEW d \in Denom, NEW x \in Address, NEW n \in Amount,
         MintTo(c, d, x, n)
  PROVE  FactoryInv' /\ Lossless
<1>1. n \in U128 /\ calls[c] = Idle /\ Issue(c, d, x, n)
  BY DEF MintTo, Accept
<1>2. FactoryInv'
  BY <1>1, IssueStep
<1>3. UNCHANGED balances
  BY <1>1 DEF Issue
<1> QED BY <1>2, <1>3, Stays DEF Lossless

LEMMA BurnStep ==
  ASSUME FactoryInv, NEW c \in Call, NEW d \in Denom, NEW x \in Address, NEW n \in Amount,
         Burn(c, d, x, n)
  PROVE  FactoryInv' /\ Lossless
<1>1. n \in U128 /\ calls[c] = Idle /\ Withdraw(c, d, x, n)
  BY DEF Burn, Accept
<1>2. FactoryInv'
  BY <1>1, WithdrawStep
<1>3. calls' # calls
  BY <1>1, GoesOn DEF Withdraw, FactoryInv
<1> QED BY <1>2, <1>3 DEF Lossless

LEMMA ContinueStep ==
  ASSUME FactoryInv, NEW c \in Call, Continue(c)
  PROVE  FactoryInv' /\ Lossless
<1>1. CASE Register(c)
  BY <1>1, RegisterStep, Stays DEF Register, Lossless
<1>2. CASE Fund(c)
  <2>1. calls' # calls
    BY <1>2, EndsCall DEF Fund, Doing, FactoryInv
  <2> QED BY <1>2, <2>1, FundStep DEF Lossless
<1>3. CASE Credit(c)
  <2>1. calls' # calls
    BY <1>3, EndsCall DEF Credit, Doing, FactoryInv
  <2> QED BY <1>3, <2>1, CreditStep DEF Lossless
<1>4. CASE Reduce(c)
  BY <1>4, ReduceStep, Stays DEF Reduce, Lossless
<1> QED BY <1>1, <1>2, <1>3, <1>4 DEF Continue

StoresEmpty ==
  /\ tokens = [d \in Denom |-> NoToken]
  /\ balances = [d \in Denom |-> [x \in Address |-> 0]]
  /\ calls = [c \in Call |-> Idle]
  /\ contested = {}

LEMMA EmptyIsSound == StoresEmpty => FactoryInv
<1> SUFFICES ASSUME StoresEmpty PROVE FactoryInv
  OBVIOUS
<1>1. StoresOK
  <2>1. 0 \in U128
    BY DEF U128
  <2> QED BY <2>1 DEF StoresEmpty, StoresOK
<1>2. ASSUME NEW d \in Denom
      PROVE  Held(d) = 0 /\ UnderWay(d) = 0 /\ ~Registered(d)
  <2> DEFINE f == [c \in Call |-> Pending(calls[c], d)]
  <2>1. DOMAIN balances[d] = Address /\ \A x \in Address : balances[d][x] = 0
    BY DEF StoresEmpty
  <2>2. DOMAIN f = Call /\ \A c \in Call : f[c] = 0
    BY DEF StoresEmpty, Pending
  <2>3. UnderWay(d) = SumFunction(f)
    BY DEF UnderWay
  <2> HIDE DEF f
  <2> QED BY <2>1, <2>2, <2>3, AllZero DEF Held, StoresEmpty, Registered
<1>3. SupplyCoversBalances /\ SupplyWithinMax
  BY <1>2 DEF SupplyCoversBalances, SupplyWithinMax
<1>4. CallsWithin
  BY DEF StoresEmpty, CallsWithin, Doing
<1> QED BY <1>1, <1>3, <1>4 DEF FactoryInv

LEMMA FactoryStarts == FactoryInit => FactoryInv /\ FactoryTypeOK
<1> SUFFICES ASSUME FactoryInit PROVE FactoryInv /\ FactoryTypeOK
  OBVIOUS
<1>1. FactoryInv
  BY EmptyIsSound DEF FactoryInit, StoresEmpty
<1> QED BY <1>1 DEF FactoryInit, FactoryInv, StoresOK, FactoryTypeOK

LEMMA FactoryKeeps == FactoryInv /\ [FactoryNext]_factoryVars => FactoryInv' /\ Lossless
<1> SUFFICES ASSUME FactoryInv, [FactoryNext]_factoryVars PROVE FactoryInv' /\ Lossless
  OBVIOUS
<1>1. ASSUME NEW c \in Call, NEW d \in Denom, NEW n \in Supply, NEW max \in Limit,
             CreateToken(c, d, n, max)
      PROVE  FactoryInv' /\ Lossless
  BY <1>1, CreateTokenStep
<1>2. ASSUME NEW c \in Call, NEW d \in Denom, NEW x \in Address, NEW n \in Amount,
             MintTo(c, d, x, n) \/ Burn(c, d, x, n)
      PROVE  FactoryInv' /\ Lossless
  BY <1>2, MintToStep, BurnStep
<1>3. ASSUME NEW d \in Denom, NEW from \in Address, NEW to \in Address, NEW n \in Amount,
             Transfer(d, from, to, n)
      PROVE  FactoryInv' /\ Lossless
  BY <1>3, TransferStep
<1>4. ASSUME NEW c \in Call, Continue(c)
      PROVE  FactoryInv' /\ Lossless
  BY <1>4, ContinueStep
<1>5. CASE UNCHANGED factoryVars
  <2>1. FactoryInv'
    BY <1>5 DEF factoryVars, FactoryInv, StoresOK, SupplyCoversBalances, SupplyWithinMax,
                CallsWithin, Held, UnderWay, Pending, Registered, Within, Doing
  <2> QED BY <1>5, <2>1, Stays DEF factoryVars, Lossless
<1> QED BY <1>1, <1>2, <1>3, <1>4, <1>5 DEF FactoryNext

LEMMA FactoryCounts == FactoryTypeOK /\ [FactoryNext]_factoryVars => made' \in 0 .. MaxCalls
<1> SUFFICES ASSUME FactoryTypeOK, [FactoryNext]_factoryVars PROVE made' \in 0 .. MaxCalls
  OBVIOUS
<1>1. made' = made \/ Counted
  BY DEF FactoryNext, factoryVars, CreateToken, MintTo, Burn, Transfer, Accept
<1> QED BY <1>1 DEF FactoryTypeOK, Counted

LEMMA FactoryInvariant == FactorySpec => [](FactoryInv /\ FactoryTypeOK)
<1>1. FactoryInit => FactoryInv /\ FactoryTypeOK
  BY FactoryStarts
<1>2. (FactoryInv /\ FactoryTypeOK) /\ [FactoryNext]_factoryVars => (FactoryInv /\ FactoryTypeOK)'
  BY FactoryKeeps, FactoryCounts DEF FactoryInv, StoresOK, FactoryTypeOK
<1> QED BY <1>1, <1>2, PTL DEF FactorySpec

(* Tokens, balances and calls have their types. *)
THEOREM FactoryTypes == FactorySpec => []FactoryTypeOK
BY FactoryInvariant, PTL

(* However creations, mints, burns and transfers interleave, no more       *)
(* tokens of a denom exist than its supply says, unless two creations of   *)
(* it passed the look-up.                                                  *)
THEOREM SuppliesCoverBalances == FactorySpec => []SupplyCoversBalances
<1>1. FactoryInv => SupplyCoversBalances
  BY DEF FactoryInv
<1> QED BY <1>1, FactoryInvariant, PTL

(* No supply is ever above its maximum. *)
THEOREM SuppliesWithinMax == FactorySpec => []SupplyWithinMax
<1>1. FactoryInv => SupplyWithinMax
  BY DEF FactoryInv
<1> QED BY <1>1, FactoryInvariant, PTL

(* A transfer never makes or loses tokens. *)
THEOREM TransfersAreLossless == FactorySpec => TransfersLoseNothing
<1>1. FactoryInv /\ [FactoryNext]_factoryVars => [Lossless]_factoryVars
  BY FactoryKeeps
<1>2. Lossless <=> \A d \in Denom \ contested :
                     tokens' = tokens /\ calls' = calls => Held(d)' = Held(d)
  BY DEF Lossless
<1>3. FactoryInv /\ [FactoryNext]_factoryVars =>
        [\A d \in Denom \ contested :
           tokens' = tokens /\ calls' = calls => Held(d)' = Held(d)]_factoryVars
  BY <1>1, <1>2
<1> QED BY <1>3, FactoryInvariant, PTL DEF FactorySpec, TransfersLoseNothing

-----------------------------------------------------------------------------
(* The exchange: its inductive invariant.                                  *)

(* Steps an order of each kind makes. *)
OrderOK(o) ==
  /\ o.kind = "create" =>
       /\ o.at \in {"payA", "payB", "announce", "issue", "hand", "open", "save"}
       /\ o.a > 0 /\ o.b > 0
       /\ o.at \in {"issue", "hand", "open"} => o.lp > 0
  /\ o.kind = "sellA" => o.at \in {"payA", "fee", "getB", "save"}
  /\ o.kind = "sellB" => o.at \in {"payB", "fee", "getA", "save"}
  /\ o.kind = "add" => o.at \in {"payA", "payB", "mint", "credit", "save"}
  /\ o.kind = "remove" => o.at \in {"burn", "reduce", "getA", "getB", "save"}

OrdersOK == \A c \in Call : orders[c] # NoOrder => OrderOK(orders[c])

(* A call of the factory that is no part of an order, and one that is. *)
ForeignCall(r) ==
  r # Idle /\ r.at \in {"register", "fund"} =>
    r.holder = Creator[r.denom] /\ r.holder \in User

OrderCall(o, r) ==
  IF o.at \in {"issue", "credit", "reduce"}
    THEN /\ r # Idle /\ r.denom = LpOf[o.pair] /\ r.amount = o.lp
         /\ o.at = "issue" => /\ r.at \in {"register", "fund"}
                              /\ r.holder = o.pair /\ r.max = NoMax
         /\ o.at = "credit" => r.at = "credit"
         /\ o.at = "reduce" => r.at = "reduce"
    ELSE r = Idle

Matches(o, r) ==
  IF o = NoOrder THEN ForeignCall(r) ELSE OrderOK(o) /\ OrderCall(o, r)

OrdersMatch == \A c \in Call : Matches(orders[c], calls[c])

OrderOf(o, p) == o # NoOrder /\ o.pair = p

(* A creation that has stored the share token and not yet the pool. *)
IsOpening(o, r, p) ==
  /\ OrderOf(o, p) /\ o.kind = "create"
  /\ \/ o.at = "issue" /\ r # Idle /\ r.at = "fund"
     \/ o.at \in {"hand", "open"}

Opening(c, p) == IsOpening(orders[c], calls[c], p)

PairSound(p) ==
  /\ Registered(LpOf[p]) => tokens[LpOf[p]].max = NoMax
  /\ pools[p] = NoPool =>
       \A c \in Call : OrderOf(orders[c], p) => orders[c].kind = "create"
  /\ pools[p] # NoPool /\ ~Registered(LpOf[p]) =>
       \A c \in Call : OrderOf(orders[c], p) => orders[c].kind # "create"
  /\ \A c \in Call : Opening(c, p) => Registered(LpOf[p])

PairOpens(p) ==
  LpOf[p] \notin contested =>
    /\ \A c \in Call : Opening(c, p) =>
         /\ pools[p] = NoPool
         /\ \A e \in Call : Opening(e, p) => e = c
         /\ tokens[LpOf[p]].total <= orders[c].lp
         /\ orders[c].at = "hand" => balances[LpOf[p]][p] >= orders[c].lp
    /\ Registered(LpOf[p]) /\ pools[p] = NoPool => \E c \in Call : Opening(c, p)

(* What an order has changed in the shares of the pool and not yet in the  *)
(* supply of the share token.                                              *)
ShareClaim(o, p) ==
  IF ~OrderOf(o, p) THEN 0
  ELSE IF o.kind = "add" /\ o.at \in {"payA", "payB", "mint"} THEN o.lp
  ELSE IF o.kind = "remove" /\ o.at \in {"burn", "reduce"} THEN -o.lp
  ELSE 0

ShareClaims(p) == SumFunction([c \in Call |-> ShareClaim(orders[c], p)])

SharesBooked(p) ==
  LpOf[p] \notin contested /\ p \notin overdrawn /\ pools[p] # NoPool =>
    Total(LpOf[p]) + ShareClaims(p) <= pools[p].shares + unburnt[p]

Backed(r) == r # NoPool /\ r.shares > 0 => Divisible(r)

PairInv(p) == PairSound(p) /\ PairOpens(p) /\ SharesBooked(p)

DexInv ==
  /\ FactoryInv
  /\ DexTypeOK
  /\ OrdersMatch
  /\ PoolsAreCovered
  /\ \A p \in Pair : PairInv(p)
  /\ \A p \in Pair \ overdrawn : Backed(pools[p]) /\ Backed(saved[p])

-----------------------------------------------------------------------------
(* Types and sums.                                                         *)

LEMMA OrderTypes ==
  ASSUME NEW o \in Order
  PROVE  /\ o.pair \in Pair /\ o.user \in User /\ o.user \in Address /\ o.user \notin Pair
         /\ o.a \in U128 /\ o.b \in U128 /\ o.lp \in U128 /\ o.fee \in U128
         /\ o.a \in Nat /\ o.b \in Nat /\ o.lp \in Nat /\ o.fee \in Nat
         /\ o # NoOrder
BY DexSentinels DEF Order, User, U128

LEMMA PairTypes ==
  ASSUME NEW p \in Pair
  PROVE  /\ p \in Address /\ p \notin User
         /\ TokenA[p] \in Denom /\ TokenB[p] \in Denom /\ LpOf[p] \in Denom
         /\ Creator[LpOf[p]] = p /\ LpOf[p] # TokenA[p] /\ LpOf[p] # TokenB[p]
BY DexConstants DEF User

LEMMA PoolTypes ==
  ASSUME NEW r \in Pool
  PROVE  /\ r.a \in Nat /\ r.b \in Nat /\ r.shares \in Nat /\ r # NoPool
         /\ r.a < Word /\ r.b < Word /\ r.shares < Word
         /\ r.a \in U128 /\ r.b \in U128 /\ r.shares \in U128
BY DexSentinels DEF Pool, U128

LEMMA PartType ==
  ASSUME NEW p, NEW d, NEW a \in Nat, NEW b \in Nat
  PROVE  PartIn(p, d, a, b) \in Nat
BY DEF PartIn

LEMMA PartAdds ==
  ASSUME NEW p, NEW d, NEW a \in Int, NEW b \in Int, NEW x \in Int, NEW y \in Int
  PROVE  /\ PartIn(p, d, a, b) \in Int
         /\ PartIn(p, d, a + x, b + y) = PartIn(p, d, a, b) + PartIn(p, d, x, y)
         /\ PartIn(p, d, a - x, b - y) = PartIn(p, d, a, b) - PartIn(p, d, x, y)
         /\ PartIn(p, d, 0, 0) = 0
         /\ a <= x /\ b <= y => PartIn(p, d, a, b) <= PartIn(p, d, x, y)
BY DEF PartIn

LEMMA ReserveType ==
  ASSUME NEW r \in Pool \cup {NoPool}, NEW p, NEW d
  PROVE  /\ Reserve(r, p, d) \in Nat
         /\ r # NoPool => Reserve(r, p, d) = PartIn(p, d, r.a, r.b)
         /\ r = NoPool => Reserve(r, p, d) = 0
BY PoolTypes, PartType DEF Reserve

LEMMA ClaimTypes ==
  ASSUME NEW o \in Order, NEW d
  PROVE  Due(o, d) \in Nat /\ Owed(o, d) \in Nat
<1> USE OrderTypes
<1>1. Due(o, d) \in Nat
  BY PartType DEF Due
<1>2. Owed(o, d) \in Nat
  BY PartType DEF Owed
<1> QED BY <1>1, <1>2

LEMMA OwingType ==
  ASSUME NEW o \in Order \cup {NoOrder}, NEW p, NEW d
  PROVE  /\ Owing(o, p, d) \in Int /\ ShareClaim(o, p) \in Int /\ ToBurn(o, p) \in Nat
         /\ ~OrderOf(o, p) => Owing(o, p, d) = 0 /\ ShareClaim(o, p) = 0 /\ ToBurn(o, p) = 0
         /\ OrderOf(o, p) => Owing(o, p, d) = Owed(o, d) - Due(o, d)
<1>1. CASE o = NoOrder
  BY <1>1 DEF Owing, ShareClaim, ToBurn, OrderOf
<1>2. CASE o \in Order
  BY <1>2, ClaimTypes, OrderTypes DEF Owing, ShareClaim, ToBurn, OrderOf
<1> QED BY <1>1, <1>2

Owings(p, d) == SumFunction([c \in Call |-> Owing(orders[c], p, d)])

SetsOrder(c, o) == orders' = [orders EXCEPT ![c] = o]

LEMMA OrderChanges ==
  ASSUME orders \in [Call -> Order \cup {NoOrder}], NEW c \in Call,
         NEW o \in Order \cup {NoOrder}, SetsOrder(c, o)
  PROVE  /\ orders' \in [Call -> Order \cup {NoOrder}]
         /\ orders'[c] = o /\ \A e \in Call \ {c} : orders'[e] = orders[e]
         /\ \A p, d : /\ Owings(p, d) \in Int
                      /\ Owings(p, d)' = Owings(p, d) + Owing(o, p, d) - Owing(orders[c], p, d)
         /\ \A p : /\ ShareClaims(p) \in Int
                   /\ ShareClaims(p)' =
                        ShareClaims(p) + ShareClaim(o, p) - ShareClaim(orders[c], p)
<1>1. /\ orders' \in [Call -> Order \cup {NoOrder}]
      /\ orders'[c] = o /\ \A e \in Call \ {c} : orders'[e] = orders[e]
  BY DEF SetsOrder
<1>2. ASSUME NEW p, NEW d
      PROVE  /\ Owings(p, d) \in Int
             /\ Owings(p, d)' = Owings(p, d) + Owing(o, p, d) - Owing(orders[c], p, d)
  <2> DEFINE f == [e \in Call |-> Owing(orders[e], p, d)]
             g == [e \in Call |-> Owing(orders'[e], p, d)]
  <2>1. /\ DOMAIN f = Call /\ DOMAIN g = Call
        /\ \A e \in Call : f[e] \in Int /\ g[e] \in Int
        /\ \A e \in Call \ {c} : g[e] = f[e]
        /\ f[c] = Owing(orders[c], p, d) /\ g[c] = Owing(o, p, d)
    BY <1>1, OwingType
  <2>2. Owings(p, d) = SumFunction(f) /\ Owings(p, d)' = SumFunction(g)
    BY DEF Owings
  <2> HIDE DEF f, g
  <2>3. SumFunction(g) = SumFunction(f) + g[c] - f[c]
    BY <2>1, OneChanges
  <2>4. SumFunction(f) \in Int
    BY <2>1, Whole
  <2> QED BY <2>1, <2>2, <2>3, <2>4
<1>3. ASSUME NEW p
      PROVE  /\ ShareClaims(p) \in Int
             /\ ShareClaims(p)' = ShareClaims(p) + ShareClaim(o, p) - ShareClaim(orders[c], p)
  <2> DEFINE f == [e \in Call |-> ShareClaim(orders[e], p)]
             g == [e \in Call |-> ShareClaim(orders'[e], p)]
  <2>1. /\ DOMAIN f = Call /\ DOMAIN g = Call
        /\ \A e \in Call : f[e] \in Int /\ g[e] \in Int
        /\ \A e \in Call \ {c} : g[e] = f[e]
        /\ f[c] = ShareClaim(orders[c], p) /\ g[c] = ShareClaim(o, p)
    BY <1>1, OwingType
  <2>2. ShareClaims(p) = SumFunction(f) /\ ShareClaims(p)' = SumFunction(g)
    BY DEF ShareClaims
  <2> HIDE DEF f, g
  <2>3. SumFunction(g) = SumFunction(f) + g[c] - f[c]
    BY <2>1, OneChanges
  <2>4. SumFunction(f) \in Int
    BY <2>1, Whole
  <2> QED BY <2>1, <2>2, <2>3, <2>4
<1> QED BY <1>1, <1>2, <1>3

LEMMA OrdersStay ==
  UNCHANGED orders => /\ \A p, d : Owings(p, d)' = Owings(p, d)
                      /\ \A p : ShareClaims(p)' = ShareClaims(p)
BY DEF Owings, ShareClaims

LEMMA OwingsType ==
  ASSUME orders \in [Call -> Order \cup {NoOrder}], NEW p, NEW d
  PROVE  Owings(p, d) \in Int /\ ShareClaims(p) \in Int
<1> DEFINE f == [e \in Call |-> Owing(orders[e], p, d)]
           g == [e \in Call |-> ShareClaim(orders[e], p)]
<1>1. DOMAIN f = Call /\ DOMAIN g = Call /\ \A e \in Call : f[e] \in Int /\ g[e] \in Int
  BY OwingType
<1>2. Owings(p, d) = SumFunction(f) /\ ShareClaims(p) = SumFunction(g)
  BY DEF Owings, ShareClaims
<1> HIDE DEF f, g
<1> QED BY <1>1, <1>2, Whole

-----------------------------------------------------------------------------
(* What a step has to show for the parts of the invariant.                 *)

LEMMA DexTypes ==
  ASSUME DexInv
  PROVE  /\ FactoryInv /\ StoresOK /\ OrdersMatch /\ PoolsAreCovered
         /\ orders \in [Call -> Order \cup {NoOrder}]
         /\ pools \in [Pair -> Pool \cup {NoPool}] /\ saved \in [Pair -> Pool \cup {NoPool}]
         /\ missed \in [Pair -> [Denom -> Nat]] /\ unburnt \in [Pair -> Nat]
         /\ overdrawn \subseteq Pair
         /\ balances \in [Denom -> [Address -> U128]]
         /\ made \in 0 .. MaxCalls /\ up \in BOOLEAN /\ restarts \in 0 .. MaxRestarts
BY DEF DexInv, DexTypeOK, FactoryTypeOK, FactoryInv, StoresOK

LEMMA MatchKeeps ==
  ASSUME OrdersMatch, NEW c \in Call,
         \A e \in Call \ {c} : orders'[e] = orders[e] /\ calls'[e] = calls[e],
         Matches(orders'[c], calls'[c])
  PROVE  OrdersMatch'
BY DEF OrdersMatch

(* Tokens that a pair does not trade are no part of its reserves. *)
LEMMA NoPart ==
  ASSUME NEW p \in Pair, NEW d \in Denom, d \notin {TokenA[p], TokenB[p]},
         orders \in [Call -> Order \cup {NoOrder}]
  PROVE  /\ \A r : Reserve(r, p, d) = 0
         /\ Owings(p, d) = 0
<1>1. \A a, b : PartIn(p, d, a, b) = 0
  BY DEF PartIn
<1>2. \A e \in Call : Owing(orders[e], p, d) = 0
  BY <1>1 DEF Owing, Owed, Due
<1> DEFINE f == [e \in Call |-> Owing(orders[e], p, d)]
<1>3. DOMAIN f = Call /\ \A e \in Call : f[e] = 0
  BY <1>2
<1>4. Owings(p, d) = SumFunction(f)
  BY DEF Owings
<1> HIDE DEF f
<1> QED BY <1>1, <1>3, <1>4, AllZero DEF Reserve

LEMMA NoPartNext ==
  ASSUME NEW p \in Pair, NEW d \in Denom, d \notin {TokenA[p], TokenB[p]},
         orders' \in [Call -> Order \cup {NoOrder}]
  PROVE  Owings(p, d)' = 0
<1>1. \A a, b : PartIn(p, d, a, b) = 0
  BY DEF PartIn
<1>2. \A e \in Call : Owing(orders'[e], p, d) = 0
  BY <1>1 DEF Owing, Owed, Due
<1> DEFINE f == [e \in Call |-> Owing(orders'[e], p, d)]
<1>3. DOMAIN f = Call /\ \A e \in Call : f[e] = 0
  BY <1>2
<1>4. Owings(p, d)' = SumFunction(f)
  BY DEF Owings
<1> HIDE DEF f
<1> QED BY <1>3, <1>4, AllZero

LEMMA OwingsTypeNext ==
  ASSUME orders' \in [Call -> Order \cup {NoOrder}], NEW p, NEW d
  PROVE  Owings(p, d)' \in Int /\ ShareClaims(p)' \in Int
<1> DEFINE f == [e \in Call |-> Owing(orders'[e], p, d)]
           g == [e \in Call |-> ShareClaim(orders'[e], p)]
<1>1. DOMAIN f = Call /\ DOMAIN g = Call /\ \A e \in Call : f[e] \in Int /\ g[e] \in Int
  BY OwingType
<1>2. Owings(p, d)' = SumFunction(f) /\ ShareClaims(p)' = SumFunction(g)
  BY DEF Owings, ShareClaims
<1> HIDE DEF f, g
<1> QED BY <1>1, <1>2, Whole

LEMMA TermsAre ==
  ASSUME DexInv, NEW p \in Pair, NEW d \in Denom
  PROVE  /\ balances[d][p] \in Nat /\ missed[p][d] \in Nat /\ Reserve(pools[p], p, d) \in Nat
         /\ Owings(p, d) \in Int
<1>1. p \in Address
  BY PairTypes
<1>2. balances[d][p] \in Nat
  BY <1>1, DexTypes, BalanceOf
<1>3. missed[p][d] \in Nat
  BY DexTypes
<1>4. Reserve(pools[p], p, d) \in Nat
  <2>1. pools[p] \in Pool \cup {NoPool}
    BY DexTypes
  <2> QED BY <2>1, ReserveType
<1>5. Owings(p, d) \in Int
  BY DexTypes, OwingsType
<1> QED BY <1>2, <1>3, <1>4, <1>5

LEMMA TermsNext ==
  ASSUME balances' \in [Denom -> [Address -> U128]], missed' \in [Pair -> [Denom -> Nat]],
         pools' \in [Pair -> Pool \cup {NoPool}], NEW p \in Pair, NEW d \in Denom
  PROVE  /\ balances'[d][p] \in Nat /\ missed'[p][d] \in Nat
         /\ Reserve(pools'[p], p, d) \in Nat
<1>1. p \in Address
  BY PairTypes
<1>2. balances'[d][p] \in Nat
  BY <1>1 DEF U128
<1>3. missed'[p][d] \in Nat
  OBVIOUS
<1>4. Reserve(pools'[p], p, d) \in Nat
  <2>1. pools'[p] \in Pool \cup {NoPool}
    OBVIOUS
  <2> QED BY <2>1, ReserveType
<1> QED BY <1>2, <1>3, <1>4

LEMMA CoverStep ==
  ASSUME DexInv,
         balances' \in [Denom -> [Address -> U128]], missed' \in [Pair -> [Denom -> Nat]],
         pools' \in [Pair -> Pool \cup {NoPool}], orders' \in [Call -> Order \cup {NoOrder}],
         overdrawn \subseteq overdrawn',
         \A p \in Pair \ overdrawn' : \A d \in {TokenA[p], TokenB[p]} :
           balances'[d][p] + missed'[p][d] - Reserve(pools'[p], p, d) - Owings(p, d)'
             >= balances[d][p] + missed[p][d] - Reserve(pools[p], p, d) - Owings(p, d)
  PROVE  PoolsAreCovered'
<1> SUFFICES ASSUME NEW p \in Pair \ overdrawn', NEW d \in Denom
             PROVE  balances'[d][p] + missed'[p][d] >= Reserve(pools'[p], p, d) + Owings(p, d)'
  BY DEF PoolsAreCovered, Owings
<1>1. p \in Pair /\ p \in Address /\ p \notin overdrawn
  BY PairTypes
<1>2. /\ balances[d][p] \in Nat /\ missed[p][d] \in Nat /\ Reserve(pools[p], p, d) \in Nat
      /\ Owings(p, d) \in Int
      /\ balances[d][p] + missed[p][d] >= Reserve(pools[p], p, d) + Owings(p, d)
  <2>1. balances[d][p] + missed[p][d] >= Reserve(pools[p], p, d) + Owings(p, d)
    BY <1>1 DEF DexInv, PoolsAreCovered, Owings
  <2> QED BY <1>1, <2>1, TermsAre
<1>3. /\ balances'[d][p] \in Nat /\ missed'[p][d] \in Nat /\ Reserve(pools'[p], p, d) \in Nat
      /\ Owings(p, d)' \in Int
  BY <1>1, TermsNext, OwingsTypeNext
<1>4. CASE d \in {TokenA[p], TokenB[p]}
  BY <1>2, <1>3, <1>4
<1>5. CASE d \notin {TokenA[p], TokenB[p]}
  <2>1. Reserve(pools'[p], p, d) = 0 /\ Owings(p, d)' = 0
    BY <1>1, <1>5, NoPart, NoPartNext, DexTypes
  <2> QED BY <1>3, <2>1
<1> QED BY <1>4, <1>5

LEMMA CoverKeeps ==
  ASSUME DexInv, NEW c \in Call, NEW o \in Order \cup {NoOrder}, SetsOrder(c, o),
         balances' \in [Denom -> [Address -> U128]], missed' \in [Pair -> [Denom -> Nat]],
         pools' \in [Pair -> Pool \cup {NoPool}], overdrawn \subseteq overdrawn',
         \A p \in Pair \ overdrawn' : \A d \in {TokenA[p], TokenB[p]} :
           balances'[d][p] + missed'[p][d] - Reserve(pools'[p], p, d) - Owing(o, p, d)
             >= balances[d][p] + missed[p][d] - Reserve(pools[p], p, d) - Owing(orders[c], p, d)
  PROVE  PoolsAreCovered'
<1>1. /\ orders' \in [Call -> Order \cup {NoOrder}]
      /\ \A p, d : /\ Owings(p, d) \in Int
                   /\ Owings(p, d)' = Owings(p, d) + Owing(o, p, d) - Owing(orders[c], p, d)
  BY OrderChanges, DexTypes
<1>2. ASSUME NEW p \in Pair \ overdrawn', NEW d \in {TokenA[p], TokenB[p]}
      PROVE  balances'[d][p] + missed'[p][d] - Reserve(pools'[p], p, d) - Owings(p, d)'
               >= balances[d][p] + missed[p][d] - Reserve(pools[p], p, d) - Owings(p, d)
  <2>1. p \in Pair /\ p \in Address /\ d \in Denom /\ orders[c] \in Order \cup {NoOrder}
    BY PairTypes, DexTypes
  <2>2. /\ balances[d][p] \in Nat /\ missed[p][d] \in Nat /\ Reserve(pools[p], p, d) \in Nat
        /\ balances'[d][p] \in Nat /\ missed'[p][d] \in Nat /\ Reserve(pools'[p], p, d) \in Nat
    BY <2>1, TermsAre, TermsNext
  <2>3. Owing(o, p, d) \in Int /\ Owing(orders[c], p, d) \in Int
    BY <2>1, OwingType
  <2>4. /\ Owings(p, d) \in Int
        /\ Owings(p, d)' = Owings(p, d) + Owing(o, p, d) - Owing(orders[c], p, d)
    BY <1>1
  <2> QED BY <2>2, <2>3, <2>4
<1> QED BY <1>1, <1>2, CoverStep

LEMMA CoverStays ==
  ASSUME DexInv, UNCHANGED orders,
         balances' \in [Denom -> [Address -> U128]], missed' \in [Pair -> [Denom -> Nat]],
         pools' \in [Pair -> Pool \cup {NoPool}], overdrawn \subseteq overdrawn',
         \A p \in Pair \ overdrawn' : \A d \in {TokenA[p], TokenB[p]} :
           balances'[d][p] + missed'[p][d] - Reserve(pools'[p], p, d)
             >= balances[d][p] + missed[p][d] - Reserve(pools[p], p, d)
  PROVE  PoolsAreCovered'
<1>1. orders' \in [Call -> Order \cup {NoOrder}]
  BY DexTypes
<1>2. ASSUME NEW p \in Pair \ overdrawn', NEW d \in {TokenA[p], TokenB[p]}
      PROVE  balances'[d][p] + missed'[p][d] - Reserve(pools'[p], p, d) - Owings(p, d)'
               >= balances[d][p] + missed[p][d] - Reserve(pools[p], p, d) - Owings(p, d)
  <2>1. p \in Pair /\ p \in Address /\ d \in Denom
    BY PairTypes
  <2>2. /\ balances[d][p] \in Nat /\ missed[p][d] \in Nat /\ Reserve(pools[p], p, d) \in Nat
        /\ balances'[d][p] \in Nat /\ missed'[p][d] \in Nat /\ Reserve(pools'[p], p, d) \in Nat
    BY <2>1, TermsAre, TermsNext
  <2>3. Owings(p, d)' = Owings(p, d) /\ Owings(p, d) \in Int
    BY OrdersStay, OwingsType, DexTypes
  <2> QED BY <2>2, <2>3
<1> QED BY <1>1, <1>2, CoverStep

LEMMA PairStep ==
  ASSUME DexInv, StoresOK', NEW p \in Pair, NEW d \in Denom, d = LpOf[p],
         orders' \in [Call -> Order \cup {NoOrder}],
         pools' \in [Pair -> Pool \cup {NoPool}], unburnt' \in [Pair -> Nat],
         Registered(d)' = Registered(d), Registered(d) => tokens'[d].max = tokens[d].max,
         d \in contested' <=> d \in contested,
         pools'[p] = NoPool <=> pools[p] = NoPool,
         \A e \in Call : OrderOf(orders'[e], p) =>
           \/ OrderOf(orders[e], p) /\ orders'[e].kind = orders[e].kind
           \/ orders'[e].kind = "create" <=> pools[p] = NoPool,
         \A e \in Call : IsOpening(orders'[e], calls'[e], p) =>
           /\ Opening(e, p) /\ orders'[e].lp = orders[e].lp
           /\ d \notin contested /\ orders'[e].at = "hand" => balances'[d][p] >= orders[e].lp,
         d \notin contested =>
           \A e \in Call : Opening(e, p) => IsOpening(orders'[e], calls'[e], p),
         d \notin contested /\ pools[p] = NoPool => Total(d)' <= Total(d),
         d \notin contested /\ p \notin overdrawn' /\ pools[p] # NoPool =>
           /\ p \notin overdrawn
           /\ Total(d)' + ShareClaims(p)' - pools'[p].shares - unburnt'[p]
                <= Total(d) + ShareClaims(p) - pools[p].shares - unburnt[p]
  PROVE  PairInv(p)'
<1> USE DexTypes
<1>0. PairSound(p) /\ PairOpens(p) /\ SharesBooked(p)
  BY DEF DexInv, PairInv
<1>1. PairSound(p)'
  <2>1. Registered(d)' => tokens'[d].max = NoMax
    BY <1>0 DEF PairSound
  <2>2. pools'[p] = NoPool => \A e \in Call : OrderOf(orders'[e], p) => orders'[e].kind = "create"
    BY <1>0 DEF PairSound
  <2>3. pools'[p] # NoPool /\ ~Registered(d)' =>
          \A e \in Call : OrderOf(orders'[e], p) => orders'[e].kind # "create"
    BY <1>0 DEF PairSound
  <2>4. \A e \in Call : IsOpening(orders'[e], calls'[e], p) => Registered(d)'
    BY <1>0 DEF PairSound
  <2> QED BY <2>1, <2>2, <2>3, <2>4 DEF PairSound, Opening, Registered
<1>2. PairOpens(p)'
  <2> SUFFICES ASSUME d \notin contested
               PROVE  /\ \A e \in Call : IsOpening(orders'[e], calls'[e], p) =>
                           /\ pools'[p] = NoPool
                           /\ \A g \in Call : IsOpening(orders'[g], calls'[g], p) => g = e
                           /\ tokens'[d].total <= orders'[e].lp
                           /\ orders'[e].at = "hand" => balances'[d][p] >= orders'[e].lp
                      /\ Registered(d)' /\ pools'[p] = NoPool =>
                           \E e \in Call : IsOpening(orders'[e], calls'[e], p)
    BY DEF PairOpens, Opening, Registered
  <2>1. ASSUME NEW e \in Call, IsOpening(orders'[e], calls'[e], p)
        PROVE  tokens'[d].total <= orders'[e].lp
    <3>1. /\ Opening(e, p) /\ orders'[e].lp = orders[e].lp /\ pools[p] = NoPool
          /\ tokens[d].total <= orders[e].lp
      BY <1>0, <2>1 DEF PairOpens
    <3>2. Registered(d) /\ Registered(d)'
      BY <1>0, <3>1 DEF PairSound
    <3>3. Total(d) = tokens[d].total /\ Total(d)' = tokens'[d].total /\ Total(d)' <= Total(d)
      BY <3>1, <3>2 DEF Total
    <3>4. Total(d) \in Nat /\ Total(d)' \in Nat /\ orders[e].lp \in Nat
      <4>1. orders[e] \in Order
        BY <3>1 DEF Opening, IsOpening, OrderOf
      <4> QED BY <4>1, OrderTypes, TokenOf, SumsNext
    <3> QED BY <3>1, <3>3, <3>4
  <2>2. \A e \in Call : IsOpening(orders'[e], calls'[e], p) =>
          /\ pools'[p] = NoPool
          /\ \A g \in Call : IsOpening(orders'[g], calls'[g], p) => g = e
          /\ orders'[e].at = "hand" => balances'[d][p] >= orders'[e].lp
    BY <1>0 DEF PairOpens
  <2>3. Registered(d)' /\ pools'[p] = NoPool =>
          \E e \in Call : IsOpening(orders'[e], calls'[e], p)
    BY <1>0 DEF PairOpens
  <2> QED BY <2>1, <2>2, <2>3
<1>3. SharesBooked(p)'
  <2> SUFFICES ASSUME d \notin contested, p \notin overdrawn', pools[p] # NoPool
               PROVE  Total(d)' + ShareClaims(p)' <= pools'[p].shares + unburnt'[p]
    BY DEF SharesBooked
  <2>1. Total(d) + ShareClaims(p) <= pools[p].shares + unburnt[p]
    BY <1>0 DEF SharesBooked
  <2>2. /\ Total(d) \in Nat /\ ShareClaims(p) \in Int /\ unburnt[p] \in Nat
        /\ pools[p].shares \in Nat
    <3>1. pools[p] \in Pool
      OBVIOUS
    <3> QED BY <3>1, PoolTypes, TokenOf, OwingsType
  <2>3. /\ Total(d)' \in Nat /\ ShareClaims(p)' \in Int /\ unburnt'[p] \in Nat
        /\ pools'[p].shares \in Nat
    <3>1. pools'[p] \in Pool
      OBVIOUS
    <3> QED BY <3>1, PoolTypes, SumsNext, OwingsTypeNext
  <2> QED BY <2>1, <2>2, <2>3
<1> QED BY <1>1, <1>2, <1>3 DEF PairInv

LEMMA PairKeeps ==
  ASSUME DexInv, StoresOK', NEW p \in Pair, NEW d \in Denom, d = LpOf[p],
         NEW c \in Call, NEW o \in Order \cup {NoOrder}, SetsOrder(c, o),
         \A e \in Call \ {c} : calls'[e] = calls[e],
         pools' \in [Pair -> Pool \cup {NoPool}], unburnt' \in [Pair -> Nat],
         Registered(d)' = Registered(d), Registered(d) => tokens'[d].max = tokens[d].max,
         d \in contested' <=> d \in contested,
         pools'[p] = NoPool <=> pools[p] = NoPool,
         OrderOf(o, p) =>
           \/ OrderOf(orders[c], p) /\ o.kind = orders[c].kind
           \/ o.kind = "create" <=> pools[p] = NoPool,
         IsOpening(o, calls'[c], p) =>
           /\ Opening(c, p) /\ o.lp = orders[c].lp
           /\ d \notin contested /\ o.at = "hand" => balances'[d][p] >= o.lp,
         d \notin contested /\ Opening(c, p) => IsOpening(o, calls'[c], p),
         d \notin contested /\ ~Opening(c, p) => balances'[d][p] >= balances[d][p],
         d \notin contested /\ pools[p] = NoPool => Total(d)' <= Total(d),
         d \notin contested /\ p \notin overdrawn' /\ pools[p] # NoPool =>
           /\ p \notin overdrawn
           /\ Total(d)' + ShareClaim(o, p) - pools'[p].shares - unburnt'[p]
                <= Total(d) + ShareClaim(orders[c], p) - pools[p].shares - unburnt[p]
  PROVE  PairInv(p)'
<1> USE DexTypes
<1>1. /\ orders' \in [Call -> Order \cup {NoOrder}]
      /\ orders'[c] = o /\ \A e \in Call \ {c} : orders'[e] = orders[e]
      /\ ShareClaims(p) \in Int
      /\ ShareClaims(p)' = ShareClaims(p) + ShareClaim(o, p) - ShareClaim(orders[c], p)
  BY OrderChanges
<1>2. \A e \in Call : OrderOf(orders'[e], p) =>
           \/ OrderOf(orders[e], p) /\ orders'[e].kind = orders[e].kind
           \/ orders'[e].kind = "create" <=> pools[p] = NoPool
  BY <1>1
<1>3. ASSUME NEW e \in Call, IsOpening(orders'[e], calls'[e], p)
      PROVE  /\ Opening(e, p) /\ orders'[e].lp = orders[e].lp
             /\ d \notin contested /\ orders'[e].at = "hand" => balances'[d][p] >= orders[e].lp
  <2>1. CASE e = c
    BY <1>1, <1>3, <2>1
  <2>2. CASE e # c
    <3>1. orders'[e] = orders[e] /\ calls'[e] = calls[e]
      BY <1>1, <2>2
    <3>2. Opening(e, p)
      BY <1>3, <3>1 DEF Opening
    <3>3. ASSUME d \notin contested, orders'[e].at = "hand"
          PROVE  balances'[d][p] >= orders[e].lp
      <4>1. ~Opening(c, p) /\ balances[d][p] >= orders[e].lp
        BY <2>2, <3>1, <3>2, <3>3 DEF DexInv, PairInv, PairOpens
      <4>2. balances'[d][p] >= balances[d][p]
        BY <3>3, <4>1
      <4>3. balances[d][p] \in Nat /\ balances'[d][p] \in Nat /\ orders[e].lp \in Nat
        <5>1. orders[e] \in Order
          BY <3>2 DEF Opening, IsOpening, OrderOf
        <5> QED BY <5>1, OrderTypes, BalanceOf, PairTypes DEF StoresOK, U128
      <4> QED BY <4>1, <4>2, <4>3
    <3> QED BY <3>1, <3>2, <3>3
  <2> QED BY <2>1, <2>2
<1>4. d \notin contested =>
           \A e \in Call : Opening(e, p) => IsOpening(orders'[e], calls'[e], p)
  BY <1>1 DEF Opening
<1>5. ASSUME d \notin contested, p \notin overdrawn', pools[p] # NoPool
      PROVE  /\ p \notin overdrawn
             /\ Total(d)' + ShareClaims(p)' - pools'[p].shares - unburnt'[p]
                  <= Total(d) + ShareClaims(p) - pools[p].shares - unburnt[p]
  <2>1. pools[p] \in Pool /\ pools'[p] \in Pool
    BY <1>5
  <2>2. /\ Total(d) \in Nat /\ unburnt[p] \in Nat /\ pools[p].shares \in Nat
        /\ Total(d)' \in Nat /\ unburnt'[p] \in Nat /\ pools'[p].shares \in Nat
    BY <2>1, PoolTypes, TokenOf, SumsNext
  <2>3. ShareClaim(o, p) \in Int /\ ShareClaim(orders[c], p) \in Int
    BY OwingType
  <2> QED BY <1>1, <1>5, <2>2, <2>3
<1> QED BY <1>1, <1>2, <1>3, <1>4, <1>5, PairStep

(* A pair that the step is not about. *)
LEMMA PairAway ==
  ASSUME DexInv, StoresOK', NEW p \in Pair, NEW d \in Denom, d = LpOf[p],
         NEW c \in Call, NEW o \in Order \cup {NoOrder}, SetsOrder(c, o),
         \A e \in Call \ {c} : calls'[e] = calls[e],
         ~OrderOf(o, p), ~OrderOf(orders[c], p),
         pools' \in [Pair -> Pool \cup {NoPool}], unburnt' \in [Pair -> Nat],
         Registered(d)' = Registered(d), Registered(d) => tokens'[d].max = tokens[d].max,
         Total(d)' <= Total(d), d \in contested' <=> d \in contested,
         pools'[p] = pools[p], unburnt'[p] = unburnt[p], p \in overdrawn' <=> p \in overdrawn,
         d \notin contested => balances'[d][p] >= balances[d][p]
  PROVE  PairInv(p)'
<1> USE DexTypes
<1>1. ~IsOpening(o, calls'[c], p) /\ ~Opening(c, p)
  BY DEF Opening, IsOpening
<1>2. ShareClaim(o, p) = 0 /\ ShareClaim(orders[c], p) = 0
  BY OwingType
<1>3. ASSUME pools[p] # NoPool
      PROVE  Total(d)' + ShareClaim(o, p) - pools'[p].shares - unburnt'[p]
               <= Total(d) + ShareClaim(orders[c], p) - pools[p].shares - unburnt[p]
  <2>1. pools[p] \in Pool
    BY <1>3
  <2>2. /\ Total(d) \in Nat /\ unburnt[p] \in Nat /\ pools[p].shares \in Nat /\ Total(d)' \in Nat
    BY <2>1, PoolTypes, TokenOf, SumsNext
  <2> QED BY <1>2, <2>2
<1> QED BY <1>1, <1>3, PairKeeps

(* A step that changes no order. *)
LEMMA PairStays ==
  ASSUME DexInv, StoresOK', NEW p \in Pair, NEW d \in Denom, d = LpOf[p],
         UNCHANGED orders, \A e \in Call : orders[e] # NoOrder => calls'[e] = calls[e],
         pools' \in [Pair -> Pool \cup {NoPool}], UNCHANGED <<unburnt, overdrawn>>,
         Registered(d)' = Registered(d), Registered(d) => tokens'[d].max = tokens[d].max,
         Total(d)' <= Total(d), d \in contested' <=> d \in contested,
         pools'[p] = NoPool <=> pools[p] = NoPool,
         pools[p] # NoPool => pools'[p].shares = pools[p].shares,
         d \notin contested => balances'[d][p] >= balances[d][p]
  PROVE  PairInv(p)'
<1> USE DexTypes
<1>1. \A e \in Call : IsOpening(orders'[e], calls'[e], p) <=> Opening(e, p)
  BY DEF Opening, IsOpening, OrderOf
<1>2. ASSUME NEW e \in Call, Opening(e, p), d \notin contested, orders[e].at = "hand"
      PROVE  balances'[d][p] >= orders[e].lp
  <2>1. balances[d][p] >= orders[e].lp
    BY <1>2 DEF DexInv, PairInv, PairOpens
  <2>2. balances[d][p] \in Nat /\ balances'[d][p] \in Nat /\ orders[e].lp \in Nat
    <3>1. orders[e] \in Order
      BY <1>2 DEF Opening, IsOpening, OrderOf
    <3> QED BY <3>1, OrderTypes, BalanceOf, PairTypes DEF StoresOK, U128
  <2> QED BY <1>2, <2>1, <2>2
<1>3. ASSUME pools[p] # NoPool
      PROVE  Total(d)' + ShareClaims(p)' - pools'[p].shares - unburnt'[p]
               <= Total(d) + ShareClaims(p) - pools[p].shares - unburnt[p]
  <2>1. pools[p] \in Pool
    BY <1>3
  <2>2. /\ Total(d) \in Nat /\ unburnt[p] \in Nat /\ pools[p].shares \in Nat /\ Total(d)' \in Nat
        /\ ShareClaims(p)' = ShareClaims(p) /\ ShareClaims(p) \in Int
    BY <2>1, PoolTypes, TokenOf, SumsNext, OrdersStay, OwingsType
  <2> QED BY <1>3, <2>2
<1>4. orders' \in [Call -> Order \cup {NoOrder}] /\ unburnt' \in [Pair -> Nat]
  OBVIOUS
<1> QED BY <1>1, <1>2, <1>3, <1>4, PairStep

LEMMA InvNext ==
  ASSUME FactoryInv', DexTypeOK', OrdersMatch', PoolsAreCovered',
         \A p \in Pair : PairInv(p)',
         \A p \in Pair \ overdrawn' : Backed(pools'[p]) /\ Backed(saved'[p])
  PROVE  DexInv'
BY DEF DexInv

(* Types after a step. *)
LEMMA TypesNext ==
  ASSUME DexInv, StoresOK', made' = made \/ Counted,
         pools' \in [Pair -> Pool \cup {NoPool}], saved' \in [Pair -> Pool \cup {NoPool}],
         orders' \in [Call -> Order \cup {NoOrder}], up' \in BOOLEAN, UNCHANGED restarts,
         missed' \in [Pair -> [Denom -> Nat]], unburnt' \in [Pair -> Nat],
         overdrawn' \subseteq Pair
  PROVE  DexTypeOK'
<1>1. made' \in 0 .. MaxCalls
  BY DexTypes DEF Counted
<1>2. restarts' \in 0 .. MaxRestarts
  BY DexTypes
<1> QED BY <1>1, <1>2 DEF DexTypeOK, FactoryTypeOK, StoresOK

LEMMA OrderAt ==
  ASSUME DexInv, NEW c \in Call, orders[c] # NoOrder
  PROVE  /\ orders[c] \in Order /\ OrderOK(orders[c]) /\ OrderCall(orders[c], calls[c])
         /\ orders[c].at \notin {"issue", "credit", "reduce"} => calls[c] = Idle
BY DexTypes DEF OrdersMatch, Matches, OrderCall

(* A request that ends in an error. *)
LEMMA FailKeeps ==
  ASSUME DexInv, StoresOK', NEW c \in Call, orders[c] # NoOrder, Fail(c),
         UNCHANGED <<tokens, contested, pools, overdrawn>>,
         calls'[c] = Idle, \A e \in Call \ {c} : calls'[e] = calls[e],
         unburnt' \in [Pair -> Nat],
         \A q \in Pair : \A d \in {TokenA[q], TokenB[q]} :
           balances'[d][q] >= balances[d][q] - (IF q = orders[c].pair THEN Owed(orders[c], d) ELSE 0),
         \A q \in Pair : LpOf[q] \notin contested =>
           ~Opening(c, q) /\ balances'[LpOf[q]][q] >= balances[LpOf[q]][q],
         \A q \in Pair : ShareClaim(orders[c], q) + unburnt'[q] >= unburnt[q]
  PROVE  /\ orders' \in [Call -> Order \cup {NoOrder}]
         /\ missed' \in [Pair -> [Denom -> Nat]]
         /\ OrdersMatch' /\ PoolsAreCovered' /\ \A q \in Pair : PairInv(q)'
<1> USE DexTypes
<1>0. PICK o, p : o = orders[c] /\ p = orders[c].pair
  OBVIOUS
<1>1. o \in Order /\ p \in Pair /\ p = o.pair
  BY <1>0, OrderAt, OrderTypes
<1>2. SetsOrder(c, NoOrder)
  BY DEF Fail, SetsOrder
<1>3. /\ orders' \in [Call -> Order \cup {NoOrder}]
      /\ orders'[c] = NoOrder /\ \A e \in Call \ {c} : orders'[e] = orders[e]
  BY <1>2, OrderChanges
<1>4. /\ missed' \in [Pair -> [Denom -> Nat]]
      /\ \A q \in Pair, d \in Denom :
           missed'[q][d] = missed[q][d] + (IF q = p THEN Due(o, d) ELSE 0)
  <2>1. missed' = [missed EXCEPT ![p] = [d \in Denom |-> @[d] + Due(o, d)]]
    BY <1>0 DEF Fail
  <2>2. \A d \in Denom : Due(o, d) \in Nat
    BY <1>1, ClaimTypes
  <2> QED BY <1>1, <2>1, <2>2
<1>5. OrdersMatch'
  <2>1. Matches(orders'[c], calls'[c])
    BY <1>3 DEF Matches, ForeignCall
  <2> QED BY <1>3, <2>1, MatchKeeps
<1>6. PoolsAreCovered'
  <2>1. ASSUME NEW q \in Pair \ overdrawn', NEW d \in {TokenA[q], TokenB[q]}
        PROVE  balances'[d][q] + missed'[q][d] - Reserve(pools'[q], q, d) - Owing(NoOrder, q, d)
                 >= balances[d][q] + missed[q][d] - Reserve(pools[q], q, d) - Owing(o, q, d)
    <3>1. d \in Denom /\ q \in Pair
      BY PairTypes
    <3>2. /\ balances[d][q] \in Nat /\ missed[q][d] \in Nat /\ Reserve(pools[q], q, d) \in Nat
          /\ balances'[d][q] \in Nat /\ missed'[q][d] \in Nat /\ Reserve(pools'[q], q, d) \in Nat
      <4>1. balances' \in [Denom -> [Address -> U128]]
        BY DEF StoresOK
      <4>2. pools' \in [Pair -> Pool \cup {NoPool}]
        OBVIOUS
      <4> QED BY <1>4, <3>1, <4>1, <4>2, TermsAre, TermsNext
    <3>3. Owing(NoOrder, q, d) = 0 /\ Reserve(pools'[q], q, d) = Reserve(pools[q], q, d)
      BY DEF Owing
    <3>4. /\ Due(o, d) \in Nat /\ Owed(o, d) \in Nat
          /\ Owing(o, q, d) = IF q = p THEN Owed(o, d) - Due(o, d) ELSE 0
      BY <1>0, <1>1, ClaimTypes DEF Owing
    <3>5. balances'[d][q] >= balances[d][q] - (IF q = p THEN Owed(o, d) ELSE 0)
      BY <1>0
    <3>6. missed'[q][d] = missed[q][d] + (IF q = p THEN Due(o, d) ELSE 0)
      BY <1>4, <3>1
    <3>7. CASE q = p
      BY <3>2, <3>3, <3>4, <3>5, <3>6, <3>7
    <3>8. CASE q # p
      BY <3>2, <3>3, <3>4, <3>5, <3>6, <3>8
    <3> QED BY <3>7, <3>8
  <2>2. balances' \in [Denom -> [Address -> U128]]
    BY DEF StoresOK
  <2>3. pools' \in [Pair -> Pool \cup {NoPool}] /\ overdrawn \subseteq overdrawn'
    OBVIOUS
  <2> QED BY <1>0, <1>2, <1>4, <2>1, <2>2, <2>3, CoverKeeps
<1>7. ASSUME NEW q \in Pair PROVE PairInv(q)'
  <2>0. PICK d \in Denom : d = LpOf[q]
    BY PairTypes
  <2>1. ~IsOpening(NoOrder, calls'[c], q) /\ ~OrderOf(NoOrder, q) /\ ShareClaim(NoOrder, q) = 0
    BY DEF IsOpening, OrderOf, ShareClaim
  <2>2. Registered(d)' = Registered(d) /\ Total(d)' = Total(d) /\ tokens'[d].max = tokens[d].max
    BY DEF Registered, Total
  <2>3. pools' \in [Pair -> Pool \cup {NoPool}] /\ Total(d) \in Nat
    BY TokenOf
  <2>4. ASSUME pools[q] # NoPool
        PROVE  Total(d)' + ShareClaim(NoOrder, q) - pools'[q].shares - unburnt'[q]
                 <= Total(d) + ShareClaim(orders[c], q) - pools[q].shares - unburnt[q]
    <3>1. pools[q] \in Pool /\ ShareClaim(orders[c], q) \in Int
      BY <2>4, OwingType
    <3>2. pools[q].shares \in Nat /\ unburnt[q] \in Nat /\ unburnt'[q] \in Nat /\ pools'[q] = pools[q]
      BY <3>1, PoolTypes
    <3>3. ShareClaim(orders[c], q) + unburnt'[q] >= unburnt[q]
      OBVIOUS
    <3> QED BY <2>1, <2>2, <2>3, <3>1, <3>2, <3>3
  <2>5. /\ d \notin contested => ~Opening(c, q) /\ balances'[d][q] >= balances[d][q]
        /\ d \in contested' <=> d \in contested
        /\ pools'[q] = NoPool <=> pools[q] = NoPool
        /\ q \notin overdrawn' => q \notin overdrawn
        /\ Total(d)' <= Total(d)
    BY <2>0, <2>2, <2>3
  <2>6. \A e \in Call \ {c} : calls'[e] = calls[e]
    OBVIOUS
  <2>7. unburnt' \in [Pair -> Nat]
    OBVIOUS
  <2> QED BY <1>2, <2>0, <2>1, <2>2, <2>3, <2>4, <2>5, <2>6, <2>7, PairKeeps
<1> QED BY <1>3, <1>4, <1>5, <1>6, <1>7

-----------------------------------------------------------------------------
(* The transfers of an order.                                              *)

Advanced(o) == [o EXCEPT !.at = After(o)]

LEMMA AfterOrder ==
  ASSUME NEW o \in Order, OrderOK(o), o.at \in {"payA", "payB", "fee", "hand", "getA", "getB"},
         NEW s, s = Advanced(o)
  PROVE  /\ s \in Order /\ OrderOK(s) /\ s.pair = o.pair /\ s.kind = o.kind /\ s.lp = o.lp
         /\ s.at \notin {"issue", "credit", "reduce", "hand"}
         /\ s.at \in {"payB", "announce", "mint", "fee", "getA", "getB", "open", "save"}
         /\ \A p : ShareClaim(s, p) = ShareClaim(o, p)
         /\ \A p : IsOpening(s, Idle, p) <=> IsOpening(o, Idle, p)
<1>1. After(o) \in {"payB", "announce", "mint", "fee", "getA", "getB", "open", "save"}
  BY DEF After, FeeOr, OrderOK
<1>2. /\ s \in Order /\ s.at = After(o) /\ s.kind = o.kind /\ s.pair = o.pair
      /\ s.lp = o.lp /\ s.a = o.a /\ s.b = o.b
  BY <1>1 DEF Order, Advanced
<1>3. OrderOK(s)
  BY <1>2, OrderTypes DEF OrderOK, After, FeeOr
<1>4. s # NoOrder /\ o # NoOrder
  BY <1>2, OrderTypes
<1>5. \A p : ShareClaim(s, p) = ShareClaim(o, p)
  BY <1>2, <1>4 DEF ShareClaim, OrderOf, After, FeeOr, OrderOK
<1>6. \A p : IsOpening(s, Idle, p) <=> IsOpening(o, Idle, p)
  BY <1>2, <1>4 DEF IsOpening, OrderOf, After, FeeOr, OrderOK
<1> QED BY <1>1, <1>2, <1>3, <1>5, <1>6

(* What the pool owes an order less what the order owes it, by the kind of *)
(* the order and its next step.                                            *)
OwingOf(o, d) ==
  LET Part(a, b) == PartIn(o.pair, d, a, b)
  IN  /\ o.kind = "create" =>
           Owing(o, o.pair, d) = CASE o.at = "payB" -> Part(o.a, 0)
                                   [] o.at \in {"announce", "issue", "hand", "open"} -> Part(o.a, o.b)
                                   [] OTHER -> 0
      /\ o.kind = "sellA" =>
           Owing(o, o.pair, d) = CASE o.at = "payA" -> Part(0, o.b) - Part(o.a, 0)
                                   [] o.at \in {"fee", "getB"} -> Part(0, o.b)
                                   [] OTHER -> 0
      /\ o.kind = "sellB" =>
           Owing(o, o.pair, d) = CASE o.at = "payB" -> Part(o.a, 0) - Part(0, o.b)
                                   [] o.at \in {"fee", "getA"} -> Part(o.a, 0)
                                   [] OTHER -> 0
      /\ o.kind = "add" =>
           Owing(o, o.pair, d) = CASE o.at = "payA" -> - Part(o.a, o.b)
                                   [] o.at = "payB" -> - Part(0, o.b)
                                   [] OTHER -> 0
      /\ o.kind = "remove" =>
           Owing(o, o.pair, d) = CASE o.at \in {"burn", "reduce", "getA"} -> Part(o.a, o.b)
                                   [] o.at = "getB" -> Part(0, o.b)
                                   [] OTHER -> 0

LEMMA OwingIs ==
  ASSUME NEW o \in Order, OrderOK(o), NEW d
  PROVE  OwingOf(o, d)
<1>1. o # NoOrder /\ o.a \in Nat /\ o.b \in Nat
  BY OrderTypes
<1>2. Owing(o, o.pair, d) = Owed(o, d) - Due(o, d)
  BY <1>1 DEF Owing
<1>3. o.kind \in {"create", "sellA", "sellB", "add", "remove"}
  BY DEF Order
<1> USE <1>1, <1>2 DEF OwingOf, Owed, Due, PartIn, OrderOK
<1>4. CASE o.kind = "create"
  BY <1>4
<1>5. CASE o.kind = "sellA"
  BY <1>5
<1>6. CASE o.kind = "sellB"
  BY <1>6
<1>7. CASE o.kind = "add"
  BY <1>7
<1>8. CASE o.kind = "remove"
  BY <1>8
<1> QED BY <1>3, <1>4, <1>5, <1>6, <1>7, <1>8


(* What a transfer changes in what the pool owes. *)
Shift(o, d) ==
  CASE o.at = "payA" -> PartIn(o.pair, d, o.a, 0)
    [] o.at = "payB" -> PartIn(o.pair, d, 0, o.b)
    [] o.at = "getA" -> - PartIn(o.pair, d, o.a, 0)
    [] o.at = "getB" -> - PartIn(o.pair, d, 0, o.b)
    [] OTHER -> 0

LEMMA AfterOwing ==
  ASSUME NEW o \in Order, OrderOK(o), o.at \in {"payA", "payB", "fee", "hand", "getA", "getB"},
         NEW s, s = Advanced(o), NEW d
  PROVE  Owing(s, o.pair, d) - Owing(o, o.pair, d) = Shift(o, d)
<1>1. /\ s \in Order /\ OrderOK(s) /\ s.at = After(o) /\ s.kind = o.kind /\ s.pair = o.pair
      /\ s.a = o.a /\ s.b = o.b
  BY AfterOrder DEF Order, Advanced
<1>2. OwingOf(o, d) /\ OwingOf(s, d)
  BY <1>1, OwingIs
<1>3. /\ o.a \in Nat /\ o.b \in Nat
      /\ o.kind \in {"create", "sellA", "sellB", "add", "remove"}
  BY OrderTypes DEF Order
<1>4. PICK x \in Int, y \in Int :
        /\ \A a \in Int, b \in Int : PartIn(o.pair, d, a, b) \in Int
        /\ x = PartIn(o.pair, d, o.a, 0) /\ y = PartIn(o.pair, d, 0, o.b)
        /\ PartIn(o.pair, d, o.a, o.b) = x + y
  BY <1>3 DEF PartIn
<1>5. CASE o.kind = "create"
  <2>1. o.at \in {"payA", "payB", "hand"}
    BY <1>5 DEF OrderOK
  <2>2. s.at = IF o.at = "payA" THEN "payB" ELSE IF o.at = "payB" THEN "announce" ELSE "open"
    BY <1>1, <1>5, <2>1 DEF After
  <2> QED BY <1>1, <1>2, <1>4, <1>5, <2>1, <2>2 DEF OwingOf, Shift
<1>6. CASE o.kind = "sellA"
  <2>1. o.at \in {"payA", "fee", "getB"}
    BY <1>6 DEF OrderOK
  <2>2. s.at \in IF o.at = "getB" THEN {"save"} ELSE {"fee", "getB"}
    BY <1>1, <1>6, <2>1 DEF After, FeeOr
  <2> QED BY <1>1, <1>2, <1>4, <1>6, <2>1, <2>2 DEF OwingOf, Shift
<1>7. CASE o.kind = "sellB"
  <2>1. o.at \in {"payB", "fee", "getA"}
    BY <1>7 DEF OrderOK
  <2>2. s.at \in IF o.at = "getA" THEN {"save"} ELSE {"fee", "getA"}
    BY <1>1, <1>7, <2>1 DEF After, FeeOr
  <2> QED BY <1>1, <1>2, <1>4, <1>7, <2>1, <2>2 DEF OwingOf, Shift
<1>8. CASE o.kind = "add"
  <2>1. o.at \in {"payA", "payB"}
    BY <1>8 DEF OrderOK
  <2>2. s.at = IF o.at = "payA" THEN "payB" ELSE "mint"
    BY <1>1, <1>8, <2>1 DEF After
  <2> QED BY <1>1, <1>2, <1>4, <1>8, <2>1, <2>2 DEF OwingOf, Shift
<1>9. CASE o.kind = "remove"
  <2>1. o.at \in {"getA", "getB"}
    BY <1>9 DEF OrderOK
  <2>2. s.at = IF o.at = "getA" THEN "getB" ELSE "save"
    BY <1>1, <1>9, <2>1 DEF After
  <2> QED BY <1>1, <1>2, <1>4, <1>9, <2>1, <2>2 DEF OwingOf, Shift
<1> QED BY <1>3, <1>5, <1>6, <1>7, <1>8, <1>9

LEMMA PaymentIs ==
  ASSUME NEW o \in Order, OrderOK(o), o.at \in {"payA", "payB", "fee", "hand", "getA", "getB"},
         NEW d, NEW from, NEW to, NEW n,
         d = Payment(o).denom, from = Payment(o).from, to = Payment(o).to, n = Payment(o).amount
  PROVE  /\ d \in Denom /\ from \in Address /\ to \in Address /\ n \in U128
         /\ o.at \in {"payA", "payB", "fee"} => from = o.user
         /\ o.at \in {"payA", "payB"} => to = o.pair
         /\ o.at = "fee" => to = o.pair \/ to \notin Pair
         /\ o.at \in {"hand", "getA", "getB"} => from = o.pair /\ to = o.user
         /\ o.at \in {"payA", "getA"} => d = TokenA[o.pair] /\ n = o.a
         /\ o.at \in {"payB", "getB"} => d = TokenB[o.pair] /\ n = o.b
         /\ o.at = "hand" => d = LpOf[o.pair] /\ n = o.lp
<1>1. /\ o.pair \in Pair /\ o.user \in Address /\ o.a \in U128 /\ o.b \in U128 /\ o.lp \in U128
      /\ o.fee \in U128 /\ o.pair \in Address
      /\ TokenA[o.pair] \in Denom /\ TokenB[o.pair] \in Denom /\ LpOf[o.pair] \in Denom
  BY OrderTypes, PairTypes
<1>2. FeeTo(o.pair) \in Address /\ (FeeTo(o.pair) = o.pair \/ FeeTo(o.pair) \notin Pair)
  BY <1>1, DexConstants DEF FeeTo
<1> QED BY <1>1, <1>2 DEF Payment

LEMMA TransferArrives ==
  ASSUME DexInv, NEW c \in Call, TransferNext(c),
         NEW o, o = orders[c], NEW t, t = Payment(o),
         Arrives(t.denom, t.from, t.to, t.amount)
  PROVE  DexInv'
<1> USE DexTypes
<1>1. /\ o \in Order /\ OrderOK(o) /\ o # NoOrder
      /\ o.at \in {"payA", "payB", "fee", "hand", "getA", "getB"}
      /\ calls[c] = Idle
  BY OrderAt DEF TransferNext
<1>2. PICK s, p, d, from, to, n : /\ s = Advanced(o) /\ p = o.pair
                                  /\ d = t.denom /\ from = t.from /\ to = t.to /\ n = t.amount
  OBVIOUS
<1>3. /\ d \in Denom /\ from \in Address /\ to \in Address /\ n \in U128 /\ p \in Pair
      /\ from = o.user \/ from = p
      /\ to = p \/ to \notin Pair
      /\ o.user \notin Pair /\ p \in Address
  <2>1. o.user \notin Pair /\ o.pair \in Pair
    BY <1>1, OrderTypes
  <2>2. o.pair \in Address
    BY <2>1, PairTypes
  <2>3. /\ d \in Denom /\ from \in Address /\ to \in Address /\ n \in U128
        /\ from = o.user \/ from = o.pair
        /\ to = o.pair \/ to \notin Pair
    BY <1>1, <1>2, <2>1, PaymentIs
  <2> QED BY <1>2, <2>1, <2>2, <2>3
<1>4. /\ Move(d, from, to, n) /\ Arrives(d, from, to, n)
      /\ UNCHANGED <<tokens, calls, contested, made, pools, saved, up, restarts, unburnt, overdrawn>>
  BY <1>2 DEF TransferNext, rest
<1>5. SetsOrder(c, s) /\ UNCHANGED missed
  <2>1. orders' = [orders EXCEPT ![c].at = After(o)] /\ UNCHANGED missed
    BY DEF TransferNext, Proceed
  <2> QED BY <1>2, <2>1 DEF SetsOrder, Advanced
<1>6. /\ s \in Order /\ OrderOK(s) /\ s.pair = p /\ s.kind = o.kind /\ s.lp = o.lp
      /\ s.at \notin {"issue", "credit", "reduce", "hand"}
      /\ \A q : ShareClaim(s, q) = ShareClaim(o, q)
      /\ \A q : IsOpening(s, Idle, q) <=> IsOpening(o, Idle, q)
  BY <1>1, <1>2, AfterOrder
<1>7. FactoryInv' /\ StoresOK' /\ balances' \in [Denom -> [Address -> U128]]
  <2>1. FactoryInv'
    BY <1>3, <1>4, MoveStep
  <2> QED BY <2>1 DEF FactoryInv, StoresOK
<1>8. /\ \A e \in Denom \ {d} : balances'[e] = balances[e]
      /\ \A x \in Address \ {from, to} : balances'[d][x] = balances[d][x]
      /\ from # to => /\ balances'[d][from] = balances[d][from] - n
                      /\ balances'[d][to] = balances[d][to] + n
      /\ from = to => balances'[d][to] = balances[d][to]
  BY <1>3, <1>4, MoveEffect
<1>9. ASSUME NEW q \in Pair, q # p, NEW e \in Denom
      PROVE  balances'[e][q] = balances[e][q]
  <2>1. q \in Address /\ q \notin {from, to}
    BY <1>3, <1>9, PairTypes
  <2> QED BY <1>8, <2>1
<1>10. ASSUME NEW e \in {TokenA[p], TokenB[p]}
       PROVE  balances'[e][p] >= balances[e][p] + Shift(o, e)
  <2>0. /\ e \in Denom /\ e # LpOf[p] /\ balances[e][p] \in Nat /\ n \in Nat
        /\ o.a \in Nat /\ o.b \in Nat /\ o.user # p
    BY <1>1, <1>3, PairTypes, BalanceOf, OrderTypes DEF U128
  <2>1. CASE e # d
    <3>1. balances'[e][p] = balances[e][p]
      BY <1>8, <2>0, <2>1
    <3>2. Shift(o, e) = 0
      <4>1. /\ o.at \in {"payA", "getA"} => e # TokenA[o.pair]
            /\ o.at \in {"payB", "getB"} => e # TokenB[o.pair]
        BY <1>1, <1>2, <2>1, PaymentIs
      <4>2. /\ o.at \in {"payA", "getA"} => PartIn(o.pair, e, o.a, 0) = 0
            /\ o.at \in {"payB", "getB"} => PartIn(o.pair, e, 0, o.b) = 0
        BY <4>1 DEF PartIn
      <4> QED BY <1>1, <4>2 DEF Shift
    <3> QED BY <2>0, <3>1, <3>2
  <2>2. CASE e = d /\ o.at \in {"payA", "payB"}
    <3>1. from # to /\ to = p
      BY <1>1, <1>2, <2>0, <2>2, PaymentIs
    <3>2. balances'[e][p] = balances[e][p] + n
      BY <1>8, <2>2, <3>1
    <3>3. Shift(o, e) = n
      BY <1>1, <1>2, <2>0, <2>2, PaymentIs DEF Shift, PartIn
    <3> QED BY <2>0, <3>2, <3>3
  <2>3. CASE e = d /\ o.at = "fee"
    <3>1. from # p
      BY <1>1, <1>2, <2>0, <2>3, PaymentIs
    <3>2. balances'[e][p] >= balances[e][p]
      BY <1>3, <1>8, <2>0, <2>3, <3>1
    <3>3. Shift(o, e) = 0
      BY <2>3 DEF Shift
    <3> QED BY <2>0, <3>2, <3>3
  <2>4. CASE e = d /\ o.at = "hand"
    BY <1>1, <1>2, <2>0, <2>4, PaymentIs
  <2>5. CASE e = d /\ o.at \in {"getA", "getB"}
    <3>1. from = p /\ to # p
      <4>1. from = o.pair /\ to = o.user
        BY <1>1, <1>2, <2>5, PaymentIs
      <4> QED BY <1>2, <2>0, <4>1
    <3>2. balances'[e][p] = balances[e][p] - n
      BY <1>8, <2>5, <3>1
    <3>3. Shift(o, e) = - n
      BY <1>1, <1>2, <2>0, <2>5, PaymentIs DEF Shift, PartIn
    <3> QED BY <2>0, <3>2, <3>3
  <2> QED BY <1>1, <2>1, <2>2, <2>3, <2>4, <2>5
<1>11. /\ orders' \in [Call -> Order \cup {NoOrder}]
       /\ orders'[c] = s /\ \A e \in Call \ {c} : orders'[e] = orders[e]
  BY <1>5, <1>6, OrderChanges
<1>12. OrdersMatch'
  <2>1. Matches(s, calls[c])
    BY <1>1, <1>6, OrderTypes DEF Matches, OrderCall
  <2> QED BY <1>4, <1>11, <2>1, MatchKeeps
<1>13. PoolsAreCovered'
  <2>1. ASSUME NEW q \in Pair \ overdrawn', NEW e \in {TokenA[q], TokenB[q]}
        PROVE  balances'[e][q] + missed'[q][e] - Reserve(pools'[q], q, e) - Owing(s, q, e)
                 >= balances[e][q] + missed[q][e] - Reserve(pools[q], q, e) - Owing(o, q, e)
    <3>1. e \in Denom /\ q \in Pair
      BY PairTypes
    <3>2. /\ balances[e][q] \in Nat /\ missed[q][e] \in Nat /\ Reserve(pools[q], q, e) \in Nat
          /\ balances'[e][q] \in Nat /\ Owing(s, q, e) \in Int /\ Owing(o, q, e) \in Int
          /\ missed' = missed /\ pools' = pools
      BY <1>1, <1>4, <1>5, <1>6, <1>7, <3>1, TermsAre, OwingType, PairTypes DEF U128
    <3>3. CASE q = p
      <4>1. Owing(s, q, e) - Owing(o, q, e) = Shift(o, e)
        BY <1>1, <1>2, <3>3, AfterOwing
      <4>2. balances'[e][q] >= balances[e][q] + Shift(o, e)
        BY <1>10, <3>3
      <4> QED BY <3>2, <4>1, <4>2
    <3>4. CASE q # p
      <4>1. Owing(s, q, e) = 0 /\ Owing(o, q, e) = 0
        BY <1>2, <1>6, <3>4 DEF Owing
      <4>2. balances'[e][q] = balances[e][q]
        BY <1>9, <3>1, <3>4
      <4> QED BY <3>2, <4>1, <4>2
    <3> QED BY <3>3, <3>4
  <2>2. /\ missed' \in [Pair -> [Denom -> Nat]] /\ pools' \in [Pair -> Pool \cup {NoPool}]
        /\ overdrawn \subseteq overdrawn'
    BY <1>4, <1>5
  <2> QED BY <1>5, <1>6, <1>7, <2>1, <2>2, CoverKeeps
<1>14. ASSUME NEW q \in Pair PROVE PairInv(q)'
  <2>0. PICK e \in Denom : e = LpOf[q]
    BY PairTypes
  <2>1. /\ Registered(e)' = Registered(e) /\ tokens'[e] = tokens[e]
        /\ Total(e)' = Total(e) /\ Total(e) \in Nat /\ Total(e)' <= Total(e)
        /\ e \in contested' <=> e \in contested
        /\ calls'[c] = Idle /\ \A g \in Call \ {c} : calls'[g] = calls[g]
        /\ pools' \in [Pair -> Pool \cup {NoPool}] /\ unburnt' \in [Pair -> Nat]
    BY <1>1, <1>4, TokenOf DEF Registered, Total
  <2>2. IsOpening(s, calls'[c], q) <=> Opening(c, q)
    BY <1>1, <1>6, <2>1 DEF Opening
  <2>3. e \notin contested /\ ~Opening(c, q) => balances'[e][q] >= balances[e][q]
    <3>1. CASE q # p
      <4>1. balances'[e][q] = balances[e][q] /\ balances[e][q] \in Nat
        BY <1>9, <3>1, BalanceOf, PairTypes
      <4> QED BY <4>1
    <3>2. CASE q = p /\ e # d
      <4>1. balances'[e][q] = balances[e][q] /\ balances[e][q] \in Nat
        BY <1>8, <3>2, BalanceOf, PairTypes
      <4> QED BY <4>1
    <3>3. CASE q = p /\ e = d /\ from # p
      <4>1. balances[e][q] \in Nat /\ n \in Nat
        BY <1>3, <3>3, BalanceOf DEF U128
      <4> QED BY <1>3, <1>8, <3>3, <4>1
    <3>4. CASE q = p /\ e = d /\ from = p
      <4>1. o.at = "hand"
        <5>1. d # TokenA[o.pair] /\ d # TokenB[o.pair]
          BY <1>2, <2>0, <3>4, PairTypes
        <5>2. o.at \notin {"payA", "payB", "getA", "getB"}
          BY <1>1, <1>2, <5>1, PaymentIs
        <5>3. o.at # "fee"
          BY <1>1, <1>2, <1>3, <3>4, PaymentIs
        <5> QED BY <1>1, <5>2, <5>3
      <4>2. Opening(c, q)
        BY <1>1, <1>2, <3>4, <4>1 DEF Opening, IsOpening, OrderOf, OrderOK, Order
      <4> QED BY <4>2
    <3> QED BY <3>1, <3>2, <3>3, <3>4
  <2>4. OrderOf(s, q) => OrderOf(o, q) /\ s.kind = o.kind
    BY <1>1, <1>2, <1>6 DEF OrderOf
  <2>5. ASSUME pools[q] # NoPool
        PROVE  Total(e)' + ShareClaim(s, q) - pools'[q].shares - unburnt'[q]
                 <= Total(e) + ShareClaim(o, q) - pools[q].shares - unburnt[q]
    <3>1. pools[q] \in Pool
      BY <2>5
    <3>2. pools[q].shares \in Nat /\ unburnt[q] \in Nat /\ ShareClaim(o, q) \in Int
      BY <1>1, <3>1, PoolTypes, OwingType
    <3> QED BY <1>4, <1>6, <2>1, <3>2
  <2>6. IsOpening(s, calls'[c], q) =>
          /\ Opening(c, q) /\ s.lp = o.lp
          /\ e \notin contested /\ s.at = "hand" => balances'[e][q] >= s.lp
    BY <1>6, <2>2
  <2> QED BY <1>4, <1>5, <1>6, <1>7, <2>0, <2>1, <2>2, <2>3, <2>4, <2>5, <2>6, PairKeeps
<1>15. \A q \in Pair \ overdrawn' : Backed(pools'[q]) /\ Backed(saved'[q])
  BY <1>4 DEF DexInv
<1>16. DexTypeOK'
  BY <1>4, <1>5, <1>7, <1>11, TypesNext
<1> QED BY <1>7, <1>12, <1>13, <1>14, <1>15, <1>16, InvNext

LEMMA TransferFails ==
  ASSUME DexInv, NEW c \in Call, TransferNext(c),
         NEW o, o = orders[c], NEW t, t = Payment(o),
         ~Arrives(t.denom, t.from, t.to, t.amount)
  PROVE  DexInv'
<1> USE DexTypes
<1>1. /\ o \in Order /\ OrderOK(o) /\ o # NoOrder
      /\ o.at \in {"payA", "payB", "fee", "hand", "getA", "getB"}
      /\ calls[c] = Idle
  BY OrderAt DEF TransferNext
<1>2. PICK p, d, from, to, n : /\ p = o.pair
                               /\ d = t.denom /\ from = t.from /\ to = t.to /\ n = t.amount
  OBVIOUS
<1>3. /\ d \in Denom /\ from \in Address /\ to \in Address /\ n \in U128 /\ p \in Pair
      /\ from = o.user \/ from = p
      /\ o.user \notin Pair /\ p \in Address
  <2>1. o.user \notin Pair /\ o.pair \in Pair
    BY <1>1, OrderTypes
  <2>2. o.pair \in Address
    BY <2>1, PairTypes
  <2>3. /\ d \in Denom /\ from \in Address /\ to \in Address /\ n \in U128
        /\ from = o.user \/ from = o.pair
    BY <1>1, <1>2, <2>1, PaymentIs
  <2> QED BY <1>2, <2>1, <2>2, <2>3
<1>4. /\ Move(d, from, to, n) /\ ~Arrives(d, from, to, n) /\ Fail(c)
      /\ UNCHANGED <<tokens, calls, contested, made, pools, saved, up, restarts, unburnt, overdrawn>>
  BY <1>2 DEF TransferNext, rest
<1>5. FactoryInv' /\ StoresOK'
  <2>1. FactoryInv'
    BY <1>3, <1>4, MoveStep
  <2> QED BY <2>1 DEF FactoryInv
<1>6. /\ \A e \in Denom \ {d} : balances'[e] = balances[e]
      /\ \A x \in Address \ {from} : balances'[d][x] = balances[d][x]
      /\ balances'[d][from] = balances[d][from] \/ balances'[d][from] = balances[d][from] - n
  <2>1. /\ \A e \in Denom \ {d} : balances'[e] = balances[e]
        /\ \A x \in Address \ {from, to} : balances'[d][x] = balances[d][x]
        /\ Sends(d, from, n) => /\ balances'[d][from] = balances[d][from] - n
                                /\ from # to => balances'[d][to] = balances[d][to]
        /\ ~Sends(d, from, n) => balances' = balances
    BY <1>3, <1>4, MoveEffect
  <2> QED BY <2>1
<1>7. ASSUME NEW e \in Denom, NEW q \in Pair, e # d \/ q # from
      PROVE  balances'[e][q] = balances[e][q] /\ balances[e][q] \in Nat
  BY <1>6, <1>7, PairTypes, BalanceOf
<1>8. ASSUME NEW q \in Pair, NEW e \in {TokenA[q], TokenB[q]}
      PROVE  balances'[e][q] >= balances[e][q] - (IF q = p THEN Owed(o, e) ELSE 0)
  <2>0. e \in Denom /\ Owed(o, e) \in Nat
    BY <1>1, PairTypes, ClaimTypes
  <2>1. CASE e # d \/ q # from
    BY <1>7, <2>0, <2>1
  <2>2. CASE e = d /\ q = from
    <3>1. q = p /\ o.at \in {"hand", "getA", "getB"}
      BY <1>1, <1>2, <1>3, <2>2, PaymentIs
    <3>2. o.at # "hand"
      BY <1>1, <1>2, <2>2, <3>1, PaymentIs, PairTypes
    <3>3. Owed(o, e) >= n
      <4>1. o.a \in Nat /\ o.b \in Nat
        BY <1>1, OrderTypes
      <4>2. CASE o.at = "getA"
        <5>1. e = TokenA[o.pair] /\ n = o.a
          BY <1>1, <1>2, <2>2, <4>2, PaymentIs
        <5>2. o.kind \in {"sellB", "remove"}
          BY <1>1, <4>2 DEF OrderOK, Order
        <5> QED BY <4>1, <4>2, <5>1, <5>2 DEF Owed, PartIn
      <4>3. CASE o.at = "getB"
        <5>1. e = TokenB[o.pair] /\ n = o.b
          BY <1>1, <1>2, <2>2, <4>3, PaymentIs
        <5>2. o.kind \in {"sellA", "remove"}
          BY <1>1, <4>3 DEF OrderOK, Order
        <5> QED BY <4>1, <4>3, <5>1, <5>2 DEF Owed, PartIn
      <4> QED BY <3>1, <3>2, <4>2, <4>3
    <3>4. balances[e][q] \in Nat /\ n \in Nat
      BY <1>3, <2>0, BalanceOf, PairTypes DEF U128
    <3> QED BY <1>6, <2>0, <2>2, <3>1, <3>3, <3>4
  <2> QED BY <2>1, <2>2
<1>9. ASSUME NEW q \in Pair, LpOf[q] \notin contested
      PROVE  ~Opening(c, q) /\ balances'[LpOf[q]][q] >= balances[LpOf[q]][q]
  <2>0. PICK e \in Denom : e = LpOf[q]
    BY PairTypes
  <2>1. ~Opening(c, q)
    <3> SUFFICES ASSUME Opening(c, q) PROVE FALSE
      OBVIOUS
    <3>1. o.at = "hand" /\ q = p
      BY <1>1, <1>2 DEF Opening, IsOpening, OrderOf
    <3>2. d = e /\ from = p /\ n = o.lp
      BY <1>1, <1>2, <2>0, <3>1, PaymentIs
    <3>3. n > 0
      BY <1>1, <3>1, <3>2 DEF OrderOK, Opening, IsOpening
    <3>4. balances[d][from] >= n
      BY <1>9, <2>0, <3>1, <3>2 DEF DexInv, PairInv, PairOpens
    <3>5. Registered(d)
      BY <2>0, <3>2 DEF DexInv, PairInv, PairSound
    <3>6. Sends(d, from, n)
      BY <3>3, <3>4, <3>5 DEF Sends
    <3>7. d \notin contested
      BY <1>9, <2>0, <3>2
    <3> QED BY <1>3, <1>4, <3>6, <3>7, Arriving
  <2>2. ASSUME e = d, q = from PROVE FALSE
    <3>1. q = p /\ o.at \in {"hand", "getA", "getB"}
      BY <1>1, <1>2, <1>3, <2>2, PaymentIs
    <3>2. o.at = "hand"
      <4>1. d # TokenA[o.pair] /\ d # TokenB[o.pair]
        BY <1>2, <2>0, <2>2, <3>1, PairTypes
      <4> QED BY <1>1, <1>2, <3>1, <4>1, PaymentIs
    <3> QED BY <1>1, <1>2, <2>1, <3>1, <3>2 DEF Opening, IsOpening, OrderOf, OrderOK, Order
  <2>3. balances'[e][q] >= balances[e][q]
    BY <1>7, <2>2
  <2> QED BY <2>0, <2>1, <2>3
<1>10. ASSUME NEW q \in Pair PROVE ShareClaim(o, q) + unburnt'[q] >= unburnt[q]
  <2>1. ShareClaim(o, q) >= 0 /\ ShareClaim(o, q) \in Int
    BY <1>1, OrderTypes DEF ShareClaim
  <2> QED BY <1>4, <2>1
<1>11. calls'[c] = Idle /\ \A e \in Call \ {c} : calls'[e] = calls[e]
  BY <1>1, <1>4
<1>12. unburnt' \in [Pair -> Nat] /\ pools' \in [Pair -> Pool \cup {NoPool}]
  BY <1>4
<1>13. /\ orders' \in [Call -> Order \cup {NoOrder}]
       /\ missed' \in [Pair -> [Denom -> Nat]]
       /\ OrdersMatch' /\ PoolsAreCovered' /\ \A q \in Pair : PairInv(q)'
  BY <1>1, <1>2, <1>4, <1>5, <1>8, <1>9, <1>10, <1>11, <1>12, FailKeeps
<1>14. \A q \in Pair \ overdrawn' : Backed(pools'[q]) /\ Backed(saved'[q])
  BY <1>4 DEF DexInv
<1>15. DexTypeOK'
  BY <1>4, <1>5, <1>12, <1>13, TypesNext
<1> QED BY <1>5, <1>13, <1>14, <1>15, InvNext

LEMMA TransferNextStep ==
  ASSUME DexInv, NEW c \in Call, TransferNext(c)
  PROVE  DexInv'
<1>1. PICK o, t : o = orders[c] /\ t = Payment(o)
  OBVIOUS
<1> QED BY <1>1, TransferArrives, TransferFails

-----------------------------------------------------------------------------
(* Requests to the factory itself.                                         *)

(* A step that changes nothing of the exchange but whether it runs. *)
LEMMA StoresChange ==
  ASSUME DexInv, FactoryInv', made' = made \/ Counted, up' \in BOOLEAN,
         UNCHANGED <<pools, saved, orders, restarts, missed, unburnt, overdrawn>>,
         \A e \in Call : orders[e] # NoOrder => calls'[e] = calls[e],
         \A e \in Call : orders[e] = NoOrder => ForeignCall(calls'[e]),
         \A d \in Denom, q \in Pair : balances'[d][q] >= balances[d][q],
         \A q \in Pair : \A d \in Denom : d = LpOf[q] =>
           /\ Registered(d)' = Registered(d) /\ Total(d)' <= Total(d)
           /\ Registered(d) => tokens'[d].max = tokens[d].max
           /\ d \in contested' <=> d \in contested
  PROVE  DexInv'
<1> USE DexTypes
<1>1. UNCHANGED <<pools, saved, orders, restarts, missed, unburnt, overdrawn>>
  OBVIOUS
<1>2. StoresOK' /\ balances' \in [Denom -> [Address -> U128]]
  BY DEF FactoryInv, StoresOK
<1>3. OrdersMatch'
  <2>1. \A e \in Call : Matches(orders[e], calls'[e])
    BY DEF OrdersMatch, Matches
  <2> QED BY <1>1, <2>1 DEF OrdersMatch
<1>4. PoolsAreCovered'
  <2>1. ASSUME NEW q \in Pair \ overdrawn', NEW d \in {TokenA[q], TokenB[q]}
        PROVE  balances'[d][q] + missed'[q][d] - Reserve(pools'[q], q, d)
                 >= balances[d][q] + missed[q][d] - Reserve(pools[q], q, d)
    <3>1. d \in Denom /\ q \in Pair /\ q \in Address
      BY PairTypes
    <3>2. /\ balances[d][q] \in Nat /\ missed[q][d] \in Nat /\ Reserve(pools[q], q, d) \in Nat
          /\ balances'[d][q] \in Nat /\ balances'[d][q] >= balances[d][q]
          /\ missed' = missed /\ pools' = pools
      BY <1>1, <1>2, <3>1, TermsAre DEF U128
    <3> QED BY <3>2
  <2>2. /\ UNCHANGED orders /\ missed' \in [Pair -> [Denom -> Nat]]
        /\ pools' \in [Pair -> Pool \cup {NoPool}] /\ overdrawn \subseteq overdrawn'
    BY <1>1
  <2> QED BY <1>2, <2>1, <2>2, CoverStays
<1>5. ASSUME NEW q \in Pair PROVE PairInv(q)'
  <2>1. PICK d \in Denom : d = LpOf[q]
    BY PairTypes
  <2>2. pools' \in [Pair -> Pool \cup {NoPool}] /\ UNCHANGED <<orders, unburnt, overdrawn, pools>>
    BY <1>1
  <2>3. /\ Registered(d)' = Registered(d) /\ Total(d)' <= Total(d)
        /\ Registered(d) => tokens'[d].max = tokens[d].max
        /\ d \in contested' <=> d \in contested
        /\ balances'[d][q] >= balances[d][q]
    BY <2>1
  <2> QED BY <1>2, <2>1, <2>2, <2>3, PairStays
<1>6. \A q \in Pair \ overdrawn' : Backed(pools'[q]) /\ Backed(saved'[q])
  BY <1>1 DEF DexInv
<1>7. DexTypeOK'
  BY <1>1, <1>2, TypesNext
<1> QED BY <1>3, <1>4, <1>5, <1>6, <1>7, InvNext

LEMMA FactoryQuiet ==
  ASSUME DexInv, FactoryInv', UNCHANGED dexVars, made' = made \/ Counted,
         \A e \in Call : orders[e] # NoOrder => calls'[e] = calls[e],
         \A e \in Call : orders[e] = NoOrder => ForeignCall(calls'[e]),
         \A d \in Denom, q \in Pair : balances'[d][q] >= balances[d][q],
         \A q \in Pair : \A d \in Denom : d = LpOf[q] =>
           /\ Registered(d)' = Registered(d) /\ Total(d)' <= Total(d)
           /\ Registered(d) => tokens'[d].max = tokens[d].max
           /\ d \in contested' <=> d \in contested
  PROVE  DexInv'
<1>1. up' \in BOOLEAN /\ UNCHANGED <<pools, saved, orders, restarts, missed, unburnt, overdrawn>>
  BY DexTypes DEF dexVars
<1> QED BY <1>1, StoresChange

LEMMA ForeignAt ==
  ASSUME DexInv, NEW e \in Call, orders[e] = NoOrder
  PROVE  ForeignCall(calls[e])
BY DexTypes DEF OrdersMatch, Matches

LEMMA BalancesStay ==
  ASSUME DexInv, UNCHANGED balances
  PROVE  \A d \in Denom, q \in Pair : balances'[d][q] >= balances[d][q]
<1> SUFFICES ASSUME NEW d \in Denom, NEW q \in Pair PROVE balances'[d][q] >= balances[d][q]
  OBVIOUS
<1>1. balances[d][q] \in Nat
  BY DexTypes, BalanceOf, PairTypes
<1> QED BY <1>1

LEMMA TokensStay ==
  ASSUME DexInv, NEW d \in Denom, tokens'[d] = tokens[d]
  PROVE  /\ Registered(d)' = Registered(d) /\ Total(d)' <= Total(d) /\ Total(d)' = Total(d)
         /\ Registered(d) => tokens'[d].max = tokens[d].max
BY DexTypes, TokenOf DEF Registered, Total

LEMMA CreateTokenKeeps ==
  ASSUME DexInv, NEW c \in Call, NEW d \in Denom, Creator[d] \in User, orders[c] = NoOrder,
         NEW n \in Supply, NEW max \in Limit, CreateToken(c, d, n, max), UNCHANGED dexVars
  PROVE  DexInv'
<1> USE DexTypes
<1>1. FactoryInv' /\ calls[c] = Idle /\ Counted
  BY CreateTokenStep DEF CreateToken, Accept
<1>2. UNCHANGED <<tokens, balances, contested>>
  BY DEF CreateToken, Announce
<1>3. PICK r : r = [at |-> "register", denom |-> d, holder |-> Creator[d],
                    amount |-> n, max |-> max]
  OBVIOUS
<1>4. calls' = [calls EXCEPT ![c] = r]
  BY <1>3 DEF CreateToken, Announce, Goes
<1>5. /\ calls'[c] = r /\ \A e \in Call \ {c} : calls'[e] = calls[e]
  BY <1>4 DEF StoresOK
<1>6. ForeignCall(r)
  BY <1>3 DEF ForeignCall
<1>7. \A e \in Call : orders[e] = NoOrder => ForeignCall(calls'[e])
  BY <1>5, <1>6, ForeignAt
<1> QED BY <1>1, <1>2, <1>5, <1>7, FactoryQuiet, BalancesStay, TokensStay

LEMMA MintToKeeps ==
  ASSUME DexInv, NEW c \in Call, NEW d \in Denom, orders[c] = NoOrder,
         NEW x \in Address, NEW n \in Amount, MintTo(c, d, x, n), UNCHANGED dexVars
  PROVE  DexInv'
<1> USE DexTypes
<1>1. /\ FactoryInv' /\ calls[c] = Idle /\ Counted /\ Registered(d) /\ tokens[d].max # NoMax
      /\ Issue(c, d, x, n)
  BY MintToStep DEF MintTo, Accept
<1>2. UNCHANGED <<balances, contested>> /\ \A e \in Denom \ {d} : tokens'[e] = tokens[e]
  BY <1>1 DEF Issue, StoresOK
<1>3. /\ calls'[c] # Idle /\ calls'[c].at = "credit" /\ \A e \in Call \ {c} : calls'[e] = calls[e]
  BY <1>1, GoesOn DEF Issue, FactoryInv
<1>4. \A e \in Call : orders[e] = NoOrder => ForeignCall(calls'[e])
  <2>1. ForeignCall(calls'[c])
    BY <1>3 DEF ForeignCall
  <2> QED BY <1>3, <2>1, ForeignAt
<1>5. \A q \in Pair : d # LpOf[q]
  BY <1>1 DEF DexInv, PairInv, PairSound
<1> QED BY <1>1, <1>2, <1>3, <1>4, <1>5, FactoryQuiet, BalancesStay, TokensStay

LEMMA BurnKeeps ==
  ASSUME DexInv, NEW c \in Call, NEW d \in Denom, orders[c] = NoOrder,
         NEW u \in User, NEW n \in Amount, Burn(c, d, u, n), UNCHANGED dexVars
  PROVE  DexInv'
<1> USE DexTypes
<1>1. /\ FactoryInv' /\ calls[c] = Idle /\ Counted /\ Withdraw(c, d, u, n)
      /\ u \in Address /\ u \notin Pair /\ n \in U128
  BY BurnStep DEF Burn, Accept, User
<1>2. UNCHANGED <<tokens, contested>>
  BY <1>1 DEF Withdraw
<1>3. /\ calls'[c] # Idle /\ calls'[c].at = "reduce" /\ \A e \in Call \ {c} : calls'[e] = calls[e]
  BY <1>1, GoesOn DEF Withdraw, FactoryInv
<1>4. \A e \in Call : orders[e] = NoOrder => ForeignCall(calls'[e])
  <2>1. ForeignCall(calls'[c])
    BY <1>3 DEF ForeignCall
  <2> QED BY <1>3, <2>1, ForeignAt
<1>5. ASSUME NEW e \in Denom, NEW q \in Pair PROVE balances'[e][q] >= balances[e][q]
  <2>1. q \in Address /\ q # u /\ balances[e][q] \in Nat
    BY <1>1, PairTypes, BalanceOf
  <2>2. balances'[e][q] = balances[e][q]
    BY <1>1, <2>1, WithdrawStep
  <2> QED BY <2>1, <2>2
<1> QED BY <1>1, <1>2, <1>3, <1>4, <1>5, FactoryQuiet, TokensStay

LEMMA TransferKeeps ==
  ASSUME DexInv, NEW d \in Denom, NEW u \in User, NEW x \in Address, NEW n \in Amount,
         Transfer(d, u, x, n), UNCHANGED dexVars
  PROVE  DexInv'
<1> USE DexTypes
<1>1. /\ Counted /\ Move(d, u, x, n) /\ UNCHANGED <<tokens, calls, contested>>
      /\ u \in Address /\ u \notin Pair /\ n \in U128 /\ n \in Nat
  BY DEF Transfer, User, U128
<1>2. FactoryInv'
  BY <1>1, TransferStep
<1>3. ASSUME NEW e \in Denom, NEW q \in Pair PROVE balances'[e][q] >= balances[e][q]
  <2>1. q \in Address /\ q # u /\ balances[e][q] \in Nat
    BY <1>1, PairTypes, BalanceOf
  <2>2. CASE e # d
    <3>1. balances'[e] = balances[e]
      BY <1>1, <2>2, MoveEffect
    <3> QED BY <2>1, <3>1
  <2>3. CASE e = d
    <3>1. balances'[d][q] = balances[d][q] \/ balances'[d][q] = balances[d][q] + n
      <4>1. CASE q # x
        BY <1>1, <2>1, <4>1, MoveEffect
      <4>2. CASE q = x
        BY <1>1, <2>1, <4>2, MoveEffect
      <4> QED BY <4>1, <4>2
    <3> QED BY <1>1, <2>1, <2>3, <3>1
  <2> QED BY <2>2, <2>3
<1>4. \A e \in Call : orders[e] = NoOrder => ForeignCall(calls'[e])
  BY <1>1, ForeignAt
<1> QED BY <1>1, <1>2, <1>3, <1>4, FactoryQuiet, TokensStay

LEMMA ContinueKeeps ==
  ASSUME DexInv, NEW c \in Call, orders[c] = NoOrder, Continue(c), UNCHANGED made,
         UNCHANGED dexVars
  PROVE  DexInv'
<1> USE DexTypes
<1>1. FactoryInv' /\ ForeignCall(calls[c])
  BY ContinueStep, ForeignAt
<1>2. PICK r, d, x : r = calls[c] /\ d = r.denom /\ x = r.holder
  OBVIOUS
<1>3. CASE Register(c)
  <2>1. r # Idle /\ r.at = "register" /\ UNCHANGED balances
    BY <1>2, <1>3 DEF Register, Doing
  <2>2. d \in Denom /\ x = Creator[d] /\ x \in User
    BY <1>1, <1>2, <2>1, CallOf DEF ForeignCall
  <2>3. /\ \A e \in Denom \ {d} : tokens'[e] = tokens[e]
        /\ \A e \in Denom \ {d} : e \in contested' <=> e \in contested
    BY <1>2, <1>3 DEF Register, StoresOK
  <2>4. \A q \in Pair : d # LpOf[q]
    BY <2>2, PairTypes
  <2>5. /\ calls'[c] # Idle /\ calls'[c].denom = d /\ calls'[c].holder = x
        /\ \A e \in Call \ {c} : calls'[e] = calls[e]
    <3>1. calls' = [calls EXCEPT ![c].at = "fund"]
      BY <1>3 DEF Register
    <3>2. r \in FactoryCall
      BY <1>2, <2>1, CallOf
    <3>3. PICK s : s = [r EXCEPT !.at = "fund"]
      OBVIOUS
    <3>4. s \in FactoryCall /\ s.denom = d /\ s.holder = x
      BY <1>2, <3>2, <3>3 DEF FactoryCall
    <3>5. calls' = [calls EXCEPT ![c] = s]
      BY <1>2, <3>1, <3>3
    <3> QED BY <3>4, <3>5, FactorySentinels DEF StoresOK
  <2>6. \A e \in Call : orders[e] = NoOrder => ForeignCall(calls'[e])
    <3>1. ForeignCall(calls'[c])
      BY <2>2, <2>5 DEF ForeignCall
    <3> QED BY <2>5, <3>1, ForeignAt
  <2> QED BY <1>1, <2>1, <2>3, <2>4, <2>5, <2>6, FactoryQuiet, BalancesStay, TokensStay
<1>4. CASE Fund(c) \/ Credit(c) \/ Reduce(c)
  <2>1. r # Idle /\ Ends(c) /\ UNCHANGED contested
    BY <1>2, <1>4 DEF Fund, Credit, Reduce, Doing
  <2>2. calls'[c] = Idle /\ \A e \in Call \ {c} : calls'[e] = calls[e]
    BY <1>2, <2>1, EndsCall
  <2>3. \A e \in Call : orders[e] = NoOrder => ForeignCall(calls'[e])
    <3>1. ForeignCall(calls'[c])
      BY <2>2 DEF ForeignCall
    <3> QED BY <2>2, <3>1, ForeignAt
  <2>4. CASE Fund(c)
    <3>1. UNCHANGED tokens /\ Sets(d, x, r.amount) /\ r.at = "fund"
      BY <1>2, <2>4 DEF Fund, Sets, Doing
    <3>2. d \in Denom /\ x \in Address /\ r.amount \in U128 /\ x \notin Pair
      BY <1>1, <1>2, <2>1, <3>1, CallOf DEF ForeignCall, User
    <3>3. ASSUME NEW e \in Denom, NEW q \in Pair PROVE balances'[e][q] >= balances[e][q]
      <4>1. q \in Address /\ q # x /\ balances[e][q] \in Nat
        BY <3>2, PairTypes, BalanceOf
      <4>2. CASE e = d
        BY <3>1, <3>2, <4>1, <4>2, BalanceChanges
      <4>3. CASE e # d
        <5>1. balances'[e] = balances[e]
          BY <3>1, <3>2, <4>3, BalanceChanges
        <5> QED BY <4>1, <5>1
      <4> QED BY <4>1, <4>2, <4>3
    <3> QED BY <1>1, <2>1, <2>2, <2>3, <3>1, <3>3, FactoryQuiet, TokensStay
  <2>5. CASE Credit(c)
    <3>1. UNCHANGED tokens
      BY <2>5 DEF Credit
    <3>2. \A e \in Denom, q \in Pair : balances'[e][q] >= balances[e][q]
      BY <2>5, CreditStep, PairTypes
    <3> QED BY <1>1, <2>1, <2>2, <2>3, <3>1, <3>2, FactoryQuiet, TokensStay
  <2>6. CASE Reduce(c)
    <3>1. UNCHANGED balances
      BY <2>6 DEF Reduce
    <3>2. \A e \in Denom : /\ Total(e)' <= Total(e) /\ Registered(e)' = Registered(e)
                           /\ Registered(e) => tokens'[e].max = tokens[e].max
      BY <2>6, ReduceStep
    <3> QED BY <1>1, <2>1, <2>2, <2>3, <3>1, <3>2, FactoryQuiet, BalancesStay
  <2> QED BY <1>4, <2>4, <2>5, <2>6
<1> QED BY <1>3, <1>4 DEF Continue

LEMMA FactoryStepKeeps == ASSUME DexInv, FactoryStep PROVE DexInv'
BY CreateTokenKeeps, MintToKeeps, BurnKeeps, TransferKeeps, ContinueKeeps DEF FactoryStep

-----------------------------------------------------------------------------
(* The other steps of an order.                                            *)

(* A step that turns order o into s is about pair p only. *)
OthersStay(p, o, s) ==
  \A q \in Pair \ {p} :
    /\ ~OrderOf(o, q) /\ ~OrderOf(s, q)
    /\ pools'[q] = pools[q] /\ missed'[q] = missed[q] /\ unburnt'[q] = unburnt[q]
    /\ q \in overdrawn' <=> q \in overdrawn
    /\ \A d \in Denom : balances'[d][q] >= balances[d][q]
    /\ \A d \in Denom : d = LpOf[q] =>
         /\ Registered(d)' = Registered(d) /\ Total(d)' <= Total(d)
         /\ Registered(d) => tokens'[d].max = tokens[d].max
         /\ d \in contested' <=> d \in contested

(* It leaves the pool of p covered. *)
CoverAt(p, o, s) ==
  \A d \in {TokenA[p], TokenB[p]} :
    balances'[d][p] + missed'[p][d] - Reserve(pools'[p], p, d) - Owing(s, p, d)
      >= balances[d][p] + missed[p][d] - Reserve(pools[p], p, d) - Owing(o, p, d)

LEMMA OrderKeeps ==
  ASSUME DexInv, FactoryInv', NEW c \in Call, NEW o \in Order \cup {NoOrder}, SetsOrder(c, o),
         \A e \in Call \ {c} : calls'[e] = calls[e], Matches(o, calls'[c]),
         made' = made \/ Counted, UNCHANGED <<up, restarts>>,
         saved' = saved \/ saved' = pools',
         pools' \in [Pair -> Pool \cup {NoPool}], missed' \in [Pair -> [Denom -> Nat]],
         unburnt' \in [Pair -> Nat], overdrawn \subseteq overdrawn', overdrawn' \subseteq Pair,
         NEW p \in Pair,
         OthersStay(p, orders[c], o), p \notin overdrawn' => CoverAt(p, orders[c], o),
         PairInv(p)',
         p \notin overdrawn' => Backed(pools'[p])
  PROVE  DexInv'
<1> USE DexTypes
<1>1. StoresOK' /\ balances' \in [Denom -> [Address -> U128]]
  BY DEF FactoryInv, StoresOK
<1>2. /\ orders' \in [Call -> Order \cup {NoOrder}]
      /\ orders'[c] = o /\ \A e \in Call \ {c} : orders'[e] = orders[e]
  BY OrderChanges
<1>3. OrdersMatch'
  BY <1>2, MatchKeeps
<1>4. PoolsAreCovered'
  <2>1. ASSUME NEW q \in Pair \ overdrawn', NEW d \in {TokenA[q], TokenB[q]}
        PROVE  balances'[d][q] + missed'[q][d] - Reserve(pools'[q], q, d) - Owing(o, q, d)
                 >= balances[d][q] + missed[q][d] - Reserve(pools[q], q, d) - Owing(orders[c], q, d)
    <3>1. CASE q = p
      BY <3>1 DEF CoverAt
    <3>2. CASE q # p
      <4>1. d \in Denom /\ q \in Pair
        BY PairTypes
      <4>2. /\ balances[d][q] \in Nat /\ missed[q][d] \in Nat /\ Reserve(pools[q], q, d) \in Nat
            /\ balances'[d][q] \in Nat
        BY <1>1, <4>1, TermsAre, TermsNext
      <4>3. Owing(o, q, d) = 0 /\ Owing(orders[c], q, d) = 0
        <5>1. ~OrderOf(o, q) /\ ~OrderOf(orders[c], q)
          BY <3>2, <4>1 DEF OthersStay
        <5> QED BY <5>1 DEF Owing, OrderOf
      <4>4. pools'[q] = pools[q] /\ missed'[q] = missed[q] /\ balances'[d][q] >= balances[d][q]
        BY <3>2, <4>1 DEF OthersStay
      <4> QED BY <4>2, <4>3, <4>4
    <3> QED BY <3>1, <3>2
  <2> QED BY <1>1, <2>1, CoverKeeps
<1>5. ASSUME NEW q \in Pair PROVE PairInv(q)'
  <2>1. CASE q = p
    BY <2>1
  <2>2. CASE q # p
    <3>1. PICK d \in Denom : d = LpOf[q]
      BY PairTypes
    <3>2. /\ ~OrderOf(o, q) /\ ~OrderOf(orders[c], q)
          /\ pools'[q] = pools[q] /\ unburnt'[q] = unburnt[q]
          /\ q \in overdrawn' <=> q \in overdrawn
          /\ Registered(d)' = Registered(d) /\ Total(d)' <= Total(d)
          /\ Registered(d) => tokens'[d].max = tokens[d].max
          /\ d \in contested' <=> d \in contested
          /\ balances'[d][q] >= balances[d][q]
      BY <2>2, <3>1 DEF OthersStay
    <3> QED BY <1>1, <3>1, <3>2, PairAway
  <2> QED BY <2>1, <2>2
<1>6. ASSUME NEW q \in Pair \ overdrawn'
      PROVE  Backed(pools'[q]) /\ Backed(saved'[q])
  <2>1. Backed(pools[q]) /\ Backed(saved[q])
    BY DEF DexInv
  <2>2. Backed(pools'[q])
    BY <2>1 DEF OthersStay
  <2> QED BY <2>1, <2>2
<1>7. saved' \in [Pair -> Pool \cup {NoPool}] /\ up' \in BOOLEAN
  OBVIOUS
<1>8. DexTypeOK'
  BY <1>1, <1>2, <1>7, TypesNext
<1> QED BY <1>3, <1>4, <1>5, <1>6, <1>8, InvNext

LEMMA FactoryStays ==
  FactoryInv /\ UNCHANGED <<tokens, balances, calls, contested>> => FactoryInv'
BY DEF FactoryInv, StoresOK, SupplyCoversBalances, SupplyWithinMax, CallsWithin, Held, UnderWay,
       Pending, Registered, Within, Doing

LEMMA AbortKeeps ==
  ASSUME DexInv, Abort, made' = made \/ Counted
  PROVE  DexInv'
<1> USE DexTypes
<1>1. /\ UNCHANGED <<tokens, balances, calls, contested>> /\ up' = FALSE
      /\ UNCHANGED <<pools, saved, orders, restarts, missed, unburnt, overdrawn>>
  BY DEF Abort
<1>2. FactoryInv'
  BY <1>1, FactoryStays
<1>3. \A e \in Call : orders[e] = NoOrder => ForeignCall(calls'[e])
  BY <1>1, ForeignAt
<1> QED BY <1>1, <1>2, <1>3, StoresChange, BalancesStay, TokensStay

(* The square root of every number exists. *)
LEMMA RootExists ==
  \A n \in Nat : \E r \in 0 .. n : r * r <= n /\ n < (r + 1) * (r + 1)
<1> DEFINE P == {n \in Nat : \E r \in 0 .. n : r * r <= n /\ n < (r + 1) * (r + 1)}
<1>1. ASSUME NEW n \in Nat, \A m \in 0 .. n - 1 : m \in P
      PROVE  n \in P
  <2>1. CASE n = 0
    BY <2>1
  <2>2. CASE n > 0
    <3>1. n - 1 \in P
      BY <1>1, <2>2
    <3>2. PICK r \in 0 .. n - 1 : r * r <= n - 1 /\ n - 1 < (r + 1) * (r + 1)
      BY <3>1
    <3>3. CASE n < (r + 1) * (r + 1)
      BY <2>2, <3>2, <3>3
    <3>4. CASE n = (r + 1) * (r + 1)
      <4>1. PICK s \in 0 .. n : s = r + 1
        BY <2>2, <3>2
      <4>2. (s + 1) * (s + 1) = s * s + 2 * s + 1 /\ s * s \in Nat /\ s \in Nat
        OBVIOUS
      <4>3. n = s * s
        BY <3>4, <4>1
      <4>4. s * s <= n /\ n < (s + 1) * (s + 1)
        BY <4>2, <4>3
      <4> QED BY <4>4
    <3> QED BY <2>2, <3>2, <3>3, <3>4
  <2> QED BY <2>1, <2>2
<1> HIDE DEF P
<1>2. \A n \in Nat : n \in P
  BY <1>1, StrongInduction
<1> QED BY <1>2 DEF P

LEMMA RootType ==
  ASSUME NEW n \in U128
  PROVE  Isqrt(n) \in U128
<1>1. n \in Nat /\ n < Word
  BY DEF U128
<1>2. Isqrt(n) \in 0 .. n
  <2>1. \E r \in 0 .. n : r * r <= n /\ n < (r + 1) * (r + 1)
    BY <1>1, RootExists
  <2> QED BY <2>1 DEF Isqrt
<1> QED BY <1>1, <1>2 DEF U128

LEMMA RemainderType ==
  ASSUME NEW n \in Nat
  PROVE  n % Word \in U128 /\ n % Word \in Nat /\ n % Word <= n
BY DEF U128

LEMMA FailedRequest ==
  ASSUME DexInv, NEW c \in Call, orders[c] # NoOrder, Fail(c), orders[c].at \in {"announce", "mint"},
         UNCHANGED <<tokens, balances, calls, contested, made, pools, saved, up, restarts,
                     unburnt, overdrawn>>
  PROVE  DexInv'
<1> USE DexTypes
<1>1. FactoryInv' /\ StoresOK'
  BY FactoryStays DEF FactoryInv
<1>2. /\ orders[c] \in Order /\ OrderOK(orders[c]) /\ calls[c] = Idle
  BY OrderAt
<1>3. ASSUME NEW q \in Pair, NEW d \in {TokenA[q], TokenB[q]}
      PROVE  balances'[d][q] >= balances[d][q] - (IF q = orders[c].pair THEN Owed(orders[c], d) ELSE 0)
  <2>1. d \in Denom /\ balances[d][q] \in Nat
    BY PairTypes, BalanceOf
  <2>2. Owed(orders[c], d) \in Nat
    BY <1>2, ClaimTypes
  <2> QED BY <2>1, <2>2
<1>4. \A q \in Pair : LpOf[q] \notin contested =>
        ~Opening(c, q) /\ balances'[LpOf[q]][q] >= balances[LpOf[q]][q]
  BY BalancesStay, PairTypes DEF Opening, IsOpening
<1>5. ASSUME NEW q \in Pair PROVE ShareClaim(orders[c], q) + unburnt'[q] >= unburnt[q]
  <2>1. ShareClaim(orders[c], q) \in Nat
    BY <1>2, OrderTypes DEF ShareClaim
  <2> QED BY <2>1
<1>6. calls'[c] = Idle /\ \A e \in Call \ {c} : calls'[e] = calls[e]
  BY <1>2
<1>7. unburnt' \in [Pair -> Nat] /\ pools' \in [Pair -> Pool \cup {NoPool}]
  OBVIOUS
<1>8. /\ orders' \in [Call -> Order \cup {NoOrder}]
      /\ missed' \in [Pair -> [Denom -> Nat]]
      /\ OrdersMatch' /\ PoolsAreCovered' /\ \A q \in Pair : PairInv(q)'
  BY <1>1, <1>3, <1>4, <1>5, <1>6, <1>7, FailKeeps
<1>9. \A q \in Pair \ overdrawn' : Backed(pools'[q]) /\ Backed(saved'[q])
  BY DEF DexInv
<1>10. DexTypeOK'
  BY <1>1, <1>7, <1>8, TypesNext
<1> QED BY <1>1, <1>8, <1>9, <1>10, InvNext

LEMMA AnnounceSharesKeeps ==
  ASSUME DexInv, NEW c \in Call, AnnounceShares(c)
  PROVE  DexInv'
<1> USE DexTypes
<1>1. PICK o, p, product, lp : /\ o = orders[c] /\ p = o.pair
                               /\ product = (o.a * o.b) % Word /\ lp = Isqrt(product)
  OBVIOUS
<1>2. o \in Order /\ OrderOK(o) /\ o.at = "announce" /\ o # NoOrder /\ calls[c] = Idle /\ UNCHANGED made
  BY <1>1, OrderAt DEF AnnounceShares, Placing
<1>3. o.kind = "create" /\ o.a > 0 /\ o.b > 0 /\ p \in Pair
  BY <1>1, <1>2, OrderTypes DEF OrderOK, Order
<1>4. CASE product = Word - 1
  <2>1. Abort
    BY <1>1, <1>4 DEF AnnounceShares
  <2> QED BY <1>2, <2>1, AbortKeeps
<1>5. CASE product # Word - 1 /\ (lp = 0 \/ Registered(LpOf[p]))
  <2>1. Fail(c) /\ UNCHANGED <<stores, pools, rest, unburnt, overdrawn>>
    BY <1>1, <1>5 DEF AnnounceShares
  <2> QED BY <1>1, <1>2, <2>1, FailedRequest DEF stores, rest
<1>6. CASE product # Word - 1 /\ lp # 0 /\ ~Registered(LpOf[p])
  <2>lp. PICK d \in Denom : d = LpOf[p]
    BY <1>3, PairTypes
  <2>0. PICK s, r :
          /\ d = LpOf[p]
          /\ s = [o EXCEPT !.at = "issue", !.lp = lp]
          /\ r = [at |-> "register", denom |-> d, holder |-> Creator[d], amount |-> lp, max |-> NoMax]
    BY <2>lp
  <2>1. /\ Announce(c, d, lp, NoMax) /\ SetsOrder(c, s)
        /\ UNCHANGED <<pools, saved, up, restarts, missed, unburnt, overdrawn>>
    BY <1>1, <1>6, <2>0 DEF AnnounceShares, SetsOrder, rest
  <2>2. lp \in U128 /\ lp > 0
    <3>1. product \in U128
      <4>1. o.a \in Nat /\ o.b \in Nat
        BY <1>2, OrderTypes
      <4>2. o.a * o.b \in Nat
        BY <4>1
      <4> QED BY <1>1, <4>2, RemainderType
    <3> QED BY <1>1, <1>6, <3>1, RootType DEF U128
  <2>3. /\ s \in Order /\ s.at = "issue" /\ s.kind = "create" /\ s.pair = p /\ s.lp = lp
        /\ s.a = o.a /\ s.b = o.b /\ OrderOK(s) /\ s # NoOrder
    <3>1. /\ s \in Order /\ s.at = "issue" /\ s.kind = "create" /\ s.pair = p /\ s.lp = lp
          /\ s.a = o.a /\ s.b = o.b
      BY <1>1, <1>2, <1>3, <2>0, <2>2 DEF Order
    <3> QED BY <1>3, <2>2, <3>1, OrderTypes DEF OrderOK
  <2>4. FactoryInv' /\ StoresOK'
    <3>1. Within(lp, NoMax)
      BY DEF Within
    <3> QED BY <1>2, <2>1, <2>2, <3>1, AnnounceStep DEF FactoryInv
  <2>5. /\ UNCHANGED <<tokens, balances, contested>>
        /\ calls'[c] = r /\ \A e \in Call \ {c} : calls'[e] = calls[e]
    BY <2>0, <2>1 DEF Announce, Goes, StoresOK
  <2>6. /\ r # Idle /\ r.at = "register" /\ r.denom = d /\ r.holder = p /\ r.amount = lp
        /\ r.max = NoMax
    <3>1. r \in FactoryCall
      BY <2>0, <2>2 DEF FactoryCall
    <3> QED BY <1>3, <2>0, <3>1, FactorySentinels, PairTypes
  <2>7. Matches(s, calls'[c])
    BY <2>0, <2>3, <2>5, <2>6 DEF Matches, OrderCall
  <2>8. \A e \in Denom : Owing(s, p, e) = Owing(o, p, e)
    <3>1. \A e : OwingOf(o, e) /\ OwingOf(s, e)
      BY <1>2, <2>3, OwingIs
    <3> QED BY <1>1, <1>2, <1>3, <2>3, <3>1 DEF OwingOf
  <2>9. ~IsOpening(s, calls'[c], p) /\ ~Opening(c, p) /\ ShareClaim(s, p) = 0 /\ ShareClaim(o, p) = 0
    BY <1>1, <1>2, <1>3, <2>3, <2>5, <2>6 DEF IsOpening, Opening, ShareClaim
  <2>10. OrderOf(s, p) /\ OrderOf(o, p)
    BY <1>1, <1>2, <2>3 DEF OrderOf
  <2>11. /\ pools' \in [Pair -> Pool \cup {NoPool}] /\ missed' \in [Pair -> [Denom -> Nat]]
         /\ unburnt' \in [Pair -> Nat] /\ overdrawn' \subseteq Pair
    BY <2>1
  <2>12. OthersStay(p, o, s)
    BY <1>1, <2>1, <2>3, <2>5, BalancesStay, TokensStay DEF OrderOf, OthersStay
  <2>13. CoverAt(p, o, s)
    <3> SUFFICES ASSUME NEW e \in {TokenA[p], TokenB[p]}
                 PROVE  balances'[e][p] + missed'[p][e] - Reserve(pools'[p], p, e) - Owing(s, p, e)
                          >= balances[e][p] + missed[p][e] - Reserve(pools[p], p, e) - Owing(o, p, e)
      BY DEF CoverAt
    <3>1. e \in Denom
      BY <1>3, PairTypes
    <3>2. /\ balances[e][p] \in Nat /\ missed[p][e] \in Nat /\ Reserve(pools[p], p, e) \in Nat
          /\ Owing(o, p, e) \in Int /\ balances' = balances /\ missed' = missed /\ pools' = pools
      BY <1>2, <1>3, <2>1, <2>5, <3>1, TermsAre, OwingType
    <3> QED BY <2>8, <3>1, <3>2
  <2>14. PairInv(p)'
    <3>1. /\ Registered(d)' = Registered(d) /\ Total(d)' = Total(d) /\ Total(d)' <= Total(d)
          /\ Registered(d) => tokens'[d].max = tokens[d].max
          /\ balances'[d][p] >= balances[d][p]
      BY <1>3, <2>5, TokensStay, BalancesStay
    <3>2. ASSUME pools[p] # NoPool
          PROVE  Total(d)' + ShareClaim(s, p) - pools'[p].shares - unburnt'[p]
                   <= Total(d) + ShareClaim(o, p) - pools[p].shares - unburnt[p]
      <4>1. pools[p] \in Pool
        BY <1>3, <3>2
      <4>2. pools[p].shares \in Nat /\ unburnt[p] \in Nat /\ Total(d) \in Nat /\ pools' = pools /\ unburnt' = unburnt
        BY <1>3, <2>1, <4>1, PoolTypes, TokenOf
      <4> QED BY <2>9, <3>1, <4>2
    <3> QED BY <1>1, <1>3, <2>0, <2>1, <2>3, <2>4, <2>5, <2>9, <2>10, <2>11, <3>1, <3>2, PairKeeps
  <2>15. p \notin overdrawn' => Backed(pools'[p])
    BY <1>3, <2>1 DEF DexInv
  <2> QED BY <1>1, <1>2, <1>3, <2>1, <2>3, <2>4, <2>5, <2>7, <2>11, <2>12, <2>13, <2>14, <2>15,
             OrderKeeps
<1> QED BY <1>4, <1>5, <1>6

LEMMA CoverSame ==
  ASSUME DexInv, NEW p \in Pair, NEW o \in Order, NEW s \in Order \cup {NoOrder},
         balances' \in [Denom -> [Address -> U128]], UNCHANGED <<pools, missed>>,
         \A d \in {TokenA[p], TokenB[p]} :
           balances'[d][p] >= balances[d][p] /\ Owing(s, p, d) <= Owing(o, p, d)
  PROVE  CoverAt(p, o, s)
<1> SUFFICES ASSUME NEW d \in {TokenA[p], TokenB[p]}
             PROVE  balances'[d][p] + missed'[p][d] - Reserve(pools'[p], p, d) - Owing(s, p, d)
                      >= balances[d][p] + missed[p][d] - Reserve(pools[p], p, d) - Owing(o, p, d)
  BY DEF CoverAt
<1>1. d \in Denom /\ p \in Address
  BY PairTypes
<1>2. /\ balances[d][p] \in Nat /\ missed[p][d] \in Nat /\ Reserve(pools[p], p, d) \in Nat
  BY <1>1, TermsAre
<1>3. balances'[d][p] \in Nat
  BY <1>1 DEF U128
<1>4. Owing(o, p, d) \in Int /\ Owing(s, p, d) \in Int
  BY OwingType
<1> QED BY <1>2, <1>3, <1>4

At(o, at) == [o EXCEPT !.at = at]

LEMMA AtIs ==
  ASSUME NEW o \in Order, NEW at \in {"hand", "save", "credit", "reduce", "getA"}, NEW s, s = At(o, at)
  PROVE  /\ s \in Order /\ s # NoOrder /\ s.at = at
         /\ s.kind = o.kind /\ s.pair = o.pair /\ s.user = o.user
         /\ s.a = o.a /\ s.b = o.b /\ s.lp = o.lp
<1>1. /\ s \in Order /\ s.at = at
      /\ s.kind = o.kind /\ s.pair = o.pair /\ s.user = o.user
      /\ s.a = o.a /\ s.b = o.b /\ s.lp = o.lp
  BY DEF Order, At
<1> QED BY <1>1, OrderTypes

LEMMA Proceeds ==
  ASSUME NEW c \in Call, NEW at, Proceed(c, at)
  PROVE  SetsOrder(c, At(orders[c], at)) /\ UNCHANGED missed
BY DEF Proceed, SetsOrder, At

LEMMA RegisterSharesKeeps ==
  ASSUME DexInv, NEW c \in Call, Placing(c, "issue"), Register(c),
         UNCHANGED <<orders, missed, made, pools, saved, up, restarts, unburnt, overdrawn>>
  PROVE  DexInv'
<1> USE DexTypes
<1>1. PICK o, p, d, r : o = orders[c] /\ p = o.pair /\ d = LpOf[p] /\ r = calls[c]
  OBVIOUS
<1>2. /\ o \in Order /\ OrderOK(o) /\ o.at = "issue" /\ o # NoOrder /\ OrderCall(o, r)
  BY <1>1, OrderAt DEF Placing
<1>3. o.kind = "create" /\ p \in Pair /\ d \in Denom /\ o.lp \in Nat
  BY <1>1, <1>2, OrderTypes, PairTypes DEF OrderOK, Order
<1>4. r # Idle /\ r.at = "register" /\ r.denom = d /\ r.amount = o.lp /\ r.max = NoMax /\ r.holder = p
  BY <1>1, <1>2 DEF OrderCall, Register, Doing
<1>5. FactoryInv' /\ StoresOK'
  BY RegisterStep DEF FactoryInv
<1>6. /\ UNCHANGED balances
      /\ tokens' = [tokens EXCEPT ![d] = [total |-> o.lp, max |-> NoMax]]
      /\ contested' = contested \cup (IF Registered(d) THEN {d} ELSE {})
      /\ calls' = [calls EXCEPT ![c].at = "fund"]
  BY <1>1, <1>4 DEF Register
<1>7. /\ tokens'[d] # NoToken /\ tokens'[d].total = o.lp /\ tokens'[d].max = NoMax
      /\ \A e \in Denom \ {d} : tokens'[e] = tokens[e]
  <2>1. PICK t : t = [total |-> o.lp, max |-> NoMax]
    OBVIOUS
  <2>2. t \in Token /\ t # NoToken /\ t.total = o.lp /\ t.max = NoMax
    <3>1. o.lp \in U128
      BY <1>2, OrderTypes
    <3> QED BY <2>1, <3>1, FactorySentinels DEF Token
  <2> QED BY <1>3, <1>6, <2>1, <2>2 DEF StoresOK
<1>8. /\ calls'[c] # Idle /\ calls'[c].at = "fund" /\ calls'[c].denom = d /\ calls'[c].amount = o.lp
      /\ calls'[c].holder = p /\ calls'[c].max = NoMax
      /\ \A e \in Call \ {c} : calls'[e] = calls[e]
  <2>1. r \in FactoryCall
    BY <1>1, <1>4, CallOf
  <2>2. PICK t : t = [r EXCEPT !.at = "fund"]
    OBVIOUS
  <2>3. /\ t \in FactoryCall /\ t.at = "fund" /\ t.denom = d /\ t.amount = o.lp
        /\ t.holder = p /\ t.max = NoMax
    BY <1>4, <2>1, <2>2 DEF FactoryCall
  <2>4. calls' = [calls EXCEPT ![c] = t]
    BY <1>1, <1>6, <2>2
  <2> QED BY <2>3, <2>4, FactorySentinels DEF StoresOK
<1>9. SetsOrder(c, o)
  BY <1>1 DEF SetsOrder
<1>10. Matches(o, calls'[c])
  BY <1>1, <1>2, <1>8 DEF Matches, OrderCall
<1>11. OthersStay(p, o, o)
  <2>1. \A q \in Pair \ {p} : LpOf[q] # d
    BY <1>1, <1>3, PairTypes
  <2>2. \A q \in Pair \ {p} : ~OrderOf(o, q)
    BY <1>1 DEF OrderOf
  <2>3. \A e \in Denom \ {d} : e \in contested' <=> e \in contested
    BY <1>6
  <2> QED BY <1>6, <1>7, <2>1, <2>2, <2>3, BalancesStay, TokensStay DEF OthersStay
<1>12. CoverAt(p, o, o)
  <2>1. \A e \in {TokenA[p], TokenB[p]} :
          balances'[e][p] >= balances[e][p] /\ Owing(o, p, e) <= Owing(o, p, e)
    <3> SUFFICES ASSUME NEW e \in {TokenA[p], TokenB[p]}
                 PROVE  balances'[e][p] >= balances[e][p] /\ Owing(o, p, e) <= Owing(o, p, e)
      OBVIOUS
    <3>1. e \in Denom /\ Owing(o, p, e) \in Int
      BY <1>2, <1>3, PairTypes, OwingType
    <3> QED BY <1>3, <1>6, <3>1, BalancesStay
  <2> QED BY <1>2, <1>3, <1>6, <2>1, CoverSame
<1>13. PairInv(p)'
  <2>0. PairSound(p) /\ PairOpens(p)
    BY <1>3 DEF DexInv, PairInv
  <2>1. PairSound(p)'
    BY <1>1, <1>7, <2>0 DEF PairSound, Registered
  <2>2. ASSUME d \notin contested'
        PROVE  ~Registered(d) /\ pools[p] = NoPool
    <3>1. ~Registered(d)
      BY <1>6, <2>2
    <3>2. OrderOf(o, p)
      BY <1>1, <1>2 DEF OrderOf
    <3> QED BY <1>1, <1>3, <2>0, <3>1, <3>2 DEF PairSound
  <2>3. PairOpens(p)'
    <3> SUFFICES ASSUME d \notin contested'
                 PROVE  /\ \A g \in Call : IsOpening(orders[g], calls'[g], p) =>
                             /\ pools[p] = NoPool
                             /\ \A e \in Call : IsOpening(orders[e], calls'[e], p) => e = g
                             /\ tokens'[d].total <= orders[g].lp
                             /\ orders[g].at = "hand" => balances[d][p] >= orders[g].lp
                        /\ \E g \in Call : IsOpening(orders[g], calls'[g], p)
      BY <1>1, <1>6 DEF PairOpens, Opening
    <3>1. ASSUME NEW e \in Call, e # c PROVE ~IsOpening(orders[e], calls'[e], p)
      <4>1. ~Opening(e, p)
        BY <1>1, <2>0, <2>2 DEF PairSound
      <4> QED BY <1>8, <3>1, <4>1 DEF Opening
    <3>2. IsOpening(orders[c], calls'[c], p)
      BY <1>1, <1>2, <1>3, <1>8 DEF IsOpening, OrderOf
    <3> QED BY <1>1, <1>2, <1>3, <1>7, <2>2, <3>1, <3>2
  <2>4. SharesBooked(p)'
    BY <1>1, <2>2 DEF SharesBooked
  <2> QED BY <2>1, <2>3, <2>4 DEF PairInv
<1>14. p \notin overdrawn' => Backed(pools'[p])
  BY <1>3 DEF DexInv
<1>15. /\ pools' \in [Pair -> Pool \cup {NoPool}] /\ missed' \in [Pair -> [Denom -> Nat]]
       /\ unburnt' \in [Pair -> Nat] /\ overdrawn' \subseteq Pair
  OBVIOUS
<1> QED BY <1>1, <1>2, <1>3, <1>5, <1>8, <1>9, <1>10, <1>11, <1>12, <1>13, <1>14, <1>15, OrderKeeps

-----------------------------------------------------------------------------
(* The steps of an order that move no tokens.                              *)

LEMMA FundSharesKeeps ==
  ASSUME DexInv, NEW c \in Call, Placing(c, "issue"), Fund(c), Proceed(c, "hand"),
         UNCHANGED <<made, pools, saved, up, restarts, unburnt, overdrawn>>
  PROVE  DexInv'
<1> USE DexTypes
<1>1. PICK o, p, d, r, s :
        o = orders[c] /\ p = o.pair /\ d = LpOf[p] /\ r = calls[c] /\ s = At(o, "hand")
  OBVIOUS
<1>2. /\ o \in Order /\ OrderOK(o) /\ o.at = "issue" /\ o # NoOrder /\ OrderCall(o, r)
  BY <1>1, OrderAt DEF Placing
<1>3. o.kind = "create" /\ p \in Pair /\ d \in Denom /\ o.lp \in U128 /\ p \in Address
  BY <1>1, <1>2, OrderTypes, PairTypes DEF OrderOK, Order
<1>4. r # Idle /\ r.at = "fund" /\ r.denom = d /\ r.amount = o.lp /\ r.holder = p
  BY <1>1, <1>2 DEF OrderCall, Fund, Doing
<1>5. FactoryInv' /\ StoresOK'
  BY FundStep DEF FactoryInv
<1>6. UNCHANGED <<tokens, contested>> /\ Sets(d, p, o.lp) /\ Ends(c)
  BY <1>1, <1>4 DEF Fund, Sets
<1>7. calls'[c] = Idle /\ \A e \in Call \ {c} : calls'[e] = calls[e]
  BY <1>1, <1>4, <1>6, EndsCall
<1>8. /\ s \in Order /\ s # NoOrder /\ s.at = "hand" /\ s.kind = "create" /\ s.pair = p
      /\ s.a = o.a /\ s.b = o.b /\ s.lp = o.lp
  BY <1>1, <1>2, <1>3, AtIs
<1>9. SetsOrder(c, s) /\ UNCHANGED missed
  BY <1>1, Proceeds
<1>10. OrderOK(s) /\ Matches(s, calls'[c])
  <2>1. OrderOK(s)
    BY <1>2, <1>3, <1>8 DEF OrderOK
  <2> QED BY <1>7, <1>8, <2>1 DEF Matches, OrderCall
<1>11. /\ balances'[d][p] = o.lp /\ balances' \in [Denom -> [Address -> U128]]
       /\ \A y \in Address \ {p} : balances'[d][y] = balances[d][y]
       /\ \A e \in Denom \ {d} : balances'[e] = balances[e]
  BY <1>3, <1>6, BalanceChanges
<1>12. OthersStay(p, o, s)
  <2>1. \A q \in Pair \ {p} : ~OrderOf(o, q) /\ ~OrderOf(s, q)
    BY <1>1, <1>8 DEF OrderOf
  <2>2. ASSUME NEW q \in Pair \ {p}, NEW e \in Denom
        PROVE  balances'[e][q] >= balances[e][q]
    <3>1. balances[e][q] \in Nat /\ q \in Address
      BY BalanceOf, PairTypes
    <3> QED BY <1>11, <3>1
  <2> QED BY <1>6, <1>9, <2>1, <2>2, TokensStay DEF OthersStay
<1>13. CoverAt(p, o, s)
  <2>1. ASSUME NEW e \in {TokenA[p], TokenB[p]}
        PROVE  balances'[e][p] >= balances[e][p] /\ Owing(s, p, e) <= Owing(o, p, e)
    <3>1. e \in Denom /\ e # d /\ balances[e][p] \in Nat
      BY <1>1, <1>3, BalanceOf, PairTypes
    <3>2. OwingOf(o, e) /\ OwingOf(s, e)
      BY <1>2, <1>8, <1>10, OwingIs
    <3>3. Owing(s, p, e) = Owing(o, p, e)
      BY <1>1, <1>2, <1>3, <1>8, <3>2 DEF OwingOf
    <3>4. Owing(o, p, e) \in Int
      BY <1>2, OwingType
    <3> QED BY <1>11, <3>1, <3>3, <3>4
  <2> QED BY <1>2, <1>3, <1>8, <1>9, <1>11, <2>1, CoverSame
<1>14. PairInv(p)'
  <2>1. /\ Opening(c, p) /\ IsOpening(s, calls'[c], p) /\ OrderOf(s, p) /\ OrderOf(o, p)
        /\ ShareClaim(s, p) = 0 /\ ShareClaim(o, p) = 0
    BY <1>1, <1>2, <1>3, <1>4, <1>8 DEF IsOpening, Opening, ShareClaim, OrderOf
  <2>2. /\ Registered(d)' = Registered(d) /\ Total(d)' = Total(d) /\ Total(d)' <= Total(d)
        /\ Registered(d) => tokens'[d].max = tokens[d].max
    BY <1>3, <1>6, TokensStay
  <2>3. ASSUME pools[p] # NoPool
        PROVE  Total(d)' + ShareClaim(s, p) - pools'[p].shares - unburnt'[p]
                 <= Total(d) + ShareClaim(o, p) - pools[p].shares - unburnt[p]
    <3>1. pools[p] \in Pool
      BY <1>3, <2>3
    <3>2. pools[p].shares \in Nat /\ unburnt[p] \in Nat /\ Total(d) \in Nat
      BY <1>3, <3>1, PoolTypes, TokenOf
    <3> QED BY <2>1, <2>2, <3>2
  <2>4. /\ pools' \in [Pair -> Pool \cup {NoPool}] /\ unburnt' \in [Pair -> Nat]
        /\ balances'[d][p] >= o.lp
    BY <1>3, <1>11 DEF U128
  <2> QED BY <1>1, <1>3, <1>5, <1>6, <1>7, <1>8, <1>9, <2>1, <2>2, <2>3, <2>4, PairKeeps
<1>15. p \notin overdrawn' => Backed(pools'[p])
  BY <1>3 DEF DexInv
<1>16. /\ pools' \in [Pair -> Pool \cup {NoPool}] /\ missed' \in [Pair -> [Denom -> Nat]]
       /\ unburnt' \in [Pair -> Nat] /\ overdrawn' \subseteq Pair
  BY <1>9
<1> QED BY <1>1, <1>2, <1>3, <1>5, <1>7, <1>8, <1>9, <1>10, <1>12, <1>13, <1>14, <1>15, <1>16,
           OrderKeeps

LEMMA IssueSharesKeeps == ASSUME DexInv, NEW c \in Call, IssueShares(c) PROVE DexInv'
BY RegisterSharesKeeps, FundSharesKeeps DEF IssueShares, rest

(* A step with which an order goes on or ends, and that changes neither a  *)
(* pool nor what a pair in creation has.                                   *)
LEMMA OrderGoesOn ==
  ASSUME DexInv, FactoryInv', NEW c \in Call, NEW o \in Order, o = orders[c],
         NEW p \in Pair, p = o.pair,
         NEW s \in Order \cup {NoOrder}, SetsOrder(c, s), s # NoOrder => s.pair = p /\ s.kind = o.kind,
         \A e \in Call \ {c} : calls'[e] = calls[e], Matches(s, calls'[c]),
         UNCHANGED <<contested, made, pools, up, restarts, missed, unburnt, overdrawn>>,
         saved' = saved \/ saved' = pools',
         ~Opening(c, p), ~IsOpening(s, calls'[c], p),
         \A e \in Denom, q \in Pair : balances'[e][q] >= balances[e][q],
         \A e \in {TokenA[p], TokenB[p]} : Owing(s, p, e) <= Owing(o, p, e),
         \A e \in Denom : /\ Registered(e)' = Registered(e)
                          /\ Registered(e) => tokens'[e].max = tokens[e].max,
         \A e \in Denom \ {LpOf[p]} : Total(e)' <= Total(e),
         \A e \in Denom : e = LpOf[p] /\ e \notin contested =>
           /\ pools[p] = NoPool => Total(e)' <= Total(e)
           /\ Total(e)' + ShareClaim(s, p) <= Total(e) + ShareClaim(o, p)
  PROVE  DexInv'
<1> USE DexTypes
<1>1. PICK d \in Denom : d = LpOf[p]
  BY PairTypes
<1>2. StoresOK' /\ balances' \in [Denom -> [Address -> U128]]
  BY DEF FactoryInv, StoresOK
<1>3. OthersStay(p, o, s)
  <2>1. \A q \in Pair \ {p} : LpOf[q] \in Denom /\ LpOf[q] # LpOf[p]
    BY PairTypes
  <2>2. \A q \in Pair \ {p} : ~OrderOf(o, q) /\ ~OrderOf(s, q)
    BY DEF OrderOf
  <2> QED BY <2>1, <2>2 DEF OthersStay
<1>4. CoverAt(p, o, s)
  <2>1. \A e \in {TokenA[p], TokenB[p]} :
          balances'[e][p] >= balances[e][p] /\ Owing(s, p, e) <= Owing(o, p, e)
    BY PairTypes
  <2> QED BY <1>2, <2>1, CoverSame
<1>5. PairInv(p)'
  <2>1. ASSUME d \notin contested, pools[p] # NoPool
        PROVE  Total(d)' + ShareClaim(s, p) - pools'[p].shares - unburnt'[p]
                 <= Total(d) + ShareClaim(o, p) - pools[p].shares - unburnt[p]
    <3>1. pools[p] \in Pool
      BY <2>1
    <3>2. pools[p].shares \in Nat /\ unburnt[p] \in Nat /\ Total(d) \in Nat /\ Total(d)' \in Nat
      BY <3>1, <1>2, PoolTypes, TokenOf, SumsNext
    <3>3. ShareClaim(s, p) \in Int /\ ShareClaim(o, p) \in Int
      BY OwingType
    <3>4. Total(d)' + ShareClaim(s, p) <= Total(d) + ShareClaim(o, p)
      BY <1>1, <2>1
    <3> QED BY <3>2, <3>3, <3>4
  <2>2. OrderOf(o, p) /\ (OrderOf(s, p) => s.kind = o.kind)
    BY OrderTypes DEF OrderOf
  <2>3. pools' \in [Pair -> Pool \cup {NoPool}] /\ unburnt' \in [Pair -> Nat]
    OBVIOUS
  <2>4. d \notin contested /\ pools[p] = NoPool => Total(d)' <= Total(d)
    BY <1>1
  <2> QED BY <1>1, <1>2, <2>1, <2>2, <2>3, <2>4, PairKeeps
<1>6. p \notin overdrawn' => Backed(pools'[p])
  BY DEF DexInv
<1>7. /\ pools' \in [Pair -> Pool \cup {NoPool}] /\ missed' \in [Pair -> [Denom -> Nat]]
      /\ unburnt' \in [Pair -> Nat] /\ overdrawn' \subseteq Pair
  OBVIOUS
<1> QED BY <1>3, <1>4, <1>5, <1>6, <1>7, OrderKeeps

LEMMA MintSharesKeeps ==
  ASSUME DexInv, NEW c \in Call, MintShares(c)
  PROVE  DexInv'
<1> USE DexTypes
<1>1. PICK o, p, d, s : o = orders[c] /\ p = o.pair /\ d = LpOf[p] /\ s = At(o, "credit")
  OBVIOUS
<1>2. /\ o \in Order /\ OrderOK(o) /\ o.at = "mint" /\ o # NoOrder /\ calls[c] = Idle
      /\ UNCHANGED <<made, pools, saved, up, restarts, unburnt, overdrawn>>
  BY <1>1, OrderAt DEF MintShares, Placing, rest
<1>3. /\ o.kind = "add" /\ p \in Pair /\ d \in Denom /\ o.lp \in U128 /\ o.lp \in Nat
      /\ o.user \in Address
  BY <1>1, <1>2, OrderTypes, PairTypes DEF OrderOK, Order
<1>4. CASE ~MayIssue(d, o.lp)
  <2>1. Fail(c) /\ UNCHANGED stores
    BY <1>1, <1>4 DEF MintShares
  <2> QED BY <1>1, <1>2, <2>1, FailedRequest DEF stores
<1>5. CASE MayIssue(d, o.lp)
  <2>1. Issue(c, d, o.user, o.lp) /\ SetsOrder(c, s) /\ UNCHANGED missed
    BY <1>1, <1>5, Proceeds DEF MintShares
  <2>2. FactoryInv' /\ UNCHANGED <<balances, contested>>
    BY <1>2, <1>3, <2>1, IssueStep DEF Issue
  <2>3. /\ s \in Order /\ s # NoOrder /\ s.at = "credit" /\ s.kind = "add" /\ s.pair = p
        /\ s.a = o.a /\ s.b = o.b /\ s.lp = o.lp
    BY <1>1, <1>2, <1>3, AtIs
  <2>4. /\ calls'[c] # Idle /\ calls'[c].at = "credit" /\ calls'[c].denom = d
        /\ calls'[c].amount = o.lp /\ \A e \in Call \ {c} : calls'[e] = calls[e]
    BY <1>2, <1>3, <2>1, GoesOn DEF Issue
  <2>5. OrderOK(s) /\ Matches(s, calls'[c])
    <3>1. OrderOK(s)
      BY <2>3 DEF OrderOK
    <3> QED BY <1>1, <2>3, <2>4, <3>1 DEF Matches, OrderCall
  <2>6. /\ ~Opening(c, p) /\ ~IsOpening(s, calls'[c], p) /\ pools[p] # NoPool
        /\ ShareClaim(o, p) = o.lp /\ ShareClaim(s, p) = 0
    <3>1. OrderOf(o, p)
      BY <1>1, <1>2 DEF OrderOf
    <3>2. pools[p] # NoPool
      BY <1>1, <1>3, <3>1 DEF DexInv, PairInv, PairSound
    <3> QED BY <1>1, <1>2, <1>3, <2>3, <3>1, <3>2 DEF Opening, IsOpening, ShareClaim
  <2>7. \A e \in {TokenA[p], TokenB[p]} : Owing(s, p, e) <= Owing(o, p, e)
    <3>1. \A e : OwingOf(o, e) /\ OwingOf(s, e)
      BY <1>2, <2>3, <2>5, OwingIs
    <3> QED BY <1>1, <1>2, <1>3, <2>3, <3>1 DEF OwingOf
  <2>8. /\ Registered(d) /\ Registered(d)' /\ Total(d)' = Total(d) + o.lp
        /\ tokens'[d].max = tokens[d].max
        /\ \A e \in Denom \ {d} : tokens'[e] = tokens[e]
    <3>1. Registered(d) /\ tokens[d].total + o.lp < Word
      BY <1>5 DEF MayIssue
    <3>2. tokens[d] \in Token /\ tokens[d].total \in Nat
      BY <1>3, <3>1, TokenOf DEF U128
    <3>3. PICK t : t = [tokens[d] EXCEPT !.total = @ + o.lp]
      OBVIOUS
    <3>4. t.total = tokens[d].total + o.lp /\ t.max = tokens[d].max /\ t # NoToken
      <4>1. t.total = tokens[d].total + o.lp /\ t.max = tokens[d].max
        BY <3>2, <3>3 DEF Token
      <4>2. tokens[d].total + o.lp \in U128
        BY <1>3, <3>1, <3>2 DEF U128
      <4>3. t \in Token
        BY <3>2, <3>3, <4>2 DEF Token
      <4> QED BY <4>1, <4>3, FactorySentinels
    <3>5. tokens' = [tokens EXCEPT ![d] = t]
      BY <2>1, <3>3 DEF Issue
    <3>6. tokens'[d] = t /\ \A e \in Denom \ {d} : tokens'[e] = tokens[e]
      BY <1>3, <3>5 DEF StoresOK
    <3> QED BY <3>1, <3>4, <3>6 DEF Registered, Total
  <2>9. \A e \in Denom : /\ Registered(e)' = Registered(e)
                         /\ Registered(e) => tokens'[e].max = tokens[e].max
                         /\ e # d => Total(e)' <= Total(e)
    <3> SUFFICES ASSUME NEW e \in Denom
                 PROVE  /\ Registered(e)' = Registered(e)
                        /\ Registered(e) => tokens'[e].max = tokens[e].max
                        /\ e # d => Total(e)' <= Total(e)
      OBVIOUS
    <3>1. CASE e = d
      BY <2>8, <3>1 DEF Registered
    <3>2. CASE e # d
      BY <2>8, <3>2, TokensStay
    <3> QED BY <3>1, <3>2
  <2>10. Total(d)' + ShareClaim(s, p) <= Total(d) + ShareClaim(o, p)
    BY <1>3, <2>6, <2>8, TokenOf
  <2>11. \A e \in Denom, q \in Pair : balances'[e][q] >= balances[e][q]
    BY <2>2, BalancesStay
  <2>12. \A e \in Denom : e = LpOf[p] /\ e \notin contested =>
           /\ pools[p] = NoPool => Total(e)' <= Total(e)
           /\ Total(e)' + ShareClaim(s, p) <= Total(e) + ShareClaim(o, p)
    BY <1>1, <2>6, <2>10
  <2>13. \A e \in Denom \ {LpOf[p]} : Total(e)' <= Total(e)
    BY <1>1, <2>9
  <2>14. saved' = saved /\ pools' = pools /\ (s # NoOrder => s.pair = p /\ s.kind = o.kind)
    BY <1>2, <1>3, <2>3
  <2>15. UNCHANGED <<contested, made, pools, up, restarts, missed, unburnt, overdrawn>>
    BY <1>2, <2>1, <2>2
  <2>16. s \in Order \cup {NoOrder} /\ \A e \in Denom :
           /\ Registered(e)' = Registered(e)
           /\ Registered(e) => tokens'[e].max = tokens[e].max
    BY <2>3, <2>9
  <2> QED BY <1>1, <1>2, <1>3, <2>1, <2>2, <2>4, <2>5, <2>6, <2>7, <2>11, <2>12, <2>13,
             <2>14, <2>15, <2>16, OrderGoesOn
<1> QED BY <1>4, <1>5

(* The end of a request that fails in the factory. *)
LEMMA FailedCall ==
  ASSUME DexInv, FactoryInv', NEW c \in Call, orders[c] # NoOrder, Fail(c), calls'[c] = Idle,
         \A e \in Call \ {c} : calls'[e] = calls[e],
         UNCHANGED <<tokens, balances, contested, made, pools, saved, up, restarts, overdrawn>>,
         unburnt' \in [Pair -> Nat], \A q \in Pair : ~Opening(c, q),
         \A q \in Pair : ShareClaim(orders[c], q) + unburnt'[q] >= unburnt[q]
  PROVE  DexInv'
<1> USE DexTypes
<1>1. StoresOK' /\ orders[c] \in Order /\ pools' \in [Pair -> Pool \cup {NoPool}]
  BY OrderAt DEF FactoryInv
<1>2. ASSUME NEW q \in Pair, NEW d \in {TokenA[q], TokenB[q]}
      PROVE  balances'[d][q] >= balances[d][q] - (IF q = orders[c].pair THEN Owed(orders[c], d) ELSE 0)
  <2>1. d \in Denom /\ balances[d][q] \in Nat
    BY PairTypes, BalanceOf
  <2>2. Owed(orders[c], d) \in Nat
    BY <1>1, ClaimTypes
  <2> QED BY <2>1, <2>2
<1>3. \A q \in Pair : LpOf[q] \notin contested =>
        ~Opening(c, q) /\ balances'[LpOf[q]][q] >= balances[LpOf[q]][q]
  BY BalancesStay, PairTypes
<1>4. /\ orders' \in [Call -> Order \cup {NoOrder}]
      /\ missed' \in [Pair -> [Denom -> Nat]]
      /\ OrdersMatch' /\ PoolsAreCovered' /\ \A q \in Pair : PairInv(q)'
  BY <1>1, <1>2, <1>3, FailKeeps
<1>5. \A q \in Pair \ overdrawn' : Backed(pools'[q]) /\ Backed(saved'[q])
  BY DEF DexInv
<1>6. DexTypeOK'
  BY <1>1, <1>4, TypesNext
<1> QED BY <1>4, <1>5, <1>6, InvNext

LEMMA CreditSharesKeeps ==
  ASSUME DexInv, NEW c \in Call, CreditShares(c)
  PROVE  DexInv'
<1> USE DexTypes
<1>1. PICK o, p, d, s, r :
        o = orders[c] /\ p = o.pair /\ d = LpOf[p] /\ s = At(o, "save") /\ r = calls[c]
  OBVIOUS
<1>2. /\ o \in Order /\ OrderOK(o) /\ o.at = "credit" /\ o # NoOrder /\ r # Idle /\ Credit(c)
      /\ UNCHANGED <<made, pools, saved, up, restarts, unburnt, overdrawn>>
  BY <1>1, OrderAt DEF CreditShares, Placing, rest, OrderCall
<1>3. o.kind = "add" /\ p \in Pair /\ d \in Denom
  BY <1>1, <1>2, OrderTypes, PairTypes DEF OrderOK, Order
<1>4. /\ FactoryInv' /\ UNCHANGED <<tokens, contested>> /\ Ends(c)
      /\ \A e \in Denom, q \in Pair : balances'[e][q] >= balances[e][q]
  BY <1>2, CreditStep, PairTypes DEF Credit
<1>5. calls'[c] = Idle /\ \A e \in Call \ {c} : calls'[e] = calls[e]
  BY <1>1, <1>2, <1>4, EndsCall
<1>6. \A q \in Pair : ~Opening(c, q) /\ ShareClaim(o, q) = 0
  BY <1>1, <1>2, <1>3 DEF Opening, IsOpening, ShareClaim
<1>7. CASE ~Fits(c)
  <2>1. Fail(c) /\ UNCHANGED balances
    BY <1>2, <1>7 DEF CreditShares, Credit
  <2>2. \A q \in Pair : ShareClaim(o, q) + unburnt'[q] >= unburnt[q]
    <3>1. \A q \in Pair : unburnt[q] \in Nat /\ unburnt'[q] = unburnt[q]
      BY <1>2
    <3> QED BY <1>6, <3>1
  <2>3. unburnt' \in [Pair -> Nat]
    BY <1>2
  <2> QED BY <1>1, <1>2, <1>4, <1>5, <1>6, <2>1, <2>2, <2>3, FailedCall
<1>8. CASE Fits(c)
  <2>1. SetsOrder(c, s) /\ UNCHANGED missed
    BY <1>1, <1>8, Proceeds DEF CreditShares
  <2>2. /\ s \in Order /\ s # NoOrder /\ s.at = "save" /\ s.kind = "add" /\ s.pair = p
        /\ s.a = o.a /\ s.b = o.b /\ s.lp = o.lp
    BY <1>1, <1>2, <1>3, AtIs
  <2>3. OrderOK(s) /\ Matches(s, calls'[c])
    <3>1. OrderOK(s)
      BY <2>2 DEF OrderOK
    <3> QED BY <1>5, <2>2, <3>1 DEF Matches, OrderCall
  <2>4. ~IsOpening(s, calls'[c], p) /\ ShareClaim(s, p) = 0
    BY <2>2 DEF IsOpening, ShareClaim
  <2>5. \A e \in {TokenA[p], TokenB[p]} : Owing(s, p, e) <= Owing(o, p, e)
    <3>1. \A e : OwingOf(o, e) /\ OwingOf(s, e)
      BY <1>2, <2>2, <2>3, OwingIs
    <3> QED BY <1>1, <1>2, <1>3, <2>2, <3>1 DEF OwingOf
  <2>6. \A e \in Denom : /\ Registered(e)' = Registered(e) /\ Total(e)' = Total(e)
                         /\ Registered(e) => tokens'[e].max = tokens[e].max
                         /\ Total(e)' <= Total(e)
    BY <1>4, TokensStay
  <2>7. Total(d)' + ShareClaim(s, p) <= Total(d) + ShareClaim(o, p)
    BY <1>3, <1>6, <2>4, <2>6, TokenOf
  <2> QED BY <1>1, <1>2, <1>3, <1>4, <1>5, <1>6, <2>1, <2>2, <2>3, <2>4, <2>5, <2>6, <2>7,
             OrderGoesOn
<1> QED BY <1>7, <1>8

LEMMA BurnSharesKeeps ==
  ASSUME DexInv, NEW c \in Call, BurnShares(c)
  PROVE  DexInv'
<1> USE DexTypes
<1>1. PICK o, p, d, s : o = orders[c] /\ p = o.pair /\ d = LpOf[p] /\ s = At(o, "reduce")
  OBVIOUS
<1>2. /\ o \in Order /\ OrderOK(o) /\ o.at = "burn" /\ o # NoOrder /\ calls[c] = Idle
      /\ UNCHANGED <<made, pools, saved, up, restarts, overdrawn>>
  BY <1>1, OrderAt DEF BurnShares, Placing, rest
<1>3. /\ o.kind = "remove" /\ p \in Pair /\ d \in Denom /\ o.lp \in U128 /\ o.lp \in Nat
      /\ o.user \in Address /\ o.user \notin Pair
  BY <1>1, <1>2, OrderTypes, PairTypes DEF OrderOK, Order
<1>4. OrderOf(o, p) /\ ShareClaim(o, p) = -o.lp /\ \A q \in Pair : ~Opening(c, q)
  BY <1>1, <1>2, <1>3 DEF Opening, IsOpening, ShareClaim, OrderOf
<1>5. CASE ~MayBurn(d, o.user, o.lp)
  <2>1. Fail(c) /\ unburnt' = [unburnt EXCEPT ![p] = @ + o.lp] /\ UNCHANGED stores
    BY <1>1, <1>5 DEF BurnShares
  <2>2. unburnt' \in [Pair -> Nat] /\ unburnt'[p] = unburnt[p] + o.lp
    BY <1>3, <2>1
  <2>3. ASSUME NEW q \in Pair PROVE ShareClaim(o, q) + unburnt'[q] >= unburnt[q]
    <3>1. CASE q = p
      BY <1>3, <1>4, <2>2, <3>1
    <3>2. CASE q # p
      <4>1. unburnt'[q] = unburnt[q] /\ unburnt[q] \in Nat
        BY <2>1, <3>2
      <4>2. ShareClaim(o, q) = 0
        BY <1>1, <3>2 DEF ShareClaim, OrderOf
      <4> QED BY <4>1, <4>2
    <3> QED BY <3>1, <3>2
  <2>4. FactoryInv'
    BY <2>1, FactoryStays DEF stores
  <2>5. calls'[c] = Idle /\ \A e \in Call \ {c} : calls'[e] = calls[e]
    BY <1>2, <2>1 DEF stores
  <2> QED BY <1>1, <1>2, <1>4, <2>1, <2>2, <2>3, <2>4, <2>5, FailedCall DEF stores
<1>6. CASE MayBurn(d, o.user, o.lp)
  <2>1. Withdraw(c, d, o.user, o.lp) /\ SetsOrder(c, s) /\ UNCHANGED <<missed, unburnt>>
    BY <1>1, <1>6, Proceeds DEF BurnShares
  <2>2. FactoryInv' /\ UNCHANGED <<tokens, contested>>
    BY <1>2, <1>3, <2>1, WithdrawStep DEF Withdraw
  <2>3. /\ s \in Order /\ s # NoOrder /\ s.at = "reduce" /\ s.kind = "remove" /\ s.pair = p
        /\ s.a = o.a /\ s.b = o.b /\ s.lp = o.lp
    BY <1>1, <1>2, <1>3, AtIs
  <2>4. /\ calls'[c] # Idle /\ calls'[c].at = "reduce" /\ calls'[c].denom = d
        /\ calls'[c].amount = o.lp /\ \A e \in Call \ {c} : calls'[e] = calls[e]
    BY <1>2, <1>3, <2>1, GoesOn DEF Withdraw
  <2>5. OrderOK(s) /\ Matches(s, calls'[c])
    <3>1. OrderOK(s)
      BY <2>3 DEF OrderOK
    <3> QED BY <1>1, <2>3, <2>4, <3>1 DEF Matches, OrderCall
  <2>6. ~IsOpening(s, calls'[c], p) /\ ShareClaim(s, p) = -o.lp
    BY <2>3 DEF IsOpening, ShareClaim, OrderOf
  <2>7. \A e \in {TokenA[p], TokenB[p]} : Owing(s, p, e) <= Owing(o, p, e)
    <3> SUFFICES ASSUME NEW e PROVE Owing(s, p, e) <= Owing(o, p, e)
      OBVIOUS
    <3>1. OwingOf(o, e) /\ OwingOf(s, e)
      BY <1>2, <2>3, <2>5, OwingIs
    <3>2. Owing(s, p, e) = Owing(o, p, e)
      BY <1>1, <1>2, <1>3, <2>3, <3>1 DEF OwingOf
    <3> QED BY <1>2, <3>2, OwingType
  <2>8. \A e \in Denom : /\ Registered(e)' = Registered(e) /\ Total(e)' = Total(e)
                         /\ Registered(e) => tokens'[e].max = tokens[e].max
                         /\ Total(e)' <= Total(e)
    BY <2>2, TokensStay
  <2>9. Total(d)' + ShareClaim(s, p) <= Total(d) + ShareClaim(o, p)
    BY <1>3, <1>4, <2>6, <2>8, TokenOf
  <2>10. ASSUME NEW e \in Denom, NEW q \in Pair PROVE balances'[e][q] >= balances[e][q]
    <3>1. q \in Address /\ q # o.user /\ balances[e][q] \in Nat
      BY <1>3, PairTypes, BalanceOf
    <3>2. balances'[e][q] = balances[e][q]
      BY <1>2, <1>3, <2>1, <3>1, WithdrawStep
    <3> QED BY <3>1, <3>2
  <2>11. \A e \in Denom : e = LpOf[p] /\ e \notin contested =>
           /\ pools[p] = NoPool => Total(e)' <= Total(e)
           /\ Total(e)' + ShareClaim(s, p) <= Total(e) + ShareClaim(o, p)
    BY <1>1, <2>8, <2>9
  <2>12. saved' = saved /\ pools' = pools /\ (s # NoOrder => s.pair = p /\ s.kind = o.kind)
    BY <1>2, <1>3, <2>3
  <2> QED BY <1>1, <1>2, <1>3, <1>4, <2>1, <2>2, <2>3, <2>4, <2>5, <2>6, <2>7, <2>8, <2>10, <2>11,
             <2>12, OrderGoesOn
<1> QED BY <1>5, <1>6

LEMMA ReduceSharesKeeps ==
  ASSUME DexInv, NEW c \in Call, ReduceShares(c)
  PROVE  DexInv'
<1> USE DexTypes
<1>1. PICK o, p, d, s, r :
        o = orders[c] /\ p = o.pair /\ d = LpOf[p] /\ s = At(o, "getA") /\ r = calls[c]
  OBVIOUS
<1>2. /\ o \in Order /\ OrderOK(o) /\ o.at = "reduce" /\ o # NoOrder
      /\ r # Idle /\ r.denom = d /\ r.amount = o.lp /\ Reduce(c)
      /\ SetsOrder(c, s)
      /\ UNCHANGED <<made, pools, saved, up, restarts, missed, unburnt, overdrawn>>
  BY <1>1, OrderAt, Proceeds DEF ReduceShares, Placing, rest, OrderCall
<1>3. o.kind = "remove" /\ p \in Pair /\ d \in Denom /\ o.lp \in Nat
  BY <1>1, <1>2, OrderTypes, PairTypes DEF OrderOK, Order
<1>4. /\ FactoryInv' /\ UNCHANGED <<balances, contested>> /\ Ends(c)
      /\ \A e \in Denom : /\ Total(e)' <= Total(e) /\ Registered(e)' = Registered(e)
                          /\ Registered(e) => tokens'[e].max = tokens[e].max
      /\ d \notin contested => Total(d)' = Total(d) - o.lp
  BY <1>1, <1>2, <1>3, ReduceStep DEF Reduce
<1>5. calls'[c] = Idle /\ \A e \in Call \ {c} : calls'[e] = calls[e]
  BY <1>1, <1>2, <1>4, EndsCall
<1>6. /\ s \in Order /\ s # NoOrder /\ s.at = "getA" /\ s.kind = "remove" /\ s.pair = p
      /\ s.a = o.a /\ s.b = o.b /\ s.lp = o.lp
  BY <1>1, <1>2, <1>3, AtIs
<1>7. OrderOK(s) /\ Matches(s, calls'[c])
  <2>1. OrderOK(s)
    BY <1>6 DEF OrderOK
  <2> QED BY <1>5, <1>6, <2>1 DEF Matches, OrderCall
<1>8. /\ ~Opening(c, p) /\ ~IsOpening(s, calls'[c], p)
      /\ ShareClaim(o, p) = -o.lp /\ ShareClaim(s, p) = 0
  BY <1>1, <1>2, <1>3, <1>6 DEF Opening, IsOpening, ShareClaim, OrderOf
<1>9. \A e \in {TokenA[p], TokenB[p]} : Owing(s, p, e) <= Owing(o, p, e)
  <2> SUFFICES ASSUME NEW e PROVE Owing(s, p, e) <= Owing(o, p, e)
    OBVIOUS
  <2>1. OwingOf(o, e) /\ OwingOf(s, e)
    BY <1>2, <1>6, <1>7, OwingIs
  <2>2. Owing(s, p, e) = Owing(o, p, e)
    BY <1>1, <1>2, <1>3, <1>6, <2>1 DEF OwingOf
  <2> QED BY <1>2, <2>2, OwingType
<1>10. d \notin contested => Total(d)' + ShareClaim(s, p) <= Total(d) + ShareClaim(o, p)
  BY <1>3, <1>4, <1>8, TokenOf
<1>11. \A e \in Denom, q \in Pair : balances'[e][q] >= balances[e][q]
  BY <1>4, BalancesStay
<1>12. \A e \in Denom : e = LpOf[p] /\ e \notin contested =>
         /\ pools[p] = NoPool => Total(e)' <= Total(e)
         /\ Total(e)' + ShareClaim(s, p) <= Total(e) + ShareClaim(o, p)
  BY <1>1, <1>4, <1>10
<1>13. saved' = saved /\ pools' = pools /\ (s # NoOrder => s.pair = p /\ s.kind = o.kind)
  BY <1>2, <1>3, <1>6
<1>14. UNCHANGED <<contested, made, pools, up, restarts, missed, unburnt, overdrawn>>
  BY <1>2, <1>4
<1>15. s \in Order \cup {NoOrder} /\ \A e \in Denom :
         /\ Registered(e)' = Registered(e) /\ Total(e)' <= Total(e)
         /\ Registered(e) => tokens'[e].max = tokens[e].max
  BY <1>4, <1>6
<1> QED BY <1>1, <1>2, <1>3, <1>4, <1>5, <1>7, <1>8, <1>9, <1>11, <1>12, <1>13, <1>14, <1>15,
           OrderGoesOn

LEMMA SaveKeeps ==
  ASSUME DexInv, NEW c \in Call, Save(c)
  PROVE  DexInv'
<1> USE DexTypes
<1>1. PICK o, p, d : o = orders[c] /\ p = o.pair /\ d = LpOf[p]
  OBVIOUS
<1>2. /\ o \in Order /\ OrderOK(o) /\ o.at = "save" /\ o # NoOrder /\ calls[c] = Idle
      /\ SetsOrder(c, NoOrder) /\ saved' = pools
      /\ UNCHANGED <<tokens, balances, calls, contested>>
      /\ UNCHANGED <<made, pools, up, restarts, missed, unburnt, overdrawn>>
  BY <1>1, OrderAt DEF Save, Placing, Finish, SetsOrder, stores
<1>3. p \in Pair /\ d \in Denom
  BY <1>1, <1>2, OrderTypes, PairTypes
<1>4. FactoryInv'
  BY <1>2, FactoryStays
<1>5. Matches(NoOrder, calls'[c]) /\ \A e \in Call \ {c} : calls'[e] = calls[e]
  BY <1>2 DEF Matches, ForeignCall
<1>6. /\ ~Opening(c, p) /\ ~IsOpening(NoOrder, calls'[c], p)
      /\ ShareClaim(o, p) = 0 /\ ShareClaim(NoOrder, p) = 0
  BY <1>1, <1>2 DEF Opening, IsOpening, ShareClaim, OrderOf
<1>7. \A e \in {TokenA[p], TokenB[p]} : Owing(NoOrder, p, e) <= Owing(o, p, e)
  <2>1. \A e : OwingOf(o, e)
    BY <1>2, OwingIs
  <2>2. \A e : Owing(o, p, e) = 0
    BY <1>1, <1>2, <2>1 DEF OwingOf, Order
  <2>3. \A e : Owing(NoOrder, p, e) = 0
    BY DEF Owing
  <2> QED BY <2>2, <2>3
<1>8. \A e \in Denom : /\ Registered(e)' = Registered(e) /\ Total(e)' = Total(e)
                       /\ Registered(e) => tokens'[e].max = tokens[e].max
                       /\ Total(e)' <= Total(e)
  BY <1>2, TokensStay
<1>9. Total(d)' + ShareClaim(NoOrder, p) <= Total(d) + ShareClaim(o, p)
  BY <1>3, <1>6, <1>8, TokenOf
<1>10. \A e \in Denom, q \in Pair : balances'[e][q] >= balances[e][q]
  BY <1>2, BalancesStay
<1> QED BY <1>1, <1>2, <1>3, <1>4, <1>5, <1>6, <1>7, <1>8, <1>9, <1>10, OrderGoesOn

LEMMA NoClaims ==
  ASSUME NEW p \in Pair, \A e \in Call : OrderOf(orders[e], p) => orders[e].kind = "create"
  PROVE  ShareClaims(p) = 0
<1> DEFINE f == [e \in Call |-> ShareClaim(orders[e], p)]
<1>1. DOMAIN f = Call /\ \A e \in Call : f[e] = 0
  BY DEF ShareClaim
<1>2. ShareClaims(p) = SumFunction(f)
  BY DEF ShareClaims
<1> HIDE DEF f
<1> QED BY <1>1, <1>2, AllZero

LEMMA OpenPoolKeeps ==
  ASSUME DexInv, NEW c \in Call, OpenPool(c)
  PROVE  DexInv'
<1> USE DexTypes
<1>1. PICK o, p, d, s, n :
        /\ o = orders[c] /\ p = o.pair /\ d = LpOf[p] /\ s = At(o, "save")
        /\ n = [a |-> o.a, b |-> o.b, shares |-> o.lp]
  OBVIOUS
<1>2. /\ o \in Order /\ OrderOK(o) /\ o.at = "open" /\ o # NoOrder /\ calls[c] = Idle
      /\ pools' = [pools EXCEPT ![p] = n] /\ SetsOrder(c, s)
      /\ UNCHANGED <<tokens, balances, calls, contested>>
      /\ UNCHANGED <<made, saved, up, restarts, missed, unburnt, overdrawn>>
  BY <1>1, OrderAt, Proceeds DEF OpenPool, Placing, rest, stores
<1>3. /\ o.kind = "create" /\ p \in Pair /\ d \in Denom /\ o.lp \in Nat /\ o.a > 0 /\ o.b > 0
      /\ o.a \in Nat /\ o.b \in Nat
  BY <1>1, <1>2, OrderTypes, PairTypes DEF OrderOK, Order
<1>4. FactoryInv' /\ StoresOK'
  BY <1>2, FactoryStays DEF FactoryInv
<1>5. /\ s \in Order /\ s # NoOrder /\ s.at = "save" /\ s.kind = "create" /\ s.pair = p
      /\ s.a = o.a /\ s.b = o.b /\ s.lp = o.lp
  BY <1>1, <1>2, <1>3, AtIs
<1>6. OrderOK(s) /\ Matches(s, calls'[c]) /\ \A e \in Call \ {c} : calls'[e] = calls[e]
  <2>1. OrderOK(s)
    BY <1>3, <1>5 DEF OrderOK
  <2> QED BY <1>2, <1>5, <2>1 DEF Matches, OrderCall
<1>7. /\ n \in Pool /\ n.a = o.a /\ n.b = o.b /\ n.shares = o.lp
      /\ pools' \in [Pair -> Pool \cup {NoPool}] /\ pools'[p] = n /\ pools'[p] # NoPool
      /\ \A q \in Pair \ {p} : pools'[q] = pools[q]
  <2>1. n \in Pool /\ n.a = o.a /\ n.b = o.b /\ n.shares = o.lp
    BY <1>1, <1>2, OrderTypes DEF Pool
  <2> QED BY <1>2, <1>3, <2>1, PoolTypes
<1>8. OthersStay(p, o, s)
  <2>1. \A q \in Pair \ {p} : ~OrderOf(o, q) /\ ~OrderOf(s, q)
    BY <1>1, <1>5 DEF OrderOf
  <2> QED BY <1>2, <1>7, <2>1, BalancesStay, TokensStay DEF OthersStay
<1>9. CoverAt(p, o, s)
  <2> SUFFICES ASSUME NEW e \in {TokenA[p], TokenB[p]}
               PROVE  balances'[e][p] + missed'[p][e] - Reserve(pools'[p], p, e) - Owing(s, p, e)
                        >= balances[e][p] + missed[p][e] - Reserve(pools[p], p, e) - Owing(o, p, e)
    BY DEF CoverAt
  <2>1. OwingOf(o, e) /\ OwingOf(s, e)
    BY <1>2, <1>5, <1>6, OwingIs
  <2>2. Owing(o, p, e) = PartIn(p, e, o.a, o.b) /\ Owing(s, p, e) = 0
    BY <1>1, <1>2, <1>3, <1>5, <2>1 DEF OwingOf
  <2>3. Reserve(pools'[p], p, e) = PartIn(p, e, o.a, o.b)
    BY <1>7, ReserveType
  <2>4. /\ balances[e][p] \in Nat /\ missed[p][e] \in Nat /\ Reserve(pools[p], p, e) \in Nat
        /\ PartIn(p, e, o.a, o.b) \in Nat
    BY <1>3, PairTypes, TermsAre, PartType
  <2> QED BY <1>2, <2>2, <2>3, <2>4
<1>10. PairInv(p)'
  <2>0. PairSound(p) /\ PairOpens(p) /\ Opening(c, p) /\ ~IsOpening(s, calls'[c], p)
    BY <1>1, <1>2, <1>3, <1>5 DEF DexInv, PairInv, Opening, IsOpening, OrderOf
  <2>1. Registered(d) /\ Registered(d)' /\ tokens'[d].max = NoMax
    BY <1>1, <1>2, <1>3, <2>0 DEF PairSound, Registered
  <2>2. PairSound(p)'
    BY <1>1, <1>7, <2>1 DEF PairSound
  <2>3. /\ orders' \in [Call -> Order \cup {NoOrder}]
        /\ orders'[c] = s /\ \A e \in Call \ {c} : orders'[e] = orders[e]
        /\ ShareClaims(p)' = ShareClaims(p) + ShareClaim(s, p) - ShareClaim(o, p)
    BY <1>1, <1>2, <1>5, OrderChanges
  <2>4. PairOpens(p)'
    <3>1. ASSUME d \notin contested, NEW e \in Call
          PROVE  ~IsOpening(orders'[e], calls'[e], p)
      <4>1. CASE e = c
        BY <2>0, <2>3, <4>1
      <4>2. CASE e # c
        <5>1. ~Opening(e, p)
          BY <1>1, <2>0, <3>1, <4>2 DEF PairOpens
        <5> QED BY <1>2, <2>3, <4>2, <5>1 DEF Opening
      <4> QED BY <4>1, <4>2
    <3> QED BY <1>1, <1>2, <1>7, <3>1 DEF PairOpens, Opening
  <2>5. SharesBooked(p)'
    <3> SUFFICES ASSUME d \notin contested
                 PROVE  Total(d)' + ShareClaims(p)' <= pools'[p].shares + unburnt'[p]
      BY <1>1, <1>2 DEF SharesBooked
    <3>1. pools[p] = NoPool /\ tokens[d].total <= o.lp
      BY <1>1, <2>0 DEF PairOpens
    <3>2. ShareClaims(p) = 0
      BY <1>3, <2>0, <3>1, NoClaims DEF PairSound
    <3>3. ShareClaim(s, p) = 0 /\ ShareClaim(o, p) = 0
      BY <1>3, <1>5 DEF ShareClaim
    <3>4. Total(d)' = tokens[d].total /\ tokens[d].total \in Nat
      BY <1>2, <1>3, <2>1, TokenOf DEF Total, U128
    <3>5. unburnt'[p] = unburnt[p] /\ unburnt[p] \in Nat
      BY <1>2, <1>3
    <3> QED BY <1>3, <1>7, <2>3, <3>1, <3>2, <3>3, <3>4, <3>5
  <2> QED BY <2>2, <2>4, <2>5 DEF PairInv
<1>11. Backed(pools'[p])
  BY <1>3, <1>7 DEF Backed, Divisible
<1>12. /\ missed' \in [Pair -> [Denom -> Nat]]
       /\ unburnt' \in [Pair -> Nat] /\ overdrawn' \subseteq Pair
  BY <1>2
<1> QED BY <1>1, <1>2, <1>3, <1>4, <1>5, <1>6, <1>7, <1>8, <1>9, <1>10, <1>11, <1>12, OrderKeeps

-----------------------------------------------------------------------------
(* New orders.                                                             *)

LEMMA PlaceKeeps ==
  ASSUME DexInv, NEW c \in Call, orders[c] = NoOrder, Accept(c),
         NEW p \in Pair, NEW s \in Order, SetsOrder(c, s), OrderOK(s), s.pair = p,
         s.at \notin {"issue", "hand", "open", "credit", "reduce"},
         s.kind = "create" <=> pools[p] = NoPool,
         UNCHANGED <<stores, rest, missed, unburnt>>,
         NEW n \in Pool \cup {NoPool}, pools' = [pools EXCEPT ![p] = n],
         n = NoPool <=> pools[p] = NoPool,
         overdrawn' = overdrawn \/ overdrawn' = overdrawn \cup {p},
         p \notin overdrawn' => \A d \in {TokenA[p], TokenB[p]} :
           Reserve(n, p, d) + Owing(s, p, d) <= Reserve(pools[p], p, d),
         p \notin overdrawn' /\ pools[p] # NoPool =>
           ShareClaim(s, p) + pools[p].shares <= n.shares,
         p \notin overdrawn' => Backed(n)
  PROVE  DexInv'
<1> USE DexTypes
<1>0. PICK d \in Denom : d = LpOf[p]
  BY PairTypes
<1>1. PICK o : d = LpOf[p] /\ o = orders[c]
  BY <1>0
<1>2. /\ calls[c] = Idle /\ Counted /\ o = NoOrder /\ s # NoOrder
      /\ UNCHANGED <<tokens, balances, calls, contested>>
      /\ UNCHANGED <<saved, up, restarts, missed, unburnt>>
  BY <1>1, OrderTypes DEF Accept, stores, rest
<1>3. FactoryInv' /\ StoresOK'
  BY <1>2, FactoryStays DEF FactoryInv
<1>4. Matches(s, calls'[c]) /\ \A e \in Call \ {c} : calls'[e] = calls[e]
  BY <1>2 DEF Matches, OrderCall
<1>5. /\ pools' \in [Pair -> Pool \cup {NoPool}] /\ pools'[p] = n
      /\ \A q \in Pair \ {p} : pools'[q] = pools[q]
  OBVIOUS
<1>6. OthersStay(p, o, s)
  <2>1. \A q \in Pair \ {p} : ~OrderOf(o, q) /\ ~OrderOf(s, q)
    BY <1>2 DEF OrderOf
  <2> QED BY <1>2, <1>5, <2>1, BalancesStay, TokensStay DEF OthersStay
<1>7. ASSUME p \notin overdrawn' PROVE CoverAt(p, o, s)
  <2> SUFFICES ASSUME NEW e \in {TokenA[p], TokenB[p]}
               PROVE  balances'[e][p] + missed'[p][e] - Reserve(pools'[p], p, e) - Owing(s, p, e)
                        >= balances[e][p] + missed[p][e] - Reserve(pools[p], p, e) - Owing(o, p, e)
    BY DEF CoverAt
  <2>1. Owing(o, p, e) = 0
    BY <1>2 DEF Owing
  <2>2. Reserve(n, p, e) + Owing(s, p, e) <= Reserve(pools[p], p, e)
    BY <1>7
  <2>3. /\ balances[e][p] \in Nat /\ missed[p][e] \in Nat /\ Reserve(pools[p], p, e) \in Nat
        /\ Reserve(n, p, e) \in Nat /\ Owing(s, p, e) \in Int
    BY PairTypes, TermsAre, ReserveType, OwingType
  <2> QED BY <1>2, <1>5, <2>1, <2>2, <2>3
<1>8. PairInv(p)'
  <2>1. ~Opening(c, p) /\ ~IsOpening(s, calls'[c], p) /\ ShareClaim(o, p) = 0
    BY <1>1, <1>2 DEF Opening, IsOpening, OrderOf, ShareClaim
  <2>2. /\ Registered(d)' = Registered(d) /\ Total(d)' <= Total(d) /\ Total(d)' = Total(d)
        /\ Registered(d) => tokens'[d].max = tokens[d].max
        /\ balances'[d][p] >= balances[d][p]
    BY <1>2, TokensStay, BalancesStay
  <2>3. ASSUME p \notin overdrawn', pools[p] # NoPool
        PROVE  Total(d)' + ShareClaim(s, p) - pools'[p].shares - unburnt'[p]
                 <= Total(d) + ShareClaim(o, p) - pools[p].shares - unburnt[p]
    <3>1. pools[p] \in Pool /\ n \in Pool
      BY <2>3
    <3>2. /\ pools[p].shares \in Nat /\ n.shares \in Nat /\ unburnt[p] \in Nat /\ Total(d) \in Nat
          /\ ShareClaim(s, p) \in Int
      BY <3>1, PoolTypes, TokenOf, OwingType
    <3>3. ShareClaim(s, p) + pools[p].shares <= n.shares
      BY <2>3
    <3> QED BY <1>2, <1>5, <2>1, <2>2, <3>2, <3>3
  <2>4. unburnt' \in [Pair -> Nat]
    BY <1>2
  <2> QED BY <1>1, <1>2, <1>3, <1>4, <1>5, <2>1, <2>2, <2>3, <2>4, PairKeeps
<1>9. p \notin overdrawn' => Backed(pools'[p])
  BY <1>5
<1>10. /\ missed' \in [Pair -> [Denom -> Nat]] /\ unburnt' \in [Pair -> Nat]
       /\ overdrawn \subseteq overdrawn' /\ overdrawn' \subseteq Pair
  BY <1>2
<1> QED BY <1>1, <1>2, <1>3, <1>4, <1>5, <1>6, <1>7, <1>8, <1>9, <1>10, OrderKeeps

(* A request of kind "kind" has just been placed as order s. *)
Begins(kind) == CASE kind = "sellB" -> "payB" [] kind = "remove" -> "burn" [] OTHER -> "payA"

IsPlaced(s, c, p, kind, a, b, lp, fee) ==
  /\ SetsOrder(c, s) /\ orders[c] = NoOrder /\ Accept(c)
  /\ OrderOK(s) /\ s # NoOrder /\ s.pair = p /\ s.kind = kind /\ s.at = Begins(kind)
  /\ s.a = a /\ s.b = b /\ s.lp = lp /\ s.fee = fee
  /\ \A d : OwingOf(s, d)

LEMMA Placed ==
  ASSUME NEW c \in Call, NEW p \in Pair, NEW kind, NEW u \in User,
         NEW a \in U128, NEW b \in U128, NEW lp \in U128, NEW fee \in U128,
         kind \in {"create", "sellA", "sellB", "add", "remove"}, kind = "create" => a > 0 /\ b > 0,
         Place(c, p, kind, Begins(kind), u, a, b, lp, fee)
  PROVE  \E s \in Order : IsPlaced(s, c, p, kind, a, b, lp, fee)
<1>1. PICK s : s = [kind |-> kind, at |-> Begins(kind), pair |-> p, user |-> u,
                    a |-> a, b |-> b, lp |-> lp, fee |-> fee]
  OBVIOUS
<1>2. /\ SetsOrder(c, s) /\ orders[c] = NoOrder /\ Accept(c)
  BY <1>1 DEF Place, SetsOrder
<1>3. /\ s.pair = p /\ s.kind = kind /\ s.at = Begins(kind)
      /\ s.a = a /\ s.b = b /\ s.lp = lp /\ s.fee = fee
  BY <1>1
<1>4. s \in Order
  BY <1>1 DEF Order, Begins
<1>5. OrderOK(s)
  BY <1>3 DEF OrderOK, Begins
<1> QED BY <1>2, <1>3, <1>4, <1>5, OrderTypes, OwingIs DEF IsPlaced

(* It turns the pool of p into m. *)
Replaces(p, s, m) ==
  /\ pools' = [pools EXCEPT ![p] = m]
  /\ m = NoPool <=> pools[p] = NoPool
  /\ overdrawn' = overdrawn \/ overdrawn' = overdrawn \cup {p}
  /\ p \notin overdrawn' =>
       /\ \A d \in {TokenA[p], TokenB[p]} :
            Reserve(m, p, d) + Owing(s, p, d) <= Reserve(pools[p], p, d)
       /\ pools[p] # NoPool => ShareClaim(s, p) + pools[p].shares <= m.shares
       /\ Backed(m)

LEMMA PlacedKeeps ==
  ASSUME DexInv, NEW c \in Call, NEW p \in Pair, NEW s \in Order, NEW kind, NEW a, NEW b, NEW lp,
         NEW fee, IsPlaced(s, c, p, kind, a, b, lp, fee), kind = "create" <=> pools[p] = NoPool,
         NEW m \in Pool \cup {NoPool}, Replaces(p, s, m),
         UNCHANGED <<stores, rest, missed, unburnt>>
  PROVE  DexInv'
<1>1. /\ SetsOrder(c, s) /\ orders[c] = NoOrder /\ Accept(c) /\ OrderOK(s) /\ s.pair = p
      /\ s.at \notin {"issue", "hand", "open", "credit", "reduce"} /\ s.kind = kind
  BY DEF IsPlaced, Begins
<1>2. /\ pools' = [pools EXCEPT ![p] = m] /\ (m = NoPool <=> pools[p] = NoPool)
      /\ overdrawn' = overdrawn \/ overdrawn' = overdrawn \cup {p}
  BY DEF Replaces
<1>3. ASSUME p \notin overdrawn'
      PROVE  /\ \A d \in {TokenA[p], TokenB[p]} :
                  Reserve(m, p, d) + Owing(s, p, d) <= Reserve(pools[p], p, d)
             /\ pools[p] # NoPool => ShareClaim(s, p) + pools[p].shares <= m.shares
             /\ Backed(m)
  BY <1>3 DEF Replaces
<1> QED BY <1>1, <1>2, <1>3, PlaceKeeps

LEMMA CreatePairKeeps ==
  ASSUME DexInv, NEW c \in Call, NEW p \in Pair, NEW u \in User, NEW a \in Amount,
         NEW b \in Amount, CreatePair(c, p, u, a, b)
  PROVE  DexInv'
<1> USE DexTypes
<1>1. a \in U128 /\ b \in U128 /\ 0 \in U128 /\ a > 0 /\ b > 0 /\ pools[p] = NoPool
  BY DEF CreatePair, U128
<1>2. PICK s \in Order : IsPlaced(s, c, p, "create", a, b, 0, 0)
  <2>1. Place(c, p, "create", Begins("create"), u, a, b, 0, 0)
    BY DEF CreatePair, Begins
  <2> QED BY <1>1, <2>1, Placed
<1>3. pools' = [pools EXCEPT ![p] = NoPool]
  BY <1>1 DEF CreatePair
<1>4. \A d : Owing(s, p, d) = 0
  BY <1>2 DEF OwingOf, IsPlaced, Begins
<1>5. \A d \in {TokenA[p], TokenB[p]} : Reserve(NoPool, p, d) + Owing(s, p, d) <= Reserve(pools[p], p, d)
  BY <1>1, <1>4 DEF Reserve
<1>6. Backed(NoPool)
  BY DEF Backed
<1>7. UNCHANGED <<stores, rest, missed, unburnt, overdrawn>>
  BY DEF CreatePair
<1>8. Replaces(p, s, NoPool)
  BY <1>1, <1>3, <1>5, <1>6, <1>7 DEF Replaces
<1> QED BY <1>1, <1>2, <1>7, <1>8, PlacedKeeps

-----------------------------------------------------------------------------
(* The arithmetic of swaps, additions and removals.                        *)

LEMMA Quotient ==
  ASSUME NEW v \in Nat, NEW k \in Nat, k > 0
  PROVE  /\ v \div k \in Nat /\ v \div k <= v
         /\ k * (v \div k) <= v /\ v < k * (v \div k) + k
<1>1. PICK q \in Int : q = v \div k
  OBVIOUS
<1>2. k * q <= v /\ v < k * q + k
  BY <1>1
<1>3. q >= 0
  <2> SUFFICES ASSUME q <= -1 PROVE FALSE
    BY <1>1
  <2>1. k * q <= k * (-1)
    BY <1>1
  <2> QED BY <1>2, <2>1
<1>4. q <= v
  <2>1. k * q >= 1 * q
    BY <1>1, <1>3
  <2> QED BY <1>1, <1>2, <2>1
<1> QED BY <1>1, <1>2, <1>3, <1>4

LEMMA SmallRemainder ==
  ASSUME NEW n \in U128
  PROVE  n % Word = n
<1>1. Word \in Nat /\ n \in Nat /\ n < Word
  BY DEF U128
<1> QED BY <1>1

(* What is taken in proportion is never more than there is. *)
LEMMA Share ==
  ASSUME NEW n \in U128, NEW m \in U128, NEW k \in U128, k > 0
  PROVE  /\ Scaled(n, m, k) \in U128 /\ Scaled(n, m, k) \in Nat
         /\ k * Scaled(n, m, k) <= n * m
         /\ m <= k => Scaled(n, m, k) <= n
         /\ m < k /\ n > 0 => Scaled(n, m, k) < n
<1>1. n \in Nat /\ m \in Nat /\ k \in Nat /\ n * m \in Nat
  BY DEF U128
<1>2. PICK v \in Nat : v = (n * m) % Word /\ v < Word /\ v <= n * m
  <2>1. PICK w \in Nat : w = n * m
    BY <1>1
  <2>2. w % Word \in Nat /\ w % Word < Word /\ w % Word <= w
    BY <2>1, RemainderType DEF U128
  <2> QED BY <2>1, <2>2
<1>3. PICK q \in Nat : q = v \div k /\ q <= v /\ k * q <= v
  BY <1>1, <1>2, Quotient
<1>4. q = Scaled(n, m, k) /\ q \in U128 /\ k * q <= n * m
  BY <1>1, <1>2, <1>3 DEF Scaled, U128
<1>5. ASSUME m <= k PROVE q <= n
  <2> SUFFICES ASSUME q >= n + 1 PROVE FALSE
    BY <1>1, <1>3
  <2>1. k * q >= k * (n + 1)
    BY <1>1, <1>3
  <2>2. k * (n + 1) = k * n + k
    BY <1>1
  <2>3. n * m <= n * k
    BY <1>1, <1>5
  <2>4. n * k = k * n
    BY <1>1
  <2> QED BY <1>1, <1>3, <1>4, <2>1, <2>2, <2>3, <2>4
<1>6. ASSUME m < k, n > 0 PROVE q < n
  <2> SUFFICES ASSUME q >= n PROVE FALSE
    BY <1>1, <1>3
  <2>1. k * q >= k * n
    BY <1>1, <1>3
  <2>2. n * (k - m) > 0
    BY <1>1, <1>6
  <2>3. n * (k - m) = k * n - n * m
    BY <1>1
  <2> QED BY <1>1, <1>3, <1>4, <2>1, <2>2, <2>3
<1> QED BY <1>4, <1>5, <1>6

LEMMA Fees ==
  ASSUME NEW n \in U128, n > 0
  PROVE  /\ TotalFee(n) \in Nat /\ TotalFee(n) < n
         /\ ProtocolFee(n) \in Nat /\ ProtocolFee(n) <= n
         /\ n * FeeRate < Word => ProtocolFee(n) <= TotalFee(n)
<1>1. /\ n \in Nat /\ FeeRate \in Nat /\ ProtocolRate \in Nat /\ Basis \in Nat
      /\ ProtocolRate <= FeeRate /\ FeeRate < Basis /\ Basis > 0
  BY DexConstants DEF U128
<1>2. ASSUME NEW r \in Nat, r < Basis, NEW f, f = ((n * r) % Word) \div Basis
      PROVE  /\ f \in Nat /\ f < n
             /\ n * r < Word => Basis * f <= n * r /\ n * r < Basis * f + Basis
  <2>1. n * r \in Nat
    BY <1>1
  <2>2. PICK v \in Nat : v = (n * r) % Word /\ v <= n * r /\ (n * r < Word => v = n * r)
    BY <2>1, RemainderType
  <2>3. f \in Nat /\ Basis * f <= v /\ v < Basis * f + Basis
    BY <1>1, <1>2, <2>2, Quotient
  <2>4. f < n
    <3> SUFFICES ASSUME f >= n PROVE FALSE
      BY <1>1, <2>3
    <3>1. Basis * f >= Basis * n
      BY <1>1, <2>3
    <3>2. n * (Basis - r) > 0
      BY <1>1, <1>2
    <3>3. n * (Basis - r) = Basis * n - n * r
      BY <1>1, <1>2
    <3> QED BY <1>1, <2>1, <2>2, <2>3, <3>1, <3>2, <3>3
  <2> QED BY <2>1, <2>2, <2>3, <2>4
<1>3. PICK f, g : f = TotalFee(n) /\ g = ProtocolFee(n)
  OBVIOUS
<1>4. /\ f \in Nat /\ f < n
      /\ n * FeeRate < Word => n * FeeRate < Basis * f + Basis
  BY <1>1, <1>2, <1>3 DEF TotalFee
<1>5. /\ g \in Nat /\ g < n
      /\ n * ProtocolRate < Word => Basis * g <= n * ProtocolRate
  BY <1>1, <1>2, <1>3 DEF ProtocolFee
<1>6. ASSUME n * FeeRate < Word PROVE g <= f
  <2>1. n * ProtocolRate <= n * FeeRate
    BY <1>1
  <2>2. n * ProtocolRate \in Nat /\ n * FeeRate \in Nat
    BY <1>1
  <2>3. Basis * g < Basis * f + Basis
    BY <1>1, <1>4, <1>5, <1>6, <2>1, <2>2
  <2> SUFFICES ASSUME g >= f + 1 PROVE FALSE
    BY <1>4, <1>5
  <2>4. Basis * g >= Basis * (f + 1)
    BY <1>1, <1>4, <1>5
  <2>5. Basis * (f + 1) = Basis * f + Basis
    BY <1>1, <1>4
  <2> QED BY <1>1, <1>4, <1>5, <2>3, <2>4, <2>5
<1> QED BY <1>1, <1>3, <1>4, <1>5, <1>6

(* A swap never takes all of a reserve, and without a fee that wraps it    *)
(* never lowers the product of the two.                                    *)
LEMMA SwapAmounts ==
  ASSUME NEW x \in U128, NEW y \in U128, NEW n \in U128, n > 0, MaySwap(x, y, n),
         NEW net, net = n - ProtocolFee(n), NEW out, out = AmountOut(x, y, n)
  PROVE  /\ net \in U128 /\ out \in U128 /\ ProtocolFee(n) \in U128
         /\ net \in Nat /\ out \in Nat
         /\ x + net \in U128 /\ y - out \in U128
         /\ x > 0 /\ y > 0 => x + net > 0 /\ y - out > 0
         /\ n * FeeRate < Word => x * y <= (x + net) * (y - out)
<1>1. x \in Nat /\ y \in Nat /\ n \in Nat /\ x < Word /\ y < Word /\ n < Word
  BY DEF U128
<1>2. PICK f, g, m : f = TotalFee(n) /\ g = ProtocolFee(n) /\ m = n - f
  OBVIOUS
<1>3. f \in Nat /\ f < n /\ g \in Nat /\ g <= n /\ (n * FeeRate < Word => g <= f)
  BY <1>2, Fees
<1>4. m \in Nat /\ m > 0 /\ m <= n /\ net \in Nat /\ net <= n /\ (n * FeeRate < Word => m <= net)
  BY <1>1, <1>2, <1>3
<1>5. x + net < Word /\ out = (y * m) \div (x + m)
  BY <1>1, <1>2, <1>3, <1>4 DEF MaySwap, AmountOut
<1>6. y * m \in Nat /\ x + m \in Nat /\ x + m > 0
  BY <1>1, <1>4
<1>7. out \in Nat /\ (x + m) * out <= y * m
  BY <1>5, <1>6, Quotient
<1>8. (x + m) * out = x * out + m * out /\ x * out \in Nat /\ m * out \in Nat
  BY <1>1, <1>4, <1>7
<1>9. out <= y
  <2> SUFFICES ASSUME out >= y + 1 PROVE FALSE
    BY <1>1, <1>7
  <2>1. m * out >= m * (y + 1)
    BY <1>1, <1>4, <1>7
  <2>2. m * (y + 1) = y * m + m
    BY <1>1, <1>4
  <2> QED BY <1>4, <1>6, <1>7, <1>8, <2>1, <2>2
<1>10. ASSUME x > 0, y > 0 PROVE out < y
  <2> SUFFICES ASSUME out = y PROVE FALSE
    BY <1>1, <1>7, <1>9
  <2>1. x * out > 0
    BY <1>1, <1>7, <1>10
  <2>2. m * out = y * m
    BY <1>1, <1>4
  <2> QED BY <1>6, <1>7, <1>8, <2>1, <2>2
<1>11. ASSUME n * FeeRate < Word PROVE x * y <= (x + net) * (y - out)
  <2>1. PICK z \in Nat : z = y - out
    BY <1>1, <1>7, <1>9
  <2>2. (x + m) * z <= (x + net) * z
    BY <1>1, <1>4, <1>11, <2>1
  <2>3. (x + m) * z = (x + m) * y - (x + m) * out
    BY <1>1, <1>4, <1>7, <2>1
  <2>4. (x + m) * y = x * y + y * m
    BY <1>1, <1>4
  <2>5. x * y \in Nat /\ (x + m) * z \in Nat /\ (x + net) * z \in Nat /\ (x + m) * y \in Nat
        /\ (x + m) * out \in Nat
    BY <1>1, <1>4, <1>7, <2>1
  <2> QED BY <1>6, <1>7, <2>1, <2>2, <2>3, <2>4, <2>5
<1>12. net \in U128 /\ out \in U128 /\ ProtocolFee(n) \in U128
  BY <1>1, <1>2, <1>3, <1>4, <1>7, <1>9 DEF U128
<1>13. x + net \in U128 /\ y - out \in U128
  BY <1>1, <1>4, <1>5, <1>7, <1>9 DEF U128
<1>14. x > 0 /\ y > 0 => x + net > 0 /\ y - out > 0
  BY <1>1, <1>4, <1>7, <1>10
<1> QED BY <1>4, <1>7, <1>11, <1>12, <1>13, <1>14

-----------------------------------------------------------------------------
(* The orders.                                                             *)

(* Amounts of requests are amounts, and so is nothing. *)
LEMMA AmountTypes == /\ 0 \in U128
                     /\ \A n \in Amount : n \in U128 /\ n \in Nat
BY DEF U128

LEMMA SellAKeeps ==
  ASSUME DexInv, NEW c \in Call, NEW p \in Pair, NEW u \in User, NEW n \in Amount,
         SellA(c, p, u, n)
  PROVE  DexInv'
<1> USE DexTypes
<1>1. PICK r, g, net, out, m :
        /\ r = pools[p] /\ g = ProtocolFee(n) /\ net = n - g /\ out = AmountOut(r.a, r.b, n)
        /\ m = [a |-> r.a + net, b |-> r.b - out, shares |-> r.shares]
  OBVIOUS
<1>2. /\ n > 0 /\ r # NoPool /\ r \in Pool /\ MaySwap(r.a, r.b, n) /\ pools' = [pools EXCEPT ![p] = m]
      /\ Place(c, p, "sellA", "payA", u, net, out, 0, g)
      /\ UNCHANGED <<stores, rest, missed, unburnt, overdrawn>>
  <2>1. /\ n > 0 /\ r # NoPool /\ MaySwap(r.a, r.b, n)
        /\ pools' = [pools EXCEPT ![p] =
             [a |-> r.a + net, b |-> r.b - out, shares |-> r.shares]]
    BY <1>1 DEF SellA
  <2>2. Place(c, p, "sellA", "payA", u, net, out, 0, g)
    BY <1>1 DEF SellA
  <2>3. UNCHANGED <<stores, rest, missed, unburnt, overdrawn>>
    BY DEF SellA
  <2>4. r \in Pool
    BY <1>1, <2>1
  <2>5. pools' = [pools EXCEPT ![p] = m]
    BY <1>1, <2>1
  <2> QED BY <2>1, <2>2, <2>3, <2>4, <2>5
<1>3. n \in U128 /\ 0 \in U128
  BY AmountTypes
<1>4. /\ r.a \in U128 /\ r.b \in U128 /\ r.shares \in U128
      /\ r.a \in Nat /\ r.b \in Nat /\ r.shares \in Nat
  BY <1>2, PoolTypes
<1>5. /\ net \in U128 /\ out \in U128 /\ g \in U128 /\ net \in Nat /\ out \in Nat
      /\ r.a + net \in U128 /\ r.b - out \in U128
      /\ r.a > 0 /\ r.b > 0 => r.a + net > 0 /\ r.b - out > 0
  BY <1>1, <1>2, <1>3, <1>4, SwapAmounts
<1>6. /\ m \in Pool /\ m # NoPool
      /\ m.a = r.a + net /\ m.b = r.b - out /\ m.shares = r.shares
  <2>1. m \in Pool /\ m.a = r.a + net /\ m.b = r.b - out /\ m.shares = r.shares
    BY <1>1, <1>4, <1>5 DEF Pool
  <2> QED BY <2>1, PoolTypes
<1>7. PICK s \in Order : IsPlaced(s, c, p, "sellA", net, out, 0, g)
  <2>1. Begins("sellA") = "payA"
    BY DEF Begins
  <2>2. Place(c, p, "sellA", Begins("sellA"), u, net, out, 0, g)
    BY <1>2, <2>1
  <2> QED BY <1>3, <1>5, <2>2, Placed
<1>8. ASSUME NEW d \in {TokenA[p], TokenB[p]}
      PROVE  Reserve(m, p, d) + Owing(s, p, d) <= Reserve(pools[p], p, d)
  <2>1. Owing(s, p, d) = PartIn(p, d, 0, out) - PartIn(p, d, net, 0)
    BY <1>7 DEF IsPlaced, Begins, OwingOf
  <2>2. /\ Reserve(m, p, d) = PartIn(p, d, r.a + net, r.b - out)
        /\ Reserve(pools[p], p, d) = PartIn(p, d, r.a, r.b)
    BY <1>1, <1>2, <1>6 DEF Reserve
  <2> QED BY <1>4, <1>5, <2>1, <2>2 DEF PartIn
<1>9. ShareClaim(s, p) + pools[p].shares <= m.shares
  <2>1. ShareClaim(s, p) = 0
    BY <1>7 DEF IsPlaced, ShareClaim
  <2> QED BY <1>1, <1>4, <1>6, <2>1
<1>10. p \notin overdrawn' => Backed(m)
  BY <1>1, <1>2, <1>4, <1>5, <1>6 DEF DexInv, Backed, Divisible
<1>11. Replaces(p, s, m)
  BY <1>1, <1>2, <1>6, <1>8, <1>9, <1>10 DEF Replaces
<1> QED BY <1>1, <1>2, <1>6, <1>7, <1>11, PlacedKeeps

LEMMA SellBKeeps ==
  ASSUME DexInv, NEW c \in Call, NEW p \in Pair, NEW u \in User, NEW n \in Amount,
         SellB(c, p, u, n)
  PROVE  DexInv'
<1> USE DexTypes
<1>1. PICK r, g, net, out, m :
        /\ r = pools[p] /\ g = ProtocolFee(n) /\ net = n - g /\ out = AmountOut(r.b, r.a, n)
        /\ m = [a |-> r.a - out, b |-> r.b + net, shares |-> r.shares]
  OBVIOUS
<1>2. /\ n > 0 /\ r # NoPool /\ r \in Pool /\ MaySwap(r.b, r.a, n) /\ pools' = [pools EXCEPT ![p] = m]
      /\ Place(c, p, "sellB", "payB", u, out, net, 0, g)
      /\ UNCHANGED <<stores, rest, missed, unburnt, overdrawn>>
  <2>1. /\ n > 0 /\ r # NoPool /\ MaySwap(r.b, r.a, n)
        /\ pools' = [pools EXCEPT ![p] =
             [a |-> r.a - out, b |-> r.b + net, shares |-> r.shares]]
    BY <1>1 DEF SellB
  <2>2. Place(c, p, "sellB", "payB", u, out, net, 0, g)
    BY <1>1 DEF SellB
  <2>3. UNCHANGED <<stores, rest, missed, unburnt, overdrawn>>
    BY DEF SellB
  <2>4. r \in Pool
    BY <1>1, <2>1
  <2>5. pools' = [pools EXCEPT ![p] = m]
    BY <1>1, <2>1
  <2> QED BY <2>1, <2>2, <2>3, <2>4, <2>5
<1>3. n \in U128 /\ 0 \in U128
  BY AmountTypes
<1>4. /\ r.a \in U128 /\ r.b \in U128 /\ r.shares \in U128
      /\ r.a \in Nat /\ r.b \in Nat /\ r.shares \in Nat
  BY <1>2, PoolTypes
<1>5. /\ net \in U128 /\ out \in U128 /\ g \in U128 /\ net \in Nat /\ out \in Nat
      /\ r.b + net \in U128 /\ r.a - out \in U128
      /\ r.b > 0 /\ r.a > 0 => r.b + net > 0 /\ r.a - out > 0
  BY <1>1, <1>2, <1>3, <1>4, SwapAmounts
<1>6. /\ m \in Pool /\ m # NoPool
      /\ m.a = r.a - out /\ m.b = r.b + net /\ m.shares = r.shares
  <2>1. m \in Pool /\ m.a = r.a - out /\ m.b = r.b + net /\ m.shares = r.shares
    BY <1>1, <1>4, <1>5 DEF Pool
  <2> QED BY <2>1, PoolTypes
<1>7. PICK s \in Order : IsPlaced(s, c, p, "sellB", out, net, 0, g)
  <2>1. Begins("sellB") = "payB"
    BY DEF Begins
  <2>2. Place(c, p, "sellB", Begins("sellB"), u, out, net, 0, g)
    BY <1>2, <2>1
  <2> QED BY <1>3, <1>5, <2>2, Placed
<1>8. ASSUME NEW d \in {TokenA[p], TokenB[p]}
      PROVE  Reserve(m, p, d) + Owing(s, p, d) <= Reserve(pools[p], p, d)
  <2>1. Owing(s, p, d) = PartIn(p, d, out, 0) - PartIn(p, d, 0, net)
    BY <1>7 DEF IsPlaced, Begins, OwingOf
  <2>2. /\ Reserve(m, p, d) = PartIn(p, d, r.a - out, r.b + net)
        /\ Reserve(pools[p], p, d) = PartIn(p, d, r.a, r.b)
    BY <1>1, <1>2, <1>6 DEF Reserve
  <2> QED BY <1>4, <1>5, <2>1, <2>2 DEF PartIn
<1>9. ShareClaim(s, p) + pools[p].shares <= m.shares
  <2>1. ShareClaim(s, p) = 0
    BY <1>7 DEF IsPlaced, ShareClaim
  <2> QED BY <1>1, <1>4, <1>6, <2>1
<1>10. p \notin overdrawn' => Backed(m)
  BY <1>1, <1>2, <1>4, <1>5, <1>6 DEF DexInv, Backed, Divisible
<1>11. Replaces(p, s, m)
  BY <1>1, <1>2, <1>6, <1>8, <1>9, <1>10 DEF Replaces
<1> QED BY <1>1, <1>2, <1>6, <1>7, <1>11, PlacedKeeps

(* What is offered to a pool, and the shares for it. *)
LEMMA OfferTypes ==
  ASSUME NEW r \in Pool, Divisible(r), NEW a \in U128, NEW b \in U128, NEW o, o = Offer(r, a, b)
  PROVE  /\ o.a \in U128 /\ o.b \in U128 /\ o.a \in Nat /\ o.b \in Nat
         /\ \A x, y \in U128 : SharesFor(r, x, y) \in U128 /\ SharesFor(r, x, y) \in Nat
<1>1. r.a \in U128 /\ r.b \in U128 /\ r.shares \in U128 /\ r.a > 0 /\ r.b > 0
  BY PoolTypes DEF Divisible
<1>2. Scaled(a, r.b, r.a) \in U128 /\ Scaled(b, r.a, r.b) \in U128
  BY <1>1, Share
<1>3. o.a \in U128 /\ o.b \in U128
  BY <1>2 DEF Offer
<1>4. \A x, y \in U128 : SharesFor(r, x, y) \in U128
  <2>1. \A x \in U128 : Scaled(x, r.shares, r.a) \in U128 /\ Scaled(x, r.shares, r.b) \in U128
    BY <1>1, Share
  <2> QED BY <2>1 DEF SharesFor
<1> QED BY <1>3, <1>4 DEF U128

LEMMA AddLiquidityKeeps ==
  ASSUME DexInv, NEW c \in Call, NEW p \in Pair, NEW u \in User, NEW a \in Amount,
         NEW b \in Amount, AddLiquidity(c, p, u, a, b)
  PROVE  DexInv'
<1> USE DexTypes
<1>1. PICK r, o, lp, m :
        /\ r = pools[p] /\ o = Offer(r, a, b) /\ lp = SharesFor(r, o.a, o.b)
        /\ m = [a |-> r.a + o.a, b |-> r.b + o.b, shares |-> r.shares + lp]
  OBVIOUS
<1>2. /\ r # NoPool /\ r \in Pool /\ Divisible(r) /\ lp > 0
      /\ r.a + o.a < Word /\ r.b + o.b < Word /\ r.shares + lp < Word
      /\ pools' = [pools EXCEPT ![p] = m]
      /\ Place(c, p, "add", "payA", u, o.a, o.b, lp, 0)
      /\ UNCHANGED <<stores, rest, missed, unburnt, overdrawn>>
  BY <1>1 DEF AddLiquidity
<1>3. a \in U128 /\ b \in U128 /\ 0 \in U128
  BY AmountTypes
<1>4. /\ o.a \in U128 /\ o.b \in U128 /\ o.a \in Nat /\ o.b \in Nat
      /\ lp \in U128 /\ lp \in Nat
  BY <1>1, <1>2, <1>3, OfferTypes
<1>5. r.a \in Nat /\ r.b \in Nat /\ r.shares \in Nat /\ r.a > 0 /\ r.b > 0
  BY <1>2, PoolTypes DEF Divisible
<1>6. /\ m \in Pool /\ m # NoPool
      /\ m.a = r.a + o.a /\ m.b = r.b + o.b /\ m.shares = r.shares + lp
  <2>1. r.a + o.a \in U128 /\ r.b + o.b \in U128 /\ r.shares + lp \in U128
    BY <1>2, <1>4, <1>5 DEF U128
  <2>2. m \in Pool /\ m.a = r.a + o.a /\ m.b = r.b + o.b /\ m.shares = r.shares + lp
    BY <1>1, <2>1 DEF Pool
  <2> QED BY <2>2, PoolTypes
<1>7. PICK s \in Order : IsPlaced(s, c, p, "add", o.a, o.b, lp, 0)
  <2>1. Begins("add") = "payA"
    BY DEF Begins
  <2>2. Place(c, p, "add", Begins("add"), u, o.a, o.b, lp, 0)
    BY <1>2, <2>1
  <2> QED BY <1>3, <1>4, <2>2, Placed
<1>8. ASSUME NEW d \in {TokenA[p], TokenB[p]}
      PROVE  Reserve(m, p, d) + Owing(s, p, d) <= Reserve(pools[p], p, d)
  <2>1. Owing(s, p, d) = - PartIn(p, d, o.a, o.b)
    BY <1>7 DEF IsPlaced, Begins, OwingOf
  <2>2. /\ Reserve(m, p, d) = PartIn(p, d, r.a + o.a, r.b + o.b)
        /\ Reserve(pools[p], p, d) = PartIn(p, d, r.a, r.b)
    BY <1>1, <1>2, <1>6 DEF Reserve
  <2> QED BY <1>4, <1>5, <2>1, <2>2 DEF PartIn
<1>9. ShareClaim(s, p) + pools[p].shares <= m.shares
  <2>1. ShareClaim(s, p) = lp
    BY <1>7 DEF IsPlaced, Begins, ShareClaim, OrderOf
  <2> QED BY <1>1, <1>4, <1>5, <1>6, <2>1
<1>10. Backed(m)
  BY <1>4, <1>5, <1>6 DEF Backed, Divisible
<1>11. Replaces(p, s, m)
  BY <1>1, <1>2, <1>6, <1>8, <1>9, <1>10 DEF Replaces
<1> QED BY <1>1, <1>2, <1>6, <1>7, <1>11, PlacedKeeps

LEMMA RemoveLiquidityKeeps ==
  ASSUME DexInv, NEW c \in Call, NEW p \in Pair, NEW u \in User, NEW lp \in Amount,
         RemoveLiquidity(c, p, u, lp)
  PROVE  DexInv'
<1> USE DexTypes
<1>1. PICK r, a, b, m :
        /\ r = pools[p] /\ a = Scaled(r.a, lp, r.shares) /\ b = Scaled(r.b, lp, r.shares)
        /\ m = [a |-> (r.a - a) % Word, b |-> (r.b - b) % Word, shares |-> (r.shares - lp) % Word]
  OBVIOUS
<1>2. /\ lp > 0 /\ r # NoPool /\ r \in Pool /\ r.shares > 0
      /\ pools' = [pools EXCEPT ![p] = m]
      /\ overdrawn' = overdrawn \cup (IF lp > r.shares THEN {p} ELSE {})
      /\ Place(c, p, "remove", "burn", u, a, b, lp, 0)
      /\ UNCHANGED <<stores, rest, missed, unburnt>>
  BY <1>1 DEF RemoveLiquidity
<1>3. lp \in U128 /\ lp \in Nat /\ 0 \in U128
  BY AmountTypes
<1>4. /\ r.a \in U128 /\ r.b \in U128 /\ r.shares \in U128
      /\ r.a \in Nat /\ r.b \in Nat /\ r.shares \in Nat
      /\ r.a < Word /\ r.b < Word /\ r.shares < Word
  BY <1>2, PoolTypes
<1>5. /\ a \in U128 /\ b \in U128 /\ a \in Nat /\ b \in Nat
      /\ lp <= r.shares => a <= r.a /\ b <= r.b
      /\ lp < r.shares /\ r.a > 0 => a < r.a
      /\ lp < r.shares /\ r.b > 0 => b < r.b
  BY <1>1, <1>2, <1>3, <1>4, Share
<1>6. m \in Pool /\ m # NoPool
  <2>1. (r.a - a) % Word \in U128 /\ (r.b - b) % Word \in U128 /\ (r.shares - lp) % Word \in U128
    BY <1>3, <1>4, <1>5 DEF U128
  <2>2. m \in Pool
    BY <1>1, <2>1 DEF Pool
  <2> QED BY <2>2, PoolTypes
<1>7. PICK s \in Order : IsPlaced(s, c, p, "remove", a, b, lp, 0)
  <2>1. Begins("remove") = "burn"
    BY DEF Begins
  <2>2. Place(c, p, "remove", Begins("remove"), u, a, b, lp, 0)
    BY <1>2, <2>1
  <2> QED BY <1>3, <1>5, <2>2, Placed
<1>8. ASSUME p \notin overdrawn'
      PROVE  /\ m.a = r.a - a /\ m.b = r.b - b /\ m.shares = r.shares - lp
             /\ a <= r.a /\ b <= r.b /\ lp <= r.shares
  <2>1. lp <= r.shares
    BY <1>2, <1>3, <1>4, <1>8
  <2>2. r.a - a \in 0 .. Word - 1 /\ r.b - b \in 0 .. Word - 1 /\ r.shares - lp \in 0 .. Word - 1
    BY <1>3, <1>4, <1>5, <2>1
  <2>3. \A x \in 0 .. Word - 1 : x % Word = x
    BY SmallRemainder DEF U128
  <2>4. m.a = (r.a - a) % Word /\ m.b = (r.b - b) % Word /\ m.shares = (r.shares - lp) % Word
    BY <1>1
  <2>5. m.a = r.a - a /\ m.b = r.b - b /\ m.shares = r.shares - lp
    BY <2>2, <2>3, <2>4
  <2> QED BY <1>5, <2>1, <2>5
<1>9. ASSUME p \notin overdrawn', NEW d \in {TokenA[p], TokenB[p]}
      PROVE  Reserve(m, p, d) + Owing(s, p, d) <= Reserve(pools[p], p, d)
  <2>1. Owing(s, p, d) = PartIn(p, d, a, b)
    BY <1>7 DEF IsPlaced, Begins, OwingOf
  <2>2. /\ Reserve(m, p, d) = PartIn(p, d, r.a - a, r.b - b)
        /\ Reserve(pools[p], p, d) = PartIn(p, d, r.a, r.b)
    BY <1>1, <1>2, <1>6, <1>8, <1>9 DEF Reserve
  <2> QED BY <1>4, <1>5, <2>1, <2>2 DEF PartIn
<1>10. ASSUME p \notin overdrawn' PROVE ShareClaim(s, p) + pools[p].shares <= m.shares
  <2>1. ShareClaim(s, p) = -lp
    BY <1>7 DEF IsPlaced, Begins, ShareClaim, OrderOf
  <2> QED BY <1>1, <1>3, <1>4, <1>8, <1>10, <2>1
<1>11. ASSUME p \notin overdrawn' PROVE Backed(m)
  <2>1. Backed(r) /\ r.a > 0 /\ r.b > 0
    BY <1>1, <1>2, <1>11 DEF DexInv, Backed, Divisible
  <2> QED BY <1>3, <1>4, <1>5, <1>8, <1>11, <2>1 DEF Backed, Divisible
<1>12. Replaces(p, s, m)
  BY <1>1, <1>2, <1>6, <1>9, <1>10, <1>11 DEF Replaces
<1> QED BY <1>1, <1>2, <1>6, <1>7, <1>12, PlacedKeeps

LEMMA AddLiquidityAbortsKeeps ==
  ASSUME DexInv, NEW p \in Pair, AddLiquidityAborts(p)
  PROVE  DexInv'
BY AbortKeeps DEF AddLiquidityAborts

LEMMA RemoveLiquidityAbortsKeeps ==
  ASSUME DexInv, NEW p \in Pair, NEW u \in User, NEW lp \in Amount,
         RemoveLiquidityAborts(p, u, lp)
  PROVE  DexInv'
BY AbortKeeps DEF RemoveLiquidityAborts

LEMMA AddLiquidityOverflowsKeeps ==
  ASSUME DexInv, NEW c \in Call, NEW p \in Pair, NEW a \in Amount, NEW b \in Amount,
         AddLiquidityOverflows(c, p, a, b)
  PROVE  DexInv'
<1> USE DexTypes
<1>1. PICK r, o, lp, moreB, m :
        /\ r = pools[p] /\ o = Offer(r, a, b) /\ lp = SharesFor(r, o.a, o.b)
        /\ moreB = (IF r.b + o.b < Word THEN o.b ELSE 0)
        /\ m = [a |-> r.a + o.a, b |-> r.b + moreB, shares |-> r.shares]
  OBVIOUS
<1>2. /\ r # NoPool /\ r \in Pool /\ Divisible(r) /\ r.a + o.a < Word
      /\ orders[c] = NoOrder /\ calls[c] = Idle /\ Counted
      /\ pools' = [pools EXCEPT ![p] = m]
      /\ missed' = [missed EXCEPT ![p] = [d \in Denom |-> @[d] + PartIn(p, d, o.a, moreB)]]
      /\ UNCHANGED <<tokens, balances, calls, contested>>
      /\ UNCHANGED <<orders, saved, up, restarts, unburnt, overdrawn>>
  BY <1>1 DEF AddLiquidityOverflows, Accept, rest
<1>3. a \in U128 /\ b \in U128 /\ 0 \in U128
  BY AmountTypes
<1>4. o.a \in U128 /\ o.b \in U128 /\ o.a \in Nat /\ o.b \in Nat
  BY <1>1, <1>2, <1>3, OfferTypes
<1>5. r.a \in Nat /\ r.b \in Nat /\ r.shares \in U128 /\ r.a > 0 /\ r.b > 0 /\ r.b < Word
  BY <1>2, PoolTypes DEF Divisible
<1>6. moreB \in Nat /\ r.b + moreB < Word
  BY <1>1, <1>4, <1>5
<1>7. /\ m \in Pool /\ m # NoPool
      /\ m.a = r.a + o.a /\ m.b = r.b + moreB /\ m.shares = r.shares
  <2>1. r.a + o.a \in U128 /\ r.b + moreB \in U128
    BY <1>2, <1>4, <1>5, <1>6 DEF U128
  <2>2. m \in Pool /\ m.a = r.a + o.a /\ m.b = r.b + moreB /\ m.shares = r.shares
    BY <1>1, <1>5, <2>1 DEF Pool
  <2> QED BY <2>2, PoolTypes
<1>8. /\ pools' \in [Pair -> Pool \cup {NoPool}] /\ pools'[p] = m
      /\ \A q \in Pair \ {p} : pools'[q] = pools[q]
  BY <1>2, <1>7
<1>9. /\ missed' \in [Pair -> [Denom -> Nat]]
      /\ \A d \in Denom : missed'[p][d] = missed[p][d] + PartIn(p, d, o.a, moreB)
      /\ \A q \in Pair \ {p} : missed'[q] = missed[q]
  <2>1. \A d \in Denom : missed[p][d] + PartIn(p, d, o.a, moreB) \in Nat
    BY <1>4, <1>6, PartType
  <2>2. PICK f : f = [d \in Denom |-> missed[p][d] + PartIn(p, d, o.a, moreB)]
    OBVIOUS
  <2>3. missed' = [missed EXCEPT ![p] = f]
    BY <1>2, <2>2
  <2> QED BY <2>1, <2>2, <2>3
<1>10. FactoryInv' /\ StoresOK'
  BY <1>2, FactoryStays DEF FactoryInv
<1>11. SetsOrder(c, NoOrder) /\ Matches(NoOrder, calls'[c])
  BY <1>2 DEF SetsOrder, Matches, ForeignCall
<1>12. OthersStay(p, NoOrder, NoOrder)
  BY <1>2, <1>8, <1>9, BalancesStay, TokensStay DEF OthersStay, OrderOf
<1>13. CoverAt(p, NoOrder, NoOrder)
  <2> SUFFICES ASSUME NEW e \in {TokenA[p], TokenB[p]}
               PROVE  balances'[e][p] + missed'[p][e] - Reserve(pools'[p], p, e) - Owing(NoOrder, p, e)
                        >= balances[e][p] + missed[p][e] - Reserve(pools[p], p, e) - Owing(NoOrder, p, e)
    BY DEF CoverAt
  <2>1. /\ e \in Denom /\ balances[e][p] \in Nat /\ missed[p][e] \in Nat
        /\ missed'[p][e] = missed[p][e] + PartIn(p, e, o.a, moreB)
    BY <1>9, PairTypes, TermsAre
  <2>2. /\ Reserve(pools'[p], p, e) = PartIn(p, e, r.a + o.a, r.b + moreB)
        /\ Reserve(pools[p], p, e) = PartIn(p, e, r.a, r.b)
    BY <1>1, <1>2, <1>7, <1>8 DEF Reserve
  <2>3. Owing(NoOrder, p, e) = 0
    BY DEF Owing
  <2> QED BY <1>2, <1>4, <1>5, <1>6, <2>1, <2>2, <2>3 DEF PartIn
<1>14. PairInv(p)'
  <2>1. PICK d \in Denom : d = LpOf[p]
    BY PairTypes
  <2>2. /\ Registered(d)' = Registered(d) /\ Total(d)' <= Total(d)
        /\ Registered(d) => tokens'[d].max = tokens[d].max
        /\ balances'[d][p] >= balances[d][p]
    BY <1>2, TokensStay, BalancesStay
  <2> QED BY <1>1, <1>2, <1>7, <1>8, <1>10, <2>1, <2>2, PairStays
<1>15. Backed(pools'[p])
  BY <1>4, <1>5, <1>6, <1>7, <1>8 DEF Backed, Divisible
<1>16. unburnt' \in [Pair -> Nat] /\ overdrawn' \subseteq Pair
  BY <1>2
<1> QED BY <1>2, <1>8, <1>9, <1>10, <1>11, <1>12, <1>13, <1>14, <1>15, <1>16, OrderKeeps

-----------------------------------------------------------------------------
(* The start, and a new start.                                             *)

Fresh ==
  /\ StoresEmpty /\ DexTypeOK
  /\ orders = [c \in Call |-> NoOrder]
  /\ missed = [p \in Pair |-> [d \in Denom |-> Reserve(pools[p], p, d)]]
  /\ \A p \in Pair \ overdrawn : Backed(pools[p]) /\ Backed(saved[p])

LEMMA FreshIsSound == Fresh => DexInv
<1> SUFFICES ASSUME Fresh PROVE DexInv
  OBVIOUS
<1>1. FactoryInv /\ DexTypeOK /\ StoresOK
  BY EmptyIsSound DEF Fresh, FactoryInv
<1>2. \A c \in Call : orders[c] = NoOrder /\ calls[c] = Idle
  BY DEF Fresh, StoresEmpty
<1>3. OrdersMatch
  BY <1>2 DEF OrdersMatch, Matches, ForeignCall
<1>4. PoolsAreCovered
  <2> SUFFICES ASSUME NEW p \in Pair \ overdrawn, NEW d \in Denom
               PROVE  balances[d][p] + missed[p][d] >= Reserve(pools[p], p, d) + Owings(p, d)
    BY DEF PoolsAreCovered, Owings
  <2> DEFINE f == [c \in Call |-> Owing(orders[c], p, d)]
  <2>1. DOMAIN f = Call /\ \A c \in Call : f[c] = 0
    BY <1>2 DEF Owing
  <2>2. Owings(p, d) = SumFunction(f)
    BY DEF Owings
  <2> HIDE DEF f
  <2>3. Owings(p, d) = 0
    BY <2>1, <2>2, AllZero
  <2>4. missed[p][d] = Reserve(pools[p], p, d) /\ balances[d][p] = 0
    BY PairTypes DEF Fresh, StoresEmpty
  <2>5. Reserve(pools[p], p, d) \in Nat
    <3>1. pools[p] \in Pool \cup {NoPool}
      BY <1>1 DEF DexTypeOK
    <3> QED BY <3>1, ReserveType
  <2> QED BY <2>3, <2>4, <2>5
<1>5. ASSUME NEW p \in Pair PROVE PairInv(p)
  <2>1. ~Registered(LpOf[p])
    BY PairTypes DEF Fresh, StoresEmpty, Registered
  <2>2. \A c \in Call : ~OrderOf(orders[c], p) /\ ~Opening(c, p)
    BY <1>2 DEF OrderOf, Opening, IsOpening
  <2>3. PairSound(p) /\ PairOpens(p)
    BY <2>1, <2>2 DEF PairSound, PairOpens
  <2>4. SharesBooked(p)
    <3> SUFFICES ASSUME pools[p] # NoPool
                 PROVE  Total(LpOf[p]) + ShareClaims(p) <= pools[p].shares + unburnt[p]
      BY DEF SharesBooked
    <3>1. Total(LpOf[p]) = 0
      BY <2>1 DEF Total
    <3>2. ShareClaims(p) = 0
      BY <2>2, NoClaims
    <3>3. pools[p] \in Pool /\ unburnt[p] \in Nat
      BY <1>1 DEF DexTypeOK
    <3> QED BY <3>1, <3>2, <3>3, PoolTypes
  <2> QED BY <2>3, <2>4 DEF PairInv
<1> QED BY <1>1, <1>3, <1>4, <1>5 DEF DexInv, Fresh

LEMMA DexStarts == DexInit => DexInv
<1> SUFFICES ASSUME DexInit PROVE DexInv
  OBVIOUS
<1>1. StoresEmpty /\ FactoryTypeOK /\ restarts \in 0 .. MaxRestarts
  BY FactoryStarts, DexConstants DEF DexInit, FactoryInit, StoresEmpty
<1>2. DexTypeOK
  BY <1>1 DEF DexInit, DexTypeOK, Nothing
<1>3. missed = [p \in Pair |-> [d \in Denom |-> Reserve(pools[p], p, d)]]
  BY DEF DexInit, Nothing, Reserve
<1>4. \A p \in Pair \ overdrawn : Backed(pools[p]) /\ Backed(saved[p])
  BY DEF DexInit, Backed
<1>5. Fresh
  BY <1>1, <1>2, <1>3, <1>4 DEF Fresh, DexInit
<1> QED BY <1>5, FreshIsSound

LEMMA RestartKeeps == DexInv /\ Restart => DexInv'
<1>1. ASSUME DexInv, Restart PROVE Fresh'
  <2> USE DexTypes
  <2>1. StoresEmpty' /\ StoresOK'
    <3>1. StoresEmpty'
      BY <1>1 DEF Restart, StoresEmpty
    <3>2. StoresEmpty' => FactoryInv'
      BY EmptyIsSound, PTL
    <3> QED BY <3>1, <3>2 DEF FactoryInv
  <2>2. /\ pools' = saved \/ pools' = [p \in Pair |-> NoPool]
        /\ pools' \in [Pair -> Pool \cup {NoPool}] /\ saved' = pools' /\ overdrawn' = overdrawn
    BY <1>1 DEF Restart
  <2>3. \A p \in Pair \ overdrawn' : Backed(pools'[p]) /\ Backed(saved'[p])
    BY <1>1, <2>2 DEF DexInv, Backed
  <2>4. /\ orders' = [c \in Call |-> NoOrder]
        /\ missed' = [p \in Pair |-> [d \in Denom |-> Reserve(pools'[p], p, d)]]
        /\ unburnt' = [p \in Pair |-> 0] /\ up' = TRUE /\ restarts' \in 0 .. MaxRestarts
        /\ made' = made
    BY <1>1, DexConstants DEF Restart
  <2>5. missed' \in [Pair -> [Denom -> Nat]]
    <3>1. \A p \in Pair, d \in Denom : Reserve(pools'[p], p, d) \in Nat
      BY <2>2, ReserveType
    <3> QED BY <2>4, <3>1
  <2>6. made' \in 0 .. MaxCalls
    BY <1>1, <2>4
  <2>7. DexTypeOK'
    BY <1>1, <2>1, <2>2, <2>4, <2>5, <2>6 DEF DexTypeOK, FactoryTypeOK, StoresOK
  <2> QED BY <2>1, <2>3, <2>4, <2>7 DEF Fresh
<1>2. Fresh' => DexInv'
  BY FreshIsSound, PTL
<1> QED BY <1>1, <1>2

-----------------------------------------------------------------------------
(* Every step keeps the invariant.                                         *)

LEMMA OrderStepKeeps == ASSUME DexInv, NEW c \in Call, OrderStep(c) PROVE DexInv'
BY TransferNextStep, AnnounceSharesKeeps, IssueSharesKeeps, OpenPoolKeeps, MintSharesKeeps,
   CreditSharesKeeps, BurnSharesKeeps, ReduceSharesKeeps, SaveKeeps DEF OrderStep

LEMMA NewOrderKeeps == ASSUME DexInv, NEW c \in Call, NewOrder(c) PROVE DexInv'
BY CreatePairKeeps, AddLiquidityKeeps, AddLiquidityOverflowsKeeps, SellAKeeps, SellBKeeps,
   RemoveLiquidityKeeps, RemoveLiquidityAbortsKeeps, AddLiquidityAbortsKeeps DEF NewOrder

LEMMA NothingKeeps == ASSUME DexInv, UNCHANGED vars PROVE DexInv'
<1> USE DexTypes
<1>1. UNCHANGED <<tokens, balances, calls, contested, made>> /\ UNCHANGED dexVars
  BY DEF vars, factoryVars
<1>2. FactoryInv'
  BY <1>1, FactoryStays
<1>3. \A e \in Call : orders[e] = NoOrder => ForeignCall(calls'[e])
  BY <1>1, ForeignAt
<1> QED BY <1>1, <1>2, <1>3, FactoryQuiet, BalancesStay, TokensStay

LEMMA DexKeeps == DexInv /\ [DexNext]_vars => DexInv'
BY FactoryStepKeeps, OrderStepKeeps, NewOrderKeeps, RestartKeeps, NothingKeeps DEF DexNext

LEMMA DexInvariant == DexSpec => []DexInv
BY DexStarts, DexKeeps, PTL DEF DexSpec

-----------------------------------------------------------------------------
(* The state properties.                                                   *)

(* The state of the exchange has its types. *)
THEOREM ExchangeTypes == DexSpec => []DexTypeOK
<1>1. DexInv => DexTypeOK
  BY DEF DexInv
<1> QED BY <1>1, DexInvariant, PTL

(* The tokens under the address of a pool are enough for its reserves and  *)
(* for all that requests in progress have still to move, whatever of them  *)
(* interleaves, fails in the middle or is cut off by a restart.            *)
THEOREM ReservesAreCovered == DexSpec => []PoolsAreCovered
<1>1. DexInv => PoolsAreCovered
  BY DEF DexInv
<1> QED BY <1>1, DexInvariant, PTL

(* The exchange keeps what the factory promises: no more tokens of a denom *)
(* than its supply says.                                                   *)
THEOREM ExchangeKeepsSupplies == DexSpec => []SupplyCoversBalances
<1>1. DexInv => SupplyCoversBalances
  BY DEF DexInv, FactoryInv
<1> QED BY <1>1, DexInvariant, PTL

(* A pool with shares has some of either token. *)
THEOREM SharesAlwaysHaveReserves == DexSpec => []SharesHaveReserves
<1>1. DexInv => SharesHaveReserves
  BY DEF DexInv, Backed, SharesHaveReserves
<1> QED BY <1>1, DexInvariant, PTL

(* No failure leaves a pair on record that can never be opened. *)
THEOREM RegisteredPairsAlwaysOpen == DexSpec => []RegisteredPairsOpen
<1>1. DexInv => RegisteredPairsOpen
  <2> SUFFICES ASSUME DexInv, NEW p \in Pair, LpOf[p] \notin contested, Registered(LpOf[p]),
                      pools[p] = NoPool
               PROVE  \E c \in Call :
                        /\ orders[c] # NoOrder /\ orders[c].pair = p /\ orders[c].kind = "create"
                        /\ \/ orders[c].at = "issue" /\ Doing(c, "fund")
                           \/ orders[c].at = "hand" /\ balances[LpOf[p]][p] >= orders[c].lp
                           \/ orders[c].at = "open"
    BY DEF RegisteredPairsOpen
  <2>1. PairOpens(p)
    BY DEF DexInv, PairInv
  <2>2. PICK c \in Call : Opening(c, p)
    BY <2>1 DEF PairOpens
  <2>3. orders[c].at = "hand" => balances[LpOf[p]][p] >= orders[c].lp
    BY <2>1, <2>2 DEF PairOpens
  <2> QED BY <2>2, <2>3 DEF Opening, IsOpening, OrderOf, Doing
<1> QED BY <1>1, DexInvariant, PTL

LEMMA BurntOrPending ==
  ASSUME DexInv, NEW p \in Pair, NEW c \in Call
  PROVE  /\ ShareClaim(orders[c], p) \in Int /\ ToBurn(orders[c], p) \in Nat
         /\ Pending(calls[c], LpOf[p]) \in Nat
         /\ 0 <= ShareClaim(orders[c], p) + ToBurn(orders[c], p) + Pending(calls[c], LpOf[p])
<1> USE DexTypes
<1>1. ShareClaim(orders[c], p) \in Int /\ ToBurn(orders[c], p) \in Nat
  <2>1. orders[c] \in Order \cup {NoOrder}
    OBVIOUS
  <2> QED BY <2>1, OwingType
<1>2. Pending(calls[c], LpOf[p]) \in Nat
  BY CallOf DEF Pending
<1>3. CASE ~OrderOf(orders[c], p)
  <2>1. ShareClaim(orders[c], p) = 0
    BY <1>3 DEF ShareClaim
  <2> QED BY <1>1, <1>2, <2>1
<1>4. CASE OrderOf(orders[c], p)
  <2>1. PICK o, r : o \in Order /\ o = orders[c] /\ r = calls[c] /\ o # NoOrder /\ o.pair = p
    BY <1>4 DEF OrderOf
  <2>2. o.lp \in Nat /\ OrderCall(o, r)
    BY <2>1, OrderAt, OrderTypes
  <2>3. CASE o.kind = "remove" /\ o.at = "burn"
    <3>1. ShareClaim(o, p) = -o.lp /\ ToBurn(o, p) = o.lp
      BY <2>1, <2>3 DEF ShareClaim, ToBurn, OrderOf
    <3> QED BY <1>1, <1>2, <2>1, <2>2, <3>1
  <2>4. CASE o.kind = "remove" /\ o.at = "reduce"
    <3>1. ShareClaim(o, p) = -o.lp
      BY <2>1, <2>4 DEF ShareClaim, OrderOf
    <3>2. Pending(r, LpOf[p]) = o.lp
      BY <2>1, <2>2, <2>4 DEF OrderCall, Pending
    <3> QED BY <1>1, <1>2, <2>1, <2>2, <3>1, <3>2
  <2>5. CASE ~(o.kind = "remove" /\ o.at \in {"burn", "reduce"})
    <3>1. ShareClaim(o, p) >= 0
      BY <2>1, <2>2, <2>5 DEF ShareClaim
    <3> QED BY <1>1, <1>2, <2>1, <3>1
  <2> QED BY <2>3, <2>4, <2>5
<1> QED BY <1>1, <1>2, <1>3, <1>4

LEMMA BackedShares == DexInv => SharesAreBacked /\ \A p \in Pair : WrittenOff(p) \in Nat
<1> SUFFICES ASSUME DexInv PROVE SharesAreBacked /\ \A p \in Pair : WrittenOff(p) \in Nat
  OBVIOUS
<1> USE DexTypes
<1>1. ASSUME NEW p \in Pair
      PROVE  /\ WrittenOff(p) \in Nat
             /\ -ShareClaims(p) - UnderWay(LpOf[p]) <= WrittenOff(p) - unburnt[p]
  <2>1. PICK d \in Denom : d = LpOf[p]
    BY PairTypes
  <2> DEFINE f == [c \in Call |-> ShareClaim(orders[c], p)]
             g == [c \in Call |-> ToBurn(orders[c], p)]
             h == [c \in Call |-> Pending(calls[c], d)]
             fg == [c \in Call |-> f[c] + g[c]]
             all == [c \in Call |-> fg[c] + h[c]]
             zero == [c \in Call |-> 0]
  <2>2. /\ ShareClaims(p) = SumFunctionOnSet(f, Call)
        /\ WrittenOff(p) = SumFunctionOnSet(g, Call) + unburnt[p]
        /\ UnderWay(d) = SumFunctionOnSet(h, Call)
    BY DEF ShareClaims, WrittenOff, UnderWay, SumFunction
  <2>3. \A c \in Call : /\ f[c] \in Int /\ g[c] \in Nat /\ h[c] \in Nat
                        /\ fg[c] = f[c] + g[c] /\ all[c] = fg[c] + h[c]
                        /\ zero[c] = 0 /\ zero[c] <= all[c]
    BY <2>1, BurntOrPending
  <2> HIDE DEF f, g, h, fg, all, zero
  <2>4. SumFunctionOnSet(g, Call) \in Nat
    BY <2>3, SumNat
  <2>5. SumFunctionOnSet(fg, Call) = SumFunctionOnSet(f, Call) + SumFunctionOnSet(g, Call)
    <3>1. \A c \in Call : f[c] \in Int /\ g[c] \in Int /\ fg[c] = f[c] + g[c]
      BY <2>3
    <3> QED BY <3>1, SumPlus
  <2>6. SumFunctionOnSet(all, Call) = SumFunctionOnSet(fg, Call) + SumFunctionOnSet(h, Call)
    <3>1. \A c \in Call : fg[c] \in Int /\ h[c] \in Int /\ all[c] = fg[c] + h[c]
      BY <2>3
    <3> QED BY <3>1, SumPlus
  <2>7. SumFunctionOnSet(zero, Call) = 0
    BY <2>3, SumZero
  <2>8. SumFunctionOnSet(zero, Call) <= SumFunctionOnSet(all, Call)
    <3>1. \A c \in Call : zero[c] \in Int /\ all[c] \in Int /\ zero[c] <= all[c]
      BY <2>3
    <3> QED BY <3>1, SumMonotonic
  <2>9. SumFunctionOnSet(f, Call) \in Int /\ SumFunctionOnSet(h, Call) \in Int
    <3>1. (\A c \in Call : f[c] \in Int) /\ (\A c \in Call : h[c] \in Int)
      BY <2>3
    <3> QED BY <3>1, SumInt
  <2>10. unburnt[p] \in Nat
    OBVIOUS
  <2> QED BY <2>1, <2>2, <2>4, <2>5, <2>6, <2>7, <2>8, <2>9, <2>10
<1>2. ASSUME NEW p \in Pair \ overdrawn, LpOf[p] \notin contested, pools[p] # NoPool
      PROVE  Held(LpOf[p]) <= pools[p].shares + WrittenOff(p)
  <2>1. PICK d \in Denom : d = LpOf[p]
    BY PairTypes
  <2>2. Held(d) + UnderWay(d) <= Total(d)
    BY <1>2, <2>1 DEF FactoryInv, SupplyCoversBalances, Total
  <2>3. Total(d) + ShareClaims(p) <= pools[p].shares + unburnt[p]
    BY <1>2, <2>1 DEF DexInv, PairInv, SharesBooked
  <2>4. pools[p] \in Pool /\ unburnt[p] \in Nat
    BY <1>2
  <2>5. /\ Held(d) \in Nat /\ UnderWay(d) \in Nat /\ Total(d) \in Nat /\ pools[p].shares \in Nat
        /\ ShareClaims(p) \in Int
    BY <2>4, HeldIs, UnderWayIs, TokenOf, PoolTypes, OwingsType
  <2>6. /\ WrittenOff(p) \in Nat
        /\ -ShareClaims(p) - UnderWay(d) <= WrittenOff(p) - unburnt[p]
    BY <1>1, <2>1
  <2> QED BY <2>1, <2>2, <2>3, <2>4, <2>5, <2>6
<1> QED BY <1>1, <1>2 DEF SharesAreBacked

(* No sequence of additions, removals, transfers and burns makes a share   *)
(* that the pool does not reckon with.                                     *)
THEOREM SharesAreAlwaysBacked == DexSpec => []SharesAreBacked
<1>1. DexInv => SharesAreBacked
  BY BackedShares
<1> QED BY <1>1, DexInvariant, PTL

-----------------------------------------------------------------------------
(* The action properties.                                                  *)

LEMMA OrderStepsDrawNothing ==
  ASSUME NEW c \in Call, OrderStep(c)
  PROVE  overdrawn' = overdrawn /\ restarts' = restarts /\ (~Placing(c, "open") => pools' = pools)
BY DEF OrderStep, TransferNext, AnnounceShares, IssueShares, OpenPool, MintShares, CreditShares,
       BurnShares, ReduceShares, Save, Abort, rest

LEMMA OnlyRemovalsOverdraw ==
  ASSUME [DexNext]_vars, overdrawn' # overdrawn
  PROVE  \E c \in Call, p \in Pair, u \in User, n \in Amount : RemoveLiquidity(c, p, u, n)
<1>1. ~UNCHANGED vars /\ ~FactoryStep /\ ~Restart
  BY DEF vars, dexVars, FactoryStep, Restart
<1>2. PICK c \in Call : NewOrder(c)
  BY <1>1, OrderStepsDrawNothing DEF DexNext
<1> QED BY <1>2 DEF NewOrder, CreatePair, AddLiquidity, AddLiquidityOverflows, AddLiquidityAborts,
                    SellA, SellB, RemoveLiquidityAborts, Abort

OverlapOnly ==
  \A p \in overdrawn' \ overdrawn : WrittenOff(p) > 0 \/ LpOf[p] \in contested

LEMMA OverlapOnlyHolds == DexInv /\ [DexNext]_vars => OverlapOnly
<1> SUFFICES ASSUME DexInv, [DexNext]_vars, NEW p \in overdrawn' \ overdrawn, LpOf[p] \notin contested
             PROVE  WrittenOff(p) > 0
  BY DEF OverlapOnly
<1> USE DexTypes
<1>1. PICK c \in Call, q \in Pair, u \in User, n \in Amount : RemoveLiquidity(c, q, u, n)
  BY OnlyRemovalsOverdraw
<1>2. /\ q = p /\ pools[p] # NoPool /\ n > pools[p].shares /\ balances[LpOf[p]][u] >= n
  BY <1>1 DEF RemoveLiquidity
<1>3. PICK d \in Denom : d = LpOf[p]
  BY <1>2, PairTypes
<1>4. Held(d) <= pools[p].shares + WrittenOff(p) /\ WrittenOff(p) \in Nat
  BY <1>2, <1>3, BackedShares DEF SharesAreBacked
<1>5. balances[d][u] <= Held(d) /\ balances[d][u] \in Nat /\ Held(d) \in Nat
  <2>1. u \in Address
    BY DEF User
  <2> QED BY <2>1, BalanceOf, HeldIs
<1>6. pools[p].shares \in Nat /\ n \in Nat
  <2>1. pools[p] \in Pool
    BY <1>2
  <2> QED BY <2>1, PoolTypes, AmountTypes
<1> QED BY <1>2, <1>3, <1>4, <1>5, <1>6

(* A removal takes more than a pool has only while another one has written *)
(* off shares that it has not burnt.                                       *)
THEOREM OnlyOverlapsOverdraw == DexSpec => OnlyOverlapOverdraws
<1>1. DexInv /\ [DexNext]_vars => [OverlapOnly]_vars
  BY OverlapOnlyHolds
<1>2. OverlapOnly <=> \A p \in overdrawn' \ overdrawn : WrittenOff(p) > 0 \/ LpOf[p] \in contested
  BY DEF OverlapOnly
<1>3. DexInv /\ [DexNext]_vars =>
        [\A p \in overdrawn' \ overdrawn : WrittenOff(p) > 0 \/ LpOf[p] \in contested]_vars
  BY <1>1, <1>2
<1> QED BY <1>3, DexInvariant, PTL DEF DexSpec, OnlyOverlapOverdraws

-----------------------------------------------------------------------------
(* Transfers, with the calls the exchange makes and the restart.           *)

LEMMA FactoryStepLossless == ASSUME FactoryInv, FactoryStep PROVE Lossless
<1>1. ASSUME NEW c \in Call, NEW d \in Denom, NEW n \in Supply, NEW max \in Limit,
             CreateToken(c, d, n, max)
      PROVE  Lossless
  BY <1>1, CreateTokenStep
<1>2. ASSUME NEW c \in Call, NEW d \in Denom, NEW x \in Address, NEW n \in Amount,
             MintTo(c, d, x, n) \/ Burn(c, d, x, n)
      PROVE  Lossless
  BY <1>2, MintToStep, BurnStep
<1>3. ASSUME NEW d \in Denom, NEW from \in Address, NEW to \in Address, NEW n \in Amount,
             Transfer(d, from, to, n)
      PROVE  Lossless
  BY <1>3, TransferStep
<1>4. ASSUME NEW c \in Call, Continue(c)
      PROVE  Lossless
  BY <1>4, ContinueStep
<1>5. User \subseteq Address
  BY DEF User
<1> QED BY <1>1, <1>2, <1>3, <1>4, <1>5 DEF FactoryStep

LEMMA PaymentLossless == ASSUME DexInv, NEW c \in Call, TransferNext(c) PROVE Lossless
<1> USE DexTypes
<1>1. /\ orders[c] \in Order /\ OrderOK(orders[c])
      /\ orders[c].at \in {"payA", "payB", "fee", "hand", "getA", "getB"}
  BY OrderAt DEF TransferNext
<1>2. PICK d, from, to, n : /\ d = Payment(orders[c]).denom /\ from = Payment(orders[c]).from
                            /\ to = Payment(orders[c]).to /\ n = Payment(orders[c]).amount
  OBVIOUS
<1>3. d \in Denom /\ from \in Address /\ to \in Address /\ n \in U128
  BY <1>1, <1>2, PaymentIs
<1>4. Move(d, from, to, n) /\ UNCHANGED <<tokens, calls, contested>>
  BY <1>2 DEF TransferNext
<1>5. d \notin contested => Held(d)' = Held(d)
  BY <1>3, <1>4, MoveStep
<1>6. \A e \in Denom \ {d} : Held(e)' = Held(e)
  BY <1>3, <1>4, MoveEffect
<1> QED BY <1>5, <1>6 DEF Lossless

(* The other steps leave the balances alone, or end a step of a call. *)
LEMMA OrderStepLossless == ASSUME DexInv, NEW c \in Call, OrderStep(c) PROVE Lossless
<1> USE DexTypes
<1>1. CASE UNCHANGED balances
  BY <1>1, Stays DEF Lossless
<1>2. CASE TransferNext(c)
  BY <1>2, PaymentLossless
<1>3. CASE Fund(c) \/ Credit(c)
  <2>1. calls' # calls
    BY <1>3, EndsCall DEF Fund, Credit, Doing
  <2> QED BY <2>1 DEF Lossless
<1>4. CASE BurnShares(c) /\ ~UNCHANGED balances
  <2>1. PICK d, x, n : Withdraw(c, d, x, n) /\ d = LpOf[orders[c].pair]
                       /\ x = orders[c].user /\ n = orders[c].lp
    BY <1>4 DEF BurnShares, stores
  <2>2. orders[c] \in Order /\ OrderOK(orders[c]) /\ calls[c] = Idle
    BY <1>4, OrderAt DEF BurnShares, Placing
  <2>3. d \in Denom /\ x \in Address /\ n \in U128
    BY <2>1, <2>2, OrderTypes, PairTypes
  <2>4. calls' # calls
    BY <2>1, <2>2, <2>3, GoesOn DEF Withdraw
  <2> QED BY <2>4 DEF Lossless
<1> QED BY <1>1, <1>2, <1>3, <1>4
        DEF OrderStep, AnnounceShares, Announce, Abort, IssueShares, Register, OpenPool,
            MintShares, Issue, CreditShares, BurnShares, ReduceShares, Reduce, Save, stores

LEMMA NewOrderLossless == ASSUME NEW c \in Call, NewOrder(c) PROVE Lossless
<1>1. UNCHANGED balances
  BY DEF NewOrder, CreatePair, AddLiquidity, AddLiquidityOverflows, AddLiquidityAborts, SellA,
         SellB, RemoveLiquidity, RemoveLiquidityAborts, Abort, stores
<1> QED BY <1>1, Stays DEF Lossless

(* A restart that leaves the tokens as they were found none. *)
LEMMA RestartLossless == ASSUME DexInv, Restart PROVE Lossless
<1> USE DexTypes
<1> SUFFICES ASSUME NEW d \in Denom \ contested, tokens' = tokens
             PROVE  Held(d)' = Held(d)
  BY DEF Lossless
<1>1. Held(d) = 0
  <2>1. Total(d) = 0
    BY DEF Restart, Total, Registered
  <2>2. Held(d) + UnderWay(d) <= Total(d)
    BY Covers DEF FactoryInv
  <2>3. Held(d) \in Nat /\ UnderWay(d) \in Nat
    <3>1. StoresOK /\ d \in Denom
      OBVIOUS
    <3> QED BY <3>1, HeldIs, UnderWayIs
  <2>4. ASSUME NEW h \in Nat, NEW u \in Nat, h + u <= 0 PROVE h = 0
    BY <2>4
  <2> QED BY <2>1, <2>2, <2>3, <2>4
<1>2. Held(d)' = 0
  <2>1. DOMAIN balances'[d] = Address /\ \A x \in Address : balances'[d][x] = 0
    BY DEF Restart
  <2>2. Held(d)' = SumFunction(balances'[d])
    BY DEF Held
  <2> QED BY <2>1, <2>2, AllZero
<1> QED BY <1>1, <1>2

LEMMA DexLossless == DexInv /\ [DexNext]_vars => Lossless
<1> SUFFICES ASSUME DexInv, [DexNext]_vars PROVE Lossless
  OBVIOUS
<1>1. CASE UNCHANGED vars
  BY <1>1, Stays DEF vars, factoryVars, Lossless
<1>2. CASE FactoryStep
  BY <1>2, DexTypes, FactoryStepLossless
<1>3. ASSUME NEW c \in Call, OrderStep(c) \/ NewOrder(c)
      PROVE  Lossless
  BY <1>3, OrderStepLossless, NewOrderLossless
<1>4. CASE Restart
  BY <1>4, RestartLossless
<1> QED BY <1>1, <1>2, <1>3, <1>4 DEF DexNext

(* A transfer never makes or loses tokens, whether a user or the exchange  *)
(* asks for it.                                                            *)
THEOREM ExchangeLosesNothing == DexSpec => TransfersLoseNothing
<1>1. DexInv /\ [DexNext]_vars => [Lossless]_factoryVars
  BY DexLossless
<1>2. Lossless <=> \A d \in Denom \ contested :
                     tokens' = tokens /\ calls' = calls => Held(d)' = Held(d)
  BY DEF Lossless
<1>3. DexInv /\ [DexNext]_vars =>
        [\A d \in Denom \ contested :
           tokens' = tokens /\ calls' = calls => Held(d)' = Held(d)]_factoryVars
  BY <1>1, <1>2
<1> QED BY <1>3, DexInvariant, PTL DEF DexSpec, TransfersLoseNothing

-----------------------------------------------------------------------------
(* A share of r is worth no more than one of m: the products of the        *)
(* reserves, each over the square of the shares.                           *)
NoWorse(r, m) == r.a * r.b * m.shares * m.shares <= m.a * m.b * r.shares * r.shares

LEMMA ProductsGrow ==
  ASSUME NEW e \in Nat, NEW f \in Nat, NEW g \in Nat, NEW h \in Nat, e <= g, f <= h
  PROVE  e * f \in Nat /\ g * h \in Nat /\ e * f <= g * h
<1>1. e * f \in Nat /\ g * f \in Nat /\ g * h \in Nat
  OBVIOUS
<1>2. e * f <= g * f
  OBVIOUS
<1>3. g * f <= g * h
  OBVIOUS
<1> QED BY <1>1, <1>2, <1>3

LEMMA Worth ==
  ASSUME NEW r \in Pool, NEW m \in Pool,
         \/ m.shares = r.shares /\ r.a * r.b <= m.a * m.b
         \/ r.a * m.shares <= m.a * r.shares /\ r.b * m.shares <= m.b * r.shares
  PROVE  NoWorse(r, m)
<1>1. PICK a \in Nat, b \in Nat, s \in Nat, x \in Nat, y \in Nat, t \in Nat :
        /\ a = r.a /\ b = r.b /\ s = r.shares
        /\ x = m.a /\ y = m.b /\ t = m.shares
  BY PoolTypes
<1>2. a * b * t * t = (a * b) * (t * t) /\ x * y * s * s = (x * y) * (s * s)
  OBVIOUS
<1>3. (a * b) * (t * t) = (a * t) * (b * t) /\ (x * y) * (s * s) = (x * s) * (y * s)
  OBVIOUS
<1>4. CASE t = s /\ a * b <= x * y
  <2>1. a * b \in Nat /\ x * y \in Nat /\ t * t \in Nat /\ t * t <= s * s /\ s * s \in Nat
    BY <1>4
  <2>2. (a * b) * (t * t) <= (x * y) * (s * s)
    BY <1>4, <2>1, ProductsGrow
  <2> QED BY <1>1, <1>2, <2>2 DEF NoWorse
<1>5. CASE a * t <= x * s /\ b * t <= y * s
  <2>1. a * t \in Nat /\ b * t \in Nat /\ x * s \in Nat /\ y * s \in Nat
    OBVIOUS
  <2>2. (a * t) * (b * t) <= (x * s) * (y * s)
    BY <1>5, <2>1, ProductsGrow
  <2> QED BY <1>1, <1>2, <1>3, <2>2 DEF NoWorse
<1> QED BY <1>1, <1>4, <1>5

-----------------------------------------------------------------------------
(* No swap, addition or removal lowers what a share is worth.              *)

SomeFeeWraps ==
  \E c \in Call : /\ orders[c] = NoOrder /\ orders'[c] # NoOrder
                  /\ orders'[c].kind \in {"sellA", "sellB"}
                  /\ FeeWraps(orders'[c])

LEMMA SellAKeepsWorth ==
  ASSUME DexInv, NEW c \in Call, NEW p \in Pair, NEW u \in User, NEW n \in Amount,
         SellA(c, p, u, n)
  PROVE  SomeFeeWraps \/ NoWorse(pools[p], pools'[p])
<1> USE DexTypes
<1>1. PICK r, g, net, out, m :
        /\ r = pools[p] /\ g = ProtocolFee(n) /\ net = n - g /\ out = AmountOut(r.a, r.b, n)
        /\ m = [a |-> r.a + net, b |-> r.b - out, shares |-> r.shares]
  OBVIOUS
<1>2. /\ n > 0 /\ r # NoPool /\ r \in Pool /\ MaySwap(r.a, r.b, n)
      /\ pools' = [pools EXCEPT ![p] = m]
  BY <1>1 DEF SellA
<1>3. Place(c, p, "sellA", "payA", u, net, out, 0, g)
  BY <1>1 DEF SellA
<1>4. n \in U128 /\ 0 \in U128 /\ n \in Nat
  BY AmountTypes
<1>5. /\ r.a \in U128 /\ r.b \in U128 /\ r.shares \in U128
      /\ r.a \in Nat /\ r.b \in Nat /\ r.shares \in Nat
  BY <1>2, PoolTypes
<1>6. /\ net \in U128 /\ out \in U128 /\ g \in U128 /\ net \in Nat /\ out \in Nat
      /\ r.a + net \in U128 /\ r.b - out \in U128
      /\ n * FeeRate < Word => r.a * r.b <= (r.a + net) * (r.b - out)
  BY <1>1, <1>2, <1>4, <1>5, SwapAmounts
<1>7. PICK s \in Order : IsPlaced(s, c, p, "sellA", net, out, 0, g)
  <2>1. Begins("sellA") = "payA"
    BY DEF Begins
  <2>2. Place(c, p, "sellA", Begins("sellA"), u, net, out, 0, g)
    BY <1>3, <2>1
  <2> QED BY <1>4, <1>6, <2>2, Placed
<1>8. /\ orders[c] = NoOrder /\ orders'[c] = s /\ s # NoOrder /\ s.kind = "sellA"
      /\ s.fee = g /\ s.a = net
  BY <1>7 DEF IsPlaced, SetsOrder
<1>9. CASE n * FeeRate >= Word
  <2>1. g + net = n
    <3>1. g \in Nat
      BY <1>4, Fees, <1>1, <1>2
    <3> QED BY <1>1, <1>4, <3>1
  <2>2. FeeWraps(s)
    BY <1>8, <1>9, <2>1 DEF FeeWraps
  <2> QED BY <1>8, <2>2 DEF SomeFeeWraps
<1>10. CASE n * FeeRate < Word
  <2>1. m \in Pool /\ m.a = r.a + net /\ m.b = r.b - out /\ m.shares = r.shares
    BY <1>1, <1>5, <1>6 DEF Pool
  <2>2. r.a * r.b <= m.a * m.b
    <3>1. PICK v, w : v = r.a + net /\ w = r.b - out /\ v \in Nat /\ w \in Nat
      BY <1>6 DEF U128
    <3>2. r.a * r.b <= v * w
      BY <1>6, <1>10, <3>1
    <3> QED BY <2>1, <3>1, <3>2
  <2>3. NoWorse(r, m)
    BY <1>2, <2>1, <2>2, Worth
  <2> QED BY <1>1, <1>2, <2>3
<1>11. n * FeeRate \in Nat
  BY <1>4, DexConstants
<1>12. n * FeeRate >= Word \/ n * FeeRate < Word
  BY <1>11, FactoryConstants
<1> QED BY <1>9, <1>10, <1>12

LEMMA SellBKeepsWorth ==
  ASSUME DexInv, NEW c \in Call, NEW p \in Pair, NEW u \in User, NEW n \in Amount,
         SellB(c, p, u, n)
  PROVE  SomeFeeWraps \/ NoWorse(pools[p], pools'[p])
<1> USE DexTypes
<1>1. PICK r, g, net, out, m :
        /\ r = pools[p] /\ g = ProtocolFee(n) /\ net = n - g /\ out = AmountOut(r.b, r.a, n)
        /\ m = [a |-> r.a - out, b |-> r.b + net, shares |-> r.shares]
  OBVIOUS
<1>2. /\ n > 0 /\ r # NoPool /\ r \in Pool /\ MaySwap(r.b, r.a, n)
      /\ pools' = [pools EXCEPT ![p] = m]
  BY <1>1 DEF SellB
<1>3. Place(c, p, "sellB", "payB", u, out, net, 0, g)
  BY <1>1 DEF SellB
<1>4. n \in U128 /\ 0 \in U128 /\ n \in Nat
  BY AmountTypes
<1>5. /\ r.a \in U128 /\ r.b \in U128 /\ r.shares \in U128
      /\ r.a \in Nat /\ r.b \in Nat /\ r.shares \in Nat
  BY <1>2, PoolTypes
<1>6. /\ net \in U128 /\ out \in U128 /\ g \in U128 /\ net \in Nat /\ out \in Nat
      /\ r.a - out \in U128 /\ r.b + net \in U128
      /\ n * FeeRate < Word => r.b * r.a <= (r.b + net) * (r.a - out)
  BY <1>1, <1>2, <1>4, <1>5, SwapAmounts
<1>7. PICK s \in Order : IsPlaced(s, c, p, "sellB", out, net, 0, g)
  <2>1. Begins("sellB") = "payB"
    BY DEF Begins
  <2>2. Place(c, p, "sellB", Begins("sellB"), u, out, net, 0, g)
    BY <1>3, <2>1
  <2> QED BY <1>4, <1>6, <2>2, Placed
<1>8. /\ orders[c] = NoOrder /\ orders'[c] = s /\ s # NoOrder /\ s.kind = "sellB"
      /\ s.fee = g /\ s.b = net
  BY <1>7 DEF IsPlaced, SetsOrder
<1>9. CASE n * FeeRate >= Word
  <2>1. g + net = n
    <3>1. g \in Nat
      BY <1>4, Fees, <1>1, <1>2
    <3> QED BY <1>1, <1>4, <3>1
  <2>2. FeeWraps(s)
    BY <1>8, <1>9, <2>1 DEF FeeWraps
  <2> QED BY <1>8, <2>2 DEF SomeFeeWraps
<1>10. CASE n * FeeRate < Word
  <2>1. m \in Pool /\ m.a = r.a - out /\ m.b = r.b + net /\ m.shares = r.shares
    BY <1>1, <1>5, <1>6 DEF Pool
  <2>2. r.a * r.b <= m.a * m.b
    <3>1. PICK v, w : v = r.b + net /\ w = r.a - out /\ v \in Nat /\ w \in Nat
      BY <1>6 DEF U128
    <3>2. r.b * r.a <= v * w
      BY <1>6, <1>10, <3>1
    <3> QED BY <1>5, <2>1, <3>1, <3>2
  <2>3. NoWorse(r, m)
    BY <1>2, <2>1, <2>2, Worth
  <2> QED BY <1>1, <1>2, <2>3
<1>11. n * FeeRate \in Nat
  BY <1>4, DexConstants
<1>12. n * FeeRate >= Word \/ n * FeeRate < Word
  BY <1>11, FactoryConstants
<1> QED BY <1>9, <1>10, <1>12

(* The shares for what is added are no more than its part of either reserve. *)
LEMMA AddedShares ==
  ASSUME NEW r \in Pool, Divisible(r), NEW a \in U128, NEW b \in U128,
         NEW lp, lp = SharesFor(r, a, b)
  PROVE  lp \in U128 /\ lp \in Nat /\ r.a * lp <= a * r.shares /\ r.b * lp <= b * r.shares
<1>1. /\ r.a \in U128 /\ r.b \in U128 /\ r.shares \in U128
      /\ r.a \in Nat /\ r.b \in Nat /\ r.shares \in Nat /\ r.a > 0 /\ r.b > 0
  BY PoolTypes DEF Divisible
<1>2. PICK v, w : v = Scaled(a, r.shares, r.a) /\ w = Scaled(b, r.shares, r.b)
  OBVIOUS
<1>3. /\ v \in U128 /\ v \in Nat /\ r.a * v <= a * r.shares
      /\ w \in U128 /\ w \in Nat /\ r.b * w <= b * r.shares
  BY <1>1, <1>2, Share
<1>4. lp = IF v <= w THEN v ELSE w
  BY <1>2 DEF SharesFor
<1>5. lp \in U128 /\ lp \in Nat /\ lp <= v /\ lp <= w
  BY <1>3, <1>4
<1>6. a \in Nat /\ b \in Nat
  BY DEF U128
<1>7. r.a * lp <= r.a * v /\ r.b * lp <= r.b * w
  <2>1. \A k, i, j \in Nat : i <= j => k * i <= k * j
    OBVIOUS
  <2> QED BY <1>1, <1>3, <1>5, <2>1
<1>8. /\ r.a * lp \in Nat /\ r.a * v \in Nat /\ a * r.shares \in Nat
      /\ r.b * lp \in Nat /\ r.b * w \in Nat /\ b * r.shares \in Nat
  <2>1. \A i, j \in Nat : i * j \in Nat
    OBVIOUS
  <2> QED BY <1>1, <1>3, <1>5, <1>6, <2>1
<1> QED BY <1>3, <1>5, <1>7, <1>8

LEMMA AddLiquidityKeepsWorth ==
  ASSUME DexInv, NEW c \in Call, NEW p \in Pair, NEW u \in User, NEW a \in Amount, NEW b \in Amount,
         AddLiquidity(c, p, u, a, b)
  PROVE  NoWorse(pools[p], pools'[p])
<1> USE DexTypes
<1>1. PICK r, o, lp, m :
        /\ r = pools[p] /\ o = Offer(r, a, b) /\ lp = SharesFor(r, o.a, o.b)
        /\ m = [a |-> r.a + o.a, b |-> r.b + o.b, shares |-> r.shares + lp]
  OBVIOUS
<1>2. /\ r # NoPool /\ r \in Pool /\ Divisible(r)
      /\ r.a + o.a < Word /\ r.b + o.b < Word /\ r.shares + lp < Word
      /\ pools' = [pools EXCEPT ![p] = m]
  BY <1>1 DEF AddLiquidity
<1>3. a \in U128 /\ b \in U128
  BY AmountTypes
<1>4. o.a \in U128 /\ o.b \in U128 /\ o.a \in Nat /\ o.b \in Nat
  BY <1>1, <1>2, <1>3, OfferTypes
<1>5. lp \in U128 /\ lp \in Nat /\ r.a * lp <= o.a * r.shares /\ r.b * lp <= o.b * r.shares
  BY <1>1, <1>2, <1>4, AddedShares
<1>6. PICK x \in Nat, y \in Nat, s \in Nat, v \in Nat, w \in Nat, l \in Nat :
        /\ x = r.a /\ y = r.b /\ s = r.shares /\ v = o.a /\ w = o.b /\ l = lp
        /\ x * l <= v * s /\ y * l <= w * s
  BY <1>2, <1>4, <1>5, PoolTypes
<1>7. m \in Pool /\ m.a = x + v /\ m.b = y + w /\ m.shares = s + l
  BY <1>1, <1>2, <1>6 DEF Pool, U128
<1>8. x * (s + l) <= (x + v) * s
  <2>1. x * (s + l) = x * s + x * l /\ (x + v) * s = x * s + v * s
    OBVIOUS
  <2>2. x * s \in Nat /\ x * l \in Nat /\ v * s \in Nat
    OBVIOUS
  <2> QED BY <1>6, <2>1, <2>2
<1>9. y * (s + l) <= (y + w) * s
  <2>1. y * (s + l) = y * s + y * l /\ (y + w) * s = y * s + w * s
    OBVIOUS
  <2>2. y * s \in Nat /\ y * l \in Nat /\ w * s \in Nat
    OBVIOUS
  <2> QED BY <1>6, <2>1, <2>2
<1>10. NoWorse(r, m)
  <2>1. r.a * m.shares <= m.a * r.shares /\ r.b * m.shares <= m.b * r.shares
    BY <1>6, <1>7, <1>8, <1>9
  <2> QED BY <1>2, <1>7, <2>1, Worth
<1> QED BY <1>1, <1>2, <1>10

LEMMA AddLiquidityOverflowsKeepsWorth ==
  ASSUME DexInv, NEW c \in Call, NEW p \in Pair, NEW a \in Amount, NEW b \in Amount,
         AddLiquidityOverflows(c, p, a, b)
  PROVE  NoWorse(pools[p], pools'[p])
<1> USE DexTypes
<1>1. PICK r, o, lp, moreB, m :
        /\ r = pools[p] /\ o = Offer(r, a, b) /\ lp = SharesFor(r, o.a, o.b)
        /\ moreB = (IF r.b + o.b < Word THEN o.b ELSE 0)
        /\ m = [a |-> r.a + o.a, b |-> r.b + moreB, shares |-> r.shares]
  OBVIOUS
<1>2. /\ r # NoPool /\ r \in Pool /\ Divisible(r) /\ r.a + o.a < Word
      /\ pools' = [pools EXCEPT ![p] = m]
  BY <1>1 DEF AddLiquidityOverflows
<1>3. a \in U128 /\ b \in U128
  BY AmountTypes
<1>4. o.a \in Nat /\ o.b \in Nat
  BY <1>1, <1>2, <1>3, OfferTypes
<1>5. r.a \in Nat /\ r.b \in Nat /\ r.shares \in U128 /\ r.b < Word
  BY <1>2, PoolTypes DEF U128
<1>6. moreB \in Nat /\ r.b + moreB < Word
  BY <1>1, <1>4, <1>5
<1>7. m \in Pool /\ m.a = r.a + o.a /\ m.b = r.b + moreB /\ m.shares = r.shares
  <2>1. r.a + o.a \in U128 /\ r.b + moreB \in U128
    BY <1>2, <1>4, <1>5, <1>6 DEF U128
  <2> QED BY <1>1, <1>5, <2>1 DEF Pool
<1>8. NoWorse(r, m)
  <2>1. PICK x \in Nat, y \in Nat, v \in Nat, w \in Nat :
          x = r.a /\ y = r.b /\ v = m.a /\ w = m.b /\ x <= v /\ y <= w
    BY <1>4, <1>5, <1>6, <1>7
  <2>2. r.a * r.b <= m.a * m.b
    BY <2>1, ProductsGrow
  <2> QED BY <1>2, <1>7, <2>2, Worth
<1> QED BY <1>1, <1>2, <1>8

LEMMA RemoveLiquidityKeepsWorth ==
  ASSUME DexInv, NEW c \in Call, NEW p \in Pair, NEW u \in User, NEW n \in Amount,
         RemoveLiquidity(c, p, u, n), p \notin overdrawn'
  PROVE  NoWorse(pools[p], pools'[p])
<1> USE DexTypes
<1>1. PICK r, a, b, m :
        /\ r = pools[p] /\ a = Scaled(r.a, n, r.shares) /\ b = Scaled(r.b, n, r.shares)
        /\ m = [a |-> (r.a - a) % Word, b |-> (r.b - b) % Word, shares |-> (r.shares - n) % Word]
  OBVIOUS
<1>2. /\ r # NoPool /\ r \in Pool /\ r.shares > 0 /\ n <= r.shares
      /\ pools' = [pools EXCEPT ![p] = m]
  <2>1. /\ r # NoPool /\ r.shares > 0 /\ pools' = [pools EXCEPT ![p] = m]
        /\ overdrawn' = overdrawn \cup (IF n > r.shares THEN {p} ELSE {})
    BY <1>1 DEF RemoveLiquidity
  <2>2. r \in Pool
    BY <1>1, <2>1
  <2>3. ~(n > r.shares)
    BY <2>1
  <2>4. n \in Nat /\ r.shares \in Nat
    BY <2>2, PoolTypes, AmountTypes
  <2> QED BY <2>1, <2>2, <2>3, <2>4
<1>3. n \in U128 /\ n \in Nat
  BY AmountTypes
<1>4. /\ r.a \in U128 /\ r.b \in U128 /\ r.shares \in U128
      /\ r.a \in Nat /\ r.b \in Nat /\ r.shares \in Nat
  BY <1>2, PoolTypes
<1>5. /\ a \in Nat /\ r.shares * a <= r.a * n /\ a <= r.a
      /\ b \in Nat /\ r.shares * b <= r.b * n /\ b <= r.b
  BY <1>1, <1>2, <1>3, <1>4, Share
<1>6. PICK x \in Nat, y \in Nat, s \in Nat, l \in Nat, i \in Nat, j \in Nat :
        /\ x = r.a /\ y = r.b /\ s = r.shares /\ l = n /\ i = a /\ j = b
        /\ s * i <= x * l /\ s * j <= y * l /\ l <= s /\ i <= x /\ j <= y
        /\ x < Word /\ y < Word /\ s < Word
  BY <1>2, <1>3, <1>4, <1>5 DEF U128
<1>7. /\ (x - i) % Word = x - i /\ (y - j) % Word = y - j /\ (s - l) % Word = s - l
      /\ x - i \in U128 /\ y - j \in U128 /\ s - l \in U128
  <2>1. x - i \in U128 /\ y - j \in U128 /\ s - l \in U128
    BY <1>6 DEF U128
  <2> QED BY <2>1, SmallRemainder
<1>8. m \in Pool /\ m.a = x - i /\ m.b = y - j /\ m.shares = s - l
  BY <1>1, <1>6, <1>7 DEF Pool
<1>9. x * (s - l) <= (x - i) * s
  <2>1. x * (s - l) = x * s - x * l /\ (x - i) * s = x * s - s * i
    OBVIOUS
  <2>2. x * s \in Nat /\ x * l \in Nat /\ s * i \in Nat
    OBVIOUS
  <2> QED BY <1>6, <2>1, <2>2
<1>10. y * (s - l) <= (y - j) * s
  <2>1. y * (s - l) = y * s - y * l /\ (y - j) * s = y * s - s * j
    OBVIOUS
  <2>2. y * s \in Nat /\ y * l \in Nat /\ s * j \in Nat
    OBVIOUS
  <2> QED BY <1>6, <2>1, <2>2
<1>11. NoWorse(r, m)
  <2>1. r.a * m.shares <= m.a * r.shares /\ r.b * m.shares <= m.b * r.shares
    BY <1>6, <1>8, <1>9, <1>10
  <2> QED BY <1>2, <1>8, <2>1, Worth
<1> QED BY <1>1, <1>2, <1>11

(* The pools a step leaves as they are. *)
LEMMA SameIsNoWorse == ASSUME NEW r \in Pool PROVE NoWorse(r, r)
<1>1. PICK a \in Nat, b \in Nat : a = r.a /\ b = r.b
  BY PoolTypes
<1>2. r.a * r.b <= r.a * r.b
  <2>1. a * b \in Nat
    OBVIOUS
  <2> QED BY <1>1, <2>1
<1> QED BY <1>2, Worth

Opens(p) == \E c \in Call : Placing(c, "open") /\ orders[c].pair = p

WorthKept ==
  \A p \in Pair \ overdrawn' :
    pools[p] # NoPool /\ pools'[p] # NoPool /\ restarts' = restarts /\ ~SomeFeeWraps /\ ~Opens(p)
      => NoWorse(pools[p], pools'[p])

LEMMA OrderStepsKeepWorth ==
  ASSUME DexInv, NEW c \in Call, OrderStep(c), NEW p \in Pair, ~Opens(p)
  PROVE  pools'[p] = pools[p]
<1> USE DexTypes
<1>1. CASE ~Placing(c, "open")
  BY <1>1, OrderStepsDrawNothing
<1>2. CASE Placing(c, "open")
  <2>1. OpenPool(c)
    BY <1>2 DEF OrderStep, TransferNext, AnnounceShares, IssueShares, MintShares, CreditShares,
                BurnShares, ReduceShares, Save, Placing
  <2>2. PICK q, m : q = orders[c].pair /\ m = [a |-> orders[c].a, b |-> orders[c].b, shares |-> orders[c].lp]
    OBVIOUS
  <2>3. pools' = [pools EXCEPT ![q] = m]
    BY <2>1, <2>2 DEF OpenPool
  <2>4. q # p
    BY <1>2, <2>2 DEF Opens
  <2> QED BY <2>3, <2>4
<1> QED BY <1>1, <1>2

LEMMA NewOrdersKeepWorth ==
  ASSUME DexInv, NEW c \in Call, NewOrder(c), NEW p \in Pair \ overdrawn', pools[p] # NoPool
  PROVE  SomeFeeWraps \/ NoWorse(pools[p], pools'[p])
<1> USE DexTypes
<1>1. pools[p] \in Pool
  OBVIOUS
<1>2. ASSUME pools'[p] = pools[p] PROVE NoWorse(pools[p], pools'[p])
  BY <1>1, <1>2, SameIsNoWorse
<1>3. PICK q \in Pair, u \in User :
        \/ \E a, b \in Amount :
             \/ CreatePair(c, q, u, a, b)
             \/ AddLiquidity(c, q, u, a, b)
             \/ AddLiquidityOverflows(c, q, a, b)
        \/ \E n \in Amount :
             \/ SellA(c, q, u, n) \/ SellB(c, q, u, n)
             \/ RemoveLiquidity(c, q, u, n)
             \/ RemoveLiquidityAborts(q, u, n)
        \/ AddLiquidityAborts(q)
  BY DEF NewOrder
<1>4. CASE q # p
  <2>1. pools' = pools \/ \E m : pools' = [pools EXCEPT ![q] = m]
    BY <1>3 DEF CreatePair, AddLiquidity, AddLiquidityOverflows, SellA, SellB, RemoveLiquidity,
                RemoveLiquidityAborts, AddLiquidityAborts, Abort
  <2>2. pools'[p] = pools[p]
    BY <1>4, <2>1
  <2> QED BY <1>2, <2>2
<1>5. CASE q = p
  <2>1. ASSUME NEW a \in Amount, NEW b \in Amount, CreatePair(c, q, u, a, b)
        PROVE  NoWorse(pools[p], pools'[p])
    BY <1>2, <2>1 DEF CreatePair
  <2>2. ASSUME NEW a \in Amount, NEW b \in Amount, AddLiquidity(c, q, u, a, b)
        PROVE  NoWorse(pools[p], pools'[p])
    BY <1>5, <2>2, AddLiquidityKeepsWorth
  <2>3. ASSUME NEW a \in Amount, NEW b \in Amount, AddLiquidityOverflows(c, q, a, b)
        PROVE  NoWorse(pools[p], pools'[p])
    BY <1>5, <2>3, AddLiquidityOverflowsKeepsWorth
  <2>4. ASSUME NEW n \in Amount, SellA(c, q, u, n)
        PROVE  SomeFeeWraps \/ NoWorse(pools[p], pools'[p])
    BY <1>5, <2>4, SellAKeepsWorth
  <2>5. ASSUME NEW n \in Amount, SellB(c, q, u, n)
        PROVE  SomeFeeWraps \/ NoWorse(pools[p], pools'[p])
    BY <1>5, <2>5, SellBKeepsWorth
  <2>6. ASSUME NEW n \in Amount, RemoveLiquidity(c, q, u, n)
        PROVE  NoWorse(pools[p], pools'[p])
    BY <1>5, <2>6, RemoveLiquidityKeepsWorth
  <2>7. ASSUME NEW n \in Amount, RemoveLiquidityAborts(q, u, n)
        PROVE  NoWorse(pools[p], pools'[p])
    BY <1>2, <2>7 DEF RemoveLiquidityAborts, Abort
  <2>8. ASSUME AddLiquidityAborts(q)
        PROVE  NoWorse(pools[p], pools'[p])
    BY <1>2, <2>8 DEF AddLiquidityAborts, Abort
  <2> QED BY <1>3, <2>1, <2>2, <2>3, <2>4, <2>5, <2>6, <2>7, <2>8
<1> QED BY <1>4, <1>5

LEMMA StepsKeepWorth == DexInv /\ [DexNext]_vars => WorthKept
<1> SUFFICES ASSUME DexInv, [DexNext]_vars, NEW p \in Pair \ overdrawn', pools[p] # NoPool,
                    restarts' = restarts, ~SomeFeeWraps, ~Opens(p)
             PROVE  NoWorse(pools[p], pools'[p])
  BY DEF WorthKept
<1> USE DexTypes
<1>1. pools[p] \in Pool
  OBVIOUS
<1>2. ASSUME pools'[p] = pools[p] PROVE NoWorse(pools[p], pools'[p])
  BY <1>1, <1>2, SameIsNoWorse
<1>3. CASE UNCHANGED vars
  BY <1>2, <1>3 DEF vars, dexVars
<1>4. CASE FactoryStep
  BY <1>2, <1>4 DEF FactoryStep, dexVars
<1>5. CASE Restart
  <2>1. restarts' = restarts + 1 /\ restarts \in Nat
    BY <1>5 DEF Restart
  <2> QED BY <2>1
<1>6. ASSUME NEW c \in Call, OrderStep(c) PROVE NoWorse(pools[p], pools'[p])
  BY <1>2, <1>6, OrderStepsKeepWorth
<1>7. ASSUME NEW c \in Call, NewOrder(c) PROVE NoWorse(pools[p], pools'[p])
  BY <1>7, NewOrdersKeepWorth
<1> QED BY <1>3, <1>4, <1>5, <1>6, <1>7 DEF DexNext

(* No swap, addition or removal lowers what a share is worth, whatever is  *)
(* rounded or wraps in it, the fee of a swap excepted.                     *)
THEOREM SharesAlwaysKeepTheirWorth == DexSpec => SharesKeepTheirWorth
<1>1. DexInv /\ [DexNext]_vars => [WorthKept]_vars
  BY StepsKeepWorth
<1>2. WorthKept <=>
        \A p \in Pair \ overdrawn' :
          LET r == pools[p]
              s == pools'[p]
              wraps == \E c \in Call : /\ orders[c] = NoOrder /\ orders'[c] # NoOrder
                                       /\ orders'[c].kind \in {"sellA", "sellB"}
                                       /\ FeeWraps(orders'[c])
              opens == \E c \in Call : Placing(c, "open") /\ orders[c].pair = p
          IN  r # NoPool /\ s # NoPool /\ restarts' = restarts /\ ~wraps /\ ~opens
              => r.a * r.b * s.shares * s.shares <= s.a * s.b * r.shares * r.shares
  BY DEF WorthKept, SomeFeeWraps, Opens, NoWorse
<1>3. DexInv /\ [DexNext]_vars =>
        [\A p \in Pair \ overdrawn' :
          LET r == pools[p]
              s == pools'[p]
              wraps == \E c \in Call : /\ orders[c] = NoOrder /\ orders'[c] # NoOrder
                                       /\ orders'[c].kind \in {"sellA", "sellB"}
                                       /\ FeeWraps(orders'[c])
              opens == \E c \in Call : Placing(c, "open") /\ orders[c].pair = p
          IN  r # NoPool /\ s # NoPool /\ restarts' = restarts /\ ~wraps /\ ~opens
              => r.a * r.b * s.shares * s.shares <= s.a * s.b * r.shares * r.shares]_vars
  BY <1>1, <1>2
<1> QED BY <1>3, DexInvariant, PTL DEF DexSpec, SharesKeepTheirWorth
=============================================================================
