------------------------ MODULE WalletRequestsProofs ------------------------
(***************************************************************************)
(* Proofs about WalletForms and WalletRequests for every account, every    *)
(* set of typed amounts, every number of confirmations and of attempts.    *)
(***************************************************************************)
EXTENDS WalletRequests, FiniteSums, TLAPS

(* Division, with quotient and remainder named: the product of two terms *)
(* is out of the provers' reach unless they are.                         *)
LEMMA DivMod ==
  ASSUME NEW x \in Nat, NEW u \in Nat, u > 0
  PROVE  \E q \in Nat, r \in 0 .. u - 1 :
           q = x \div u /\ r = x % u /\ u * q + r = x
<1>1. x \div u \in Int /\ x \div u >= 0 /\ x % u \in 0 .. u - 1
  BY SMT
<1>2. PICK q \in Nat : q = x \div u
  BY <1>1
<1>3. PICK r \in 0 .. u - 1 : r = x % u
  BY <1>1
<1>4. u * q + r = x
  BY <1>2, <1>3, SMT
<1> QED BY <1>2, <1>3, <1>4
LEMMA DivLess ==
  ASSUME NEW n \in Nat, NEW g \in Nat, g >= 2, n >= g
  PROVE  n \div g \in Nat /\ n \div g < n
<1>1. PICK q \in Nat, r \in 0 .. g - 1 : q = n \div g /\ g * q + r = n
  BY DivMod
<1>2. g * q >= 2 * q
  OBVIOUS
<1>3. q < n
  BY <1>1, <1>2
<1> QED BY <1>1, <1>3

LEMMA TextOfAmount ==
  ASSUME NEW x \in Nat
  PROVE  /\ Plain(x).int \in Nat /\ Plain(x).frac \in 0 .. Unit - 1 /\ ~Plain(x).commas
         /\ BaseUnits(Plain(x)) = x
         /\ FormatSLTN(x).int = Plain(x).int /\ FormatSLTN(x).frac = Plain(x).frac
         /\ FormatSLTN(x).commas = (Plain(x).int >= Group)
         /\ BaseUnits(FormatSLTN(x)) = x
<1>1. PICK q \in Nat, r \in 0 .. Unit - 1 :
        q = x \div Unit /\ r = x % Unit /\ Unit * q + r = x
  BY DivMod, WalletFormsConstants DEF WalletFormsConstants
<1>2. Plain(x) = [int |-> q, frac |-> r, commas |-> FALSE]
  BY <1>1 DEF Plain
<1>3. FormatSLTN(x) = [int |-> q, frac |-> r, commas |-> q >= Group]
  BY <1>1 DEF FormatSLTN
<1>4. q * Unit + r = x
  BY <1>1, WalletFormsConstants DEF WalletFormsConstants
<1> QED BY <1>2, <1>3, <1>4 DEF BaseUnits

---------------------------------------------------------------------------
(* h takes the digits before the first comma of the numbers in A. *)
Firsts(h, A) == h = [n \in A |-> IF n < Group THEN n ELSE h[n \div Group]]

LEMMA GroupShortens ==
  ASSUME NEW n \in Nat, ~(n < Group)
  PROVE  n \div Group \in Nat /\ n \div Group < n
  BY DivLess, WalletFormsConstants DEF WalletFormsConstants

LEMMA FirstsAgree ==
  ASSUME NEW A, NEW B, NEW g, NEW h, Firsts(g, A), Firsts(h, B),
         \A n \in A \cup B : n \in Nat,
         \A n \in A : \A m \in 0 .. n : m \in A,
         \A n \in B : \A m \in 0 .. n : m \in B
  PROVE  \A n \in A \cap B : g[n] = h[n]
<1> DEFINE P == {n \in Nat : n \in A \cap B => g[n] = h[n]}
<1>1. ASSUME NEW n \in Nat, \A m \in 0 .. n - 1 : m \in P
      PROVE  n \in P
  <2> SUFFICES ASSUME n \in A \cap B PROVE g[n] = h[n]
    OBVIOUS
  <2>1. CASE n < Group
    BY <2>1 DEF Firsts
  <2>2. CASE ~(n < Group)
    <3>1. PICK m \in Nat : m = n \div Group /\ m < n
      BY <2>2, GroupShortens
    <3>2. m \in 0 .. n - 1 /\ m \in 0 .. n
      BY <3>1
    <3>3. m \in A \cap B
      BY <3>2
    <3>4. g[m] = h[m]
      BY <1>1, <3>2, <3>3
    <3>5. g[n] = g[m] /\ h[n] = h[m]
      BY <2>2, <3>1 DEF Firsts
    <3> QED BY <3>4, <3>5
  <2> QED BY <2>1, <2>2
<1> HIDE DEF P
<1>2. \A n \in Nat : n \in P
  BY <1>1, StrongInduction
<1> QED BY <1>2 DEF P

LEMMA FirstsExtend ==
  ASSUME NEW A, \A n \in A : n \in Nat, \A n \in A : \A m \in 0 .. n : m \in A,
         \A n \in A : \A m \in 0 .. n - 1 : \E h : Firsts(h, 0 .. m)
  PROVE  \E h : Firsts(h, A)
<1> DEFINE H(m) == CHOOSE h : Firsts(h, 0 .. m)
           h == [n \in A |-> IF n < Group THEN n ELSE H(n \div Group)[n \div Group]]
<1>1. \A n \in A : \A m \in 0 .. n - 1 : Firsts(H(m), 0 .. m)
  OBVIOUS
<1> HIDE DEF H
<1>2. ASSUME NEW n \in A, ~(n < Group)
      PROVE  h[n \div Group] = H(n \div Group)[n \div Group]
  <2>1. PICK u \in Nat : u = n \div Group /\ u < n
    BY <1>2, GroupShortens
  <2>2. u \in 0 .. n - 1 /\ u \in A /\ Firsts(H(u), 0 .. u)
    BY <1>1, <2>1
  <2>3. CASE u < Group
    BY <2>1, <2>2, <2>3 DEF Firsts
  <2>4. CASE ~(u < Group)
    <3>1. PICK v \in Nat : v = u \div Group /\ v < u
      BY <2>1, <2>4, GroupShortens
    <3>2. v \in 0 .. n - 1 /\ Firsts(H(v), 0 .. v) /\ v \in 0 .. v /\ v \in 0 .. u
      BY <1>1, <2>1, <3>1
    <3>3. H(v)[v] = H(u)[v]
      BY <2>2, <3>2, FirstsAgree
    <3>4. H(u)[u] = H(u)[v]
      BY <2>2, <2>4, <3>1 DEF Firsts
    <3>5. h[u] = H(v)[v]
      BY <2>2, <2>4, <3>1
    <3> QED BY <2>1, <3>3, <3>4, <3>5
  <2> QED BY <2>3, <2>4
<1>3. Firsts(h, A)
  BY <1>2 DEF Firsts
<1> QED BY <1>3

LEMMA LeadingIs == Firsts(Leading, Nat)
<1> DEFINE P == {N \in Nat : \E h : Firsts(h, 0 .. N)}
<1>1. ASSUME NEW N \in Nat, \A m \in 0 .. N - 1 : m \in P
      PROVE  N \in P
  <2> DEFINE A == 0 .. N
  <2>1. \A n \in A : \A m \in 0 .. n - 1 : \E h : Firsts(h, 0 .. m)
    BY <1>1
  <2>2. \A n \in A : n \in Nat /\ \A m \in 0 .. n : m \in A
    OBVIOUS
  <2>3. \E h : Firsts(h, A)
    <3> HIDE DEF A
    <3> QED BY <2>1, <2>2, FirstsExtend
  <2> QED BY <2>3
<1>2. \A N \in Nat : N \in P
  <2> HIDE DEF P
  <2> QED BY <1>1, StrongInduction
<1>3. \A n \in Nat : \A m \in 0 .. n - 1 : \E h : Firsts(h, 0 .. m)
  BY <1>2
<1>4. \E h : Firsts(h, Nat)
  <2> DEFINE A == Nat
  <2>1. \A n \in A : n \in Nat /\ \A m \in 0 .. n : m \in A
    OBVIOUS
  <2>2. \A n \in A : \A m \in 0 .. n - 1 : \E h : Firsts(h, 0 .. m)
    BY <1>3
  <2>3. \E h : Firsts(h, A)
    <3> HIDE DEF A
    <3> QED BY <2>1, <2>2, FirstsExtend
  <2> QED BY <2>3
<1>5. Leading = CHOOSE h : Firsts(h, Nat)
  BY DEF Leading, Firsts
<1> QED BY <1>4, <1>5

(* The digits before the first comma are those of a smaller number, which  *)
(* has no comma.                                                           *)
LEMMA LeadingBound ==
  \A n \in Nat : Leading[n] \in Nat /\ Leading[n] <= n /\ Leading[n] < Group
<1> DEFINE P == {n \in Nat : Leading[n] \in Nat /\ Leading[n] <= n /\ Leading[n] < Group}
<1>1. ASSUME NEW n \in Nat, \A m \in 0 .. n - 1 : m \in P
      PROVE  n \in P
  <2>1. CASE n < Group
    BY <2>1, LeadingIs DEF Firsts
  <2>2. CASE ~(n < Group)
    <3>1. PICK m \in Nat : m = n \div Group /\ m < n
      BY <2>2, GroupShortens
    <3>2. m \in P
      BY <1>1, <3>1
    <3>3. Leading[n] = Leading[m]
      BY <2>2, <3>1, LeadingIs DEF Firsts
    <3> QED BY <3>1, <3>2, <3>3
  <2> QED BY <2>1, <2>2
<1> HIDE DEF P
<1>2. \A n \in Nat : n \in P
  BY <1>1, StrongInduction
<1> QED BY <1>2 DEF P

(* parseFloat reads a shown amount as no more than it is, and as less than *)
(* the least amount with a comma.                                          *)
LEMMA ShownAmount ==
  ASSUME NEW x \in Nat
  PROVE  /\ ParseFloat(FormatSLTN(x)) \in Nat
         /\ ParseFloat(FormatSLTN(x)) <= x
         /\ ParseFloat(FormatSLTN(x)) < Group * Unit
<1>1. PICK q \in Nat, r \in 0 .. Unit - 1 :
        q = x \div Unit /\ r = x % Unit /\ Unit * q + r = x
  BY DivMod, WalletFormsConstants DEF WalletFormsConstants
<1>2. FormatSLTN(x).int = q /\ (FormatSLTN(x).commas <=> q >= Group)
  BY <1>1 DEF FormatSLTN
<1>3. Unit \in Nat /\ Group \in Nat /\ Unit > 0
  BY WalletFormsConstants DEF WalletFormsConstants
<1>4. CASE q >= Group
  <2>1. PICK k \in Nat : k = Leading[q] /\ k <= q /\ k < Group
    BY LeadingBound
  <2>2. ParseFloat(FormatSLTN(x)) = k * Unit
    BY <1>2, <1>4, <2>1 DEF ParseFloat
  <2>3. k * Unit \in Nat /\ k * Unit <= Unit * q /\ k * Unit < Group * Unit
    BY <1>3, <2>1
  <2> QED BY <1>1, <1>3, <2>2, <2>3
<1>5. CASE ~(q >= Group)
  <2>1. ParseFloat(FormatSLTN(x)) = x
    BY <1>2, <1>5, TextOfAmount DEF ParseFloat
  <2>2. q + 1 <= Group
    BY <1>3, <1>5
  <2>3. Unit * (q + 1) <= Unit * Group
    BY <1>3, <2>2
  <2>4. x < Unit * Group /\ Unit * Group = Group * Unit
    BY <1>1, <1>3, <2>3
  <2> QED BY <2>1, <2>4
<1> QED BY <1>4, <1>5
---------------------------------------------------------------------------
(* Signed texts: the keys are written one after the other. *)

KeyAdded(op, i, s) == IF Alphabet[i] \in Fields(op) THEN Append(s, Alphabet[i]) ELSE s
Written(h, op) ==
  h = [i \in 0 .. Len(Alphabet) |->
        IF i = 0 THEN << >> ELSE KeyAdded(op, i, h[i - 1])]
LEMMA AlphabetIs ==
  /\ Len(Alphabet) = 8 /\ Alphabet[1] = "amount" /\ Alphabet[2] = "from"
  /\ Alphabet[3] = "memo" /\ Alphabet[4] = "nonce" /\ Alphabet[5] = "timestamp"
  /\ Alphabet[6] = "to" /\ Alphabet[7] = "type" /\ Alphabet[8] = "validatorAddress"
  BY DEF Alphabet
LEMMA WrittenExists == ASSUME NEW op PROVE \E h : Written(h, op)
<1> DEFINE K(i, s) == KeyAdded(op, i, s)
           s1 == K(1, << >>)
           s2 == K(2, s1)
           s3 == K(3, s2)
           s4 == K(4, s3)
           s5 == K(5, s4)
           s6 == K(6, s5)
           s7 == K(7, s6)
           s8 == K(8, s7)
           h == [i \in 0 .. 8 |->
                  IF i = 0 THEN << >> ELSE IF i = 1 THEN s1 ELSE IF i = 2 THEN s2
                  ELSE IF i = 3 THEN s3 ELSE IF i = 4 THEN s4 ELSE IF i = 5 THEN s5
                  ELSE IF i = 6 THEN s6 ELSE IF i = 7 THEN s7 ELSE s8]
<1>1. /\ s1 = K(1, << >>) /\ s2 = K(2, s1) /\ s3 = K(3, s2) /\ s4 = K(4, s3)
      /\ s5 = K(5, s4) /\ s6 = K(6, s5) /\ s7 = K(7, s6) /\ s8 = K(8, s7)
  OBVIOUS
<1> HIDE DEF K, s1, s2, s3, s4, s5, s6, s7, s8
<1>2. \A i \in 0 .. 8 : h[i] = IF i = 0 THEN << >> ELSE K(i, h[i - 1])
  BY <1>1
<1>3. h = [i \in 0 .. 8 |-> IF i = 0 THEN << >> ELSE K(i, h[i - 1])]
  BY <1>2
<1>4. Written(h, op)
  <2> HIDE DEF h
  <2> QED BY <1>3, AlphabetIs DEF Written, K
<1> QED BY <1>4
LEMMA SignedIs ==
  ASSUME NEW op
  PROVE  \E g : /\ Signed(op) = g[8] /\ g[0] = << >>
                /\ \A i \in 1 .. 8 : g[i] = KeyAdded(op, i, g[i - 1])
<1> DEFINE g == CHOOSE h : Written(h, op)
<1>1. Written(g, op)
  BY WrittenExists
<1>2. Signed(op) = g[Len(Alphabet)]
  BY DEF Signed, Written, KeyAdded
<1> HIDE DEF g
<1>3. g[0] = << >> /\ \A i \in 1 .. 8 : g[i] = KeyAdded(op, i, g[i - 1])
  BY <1>1, AlphabetIs DEF Written
<1> QED BY <1>2, <1>3, AlphabetIs
(* The first key written is "amount" *)
LEMMA NoneVerifies == ~Verifies("transfer") /\ ~Verifies("stake")
<1>1. ASSUME NEW op \in {"transfer", "stake"} PROVE Signed(op) # <<>> /\ Signed(op)[1] = "amount"
  <2>1. PICK g : /\ Signed(op) = g[8] /\ g[0] = << >>
                 /\ \A i \in 1 .. 8 : g[i] = KeyAdded(op, i, g[i - 1])
    BY SignedIs
  <2> DEFINE Keys == {Alphabet[i] : i \in 1 .. 8}
             Starts(s) == s \in Seq(Keys) /\ Len(s) >= 1 /\ s[1] = "amount"
  <2>2. \A i \in 1 .. 8 : Alphabet[i] \in Keys
    OBVIOUS
  <2>3. ASSUME NEW s, Starts(s), NEW i \in 1 .. 8 PROVE Starts(KeyAdded(op, i, s))
    <3> DEFINE k == Alphabet[i]
    <3>1. k \in Keys /\ KeyAdded(op, i, s) \in {s, Append(s, k)}
      BY <2>2 DEF KeyAdded
    <3> HIDE DEF k, Keys
    <3>2. Starts(Append(s, k))
      BY <2>3, <3>1
    <3> QED BY <2>3, <3>1, <3>2
  <2>4. Starts(g[1])
    <3>1. KeyAdded(op, 1, << >>) = <<"amount">>
      BY AlphabetIs DEF KeyAdded, Fields
    <3>2. g[1] = KeyAdded(op, 1, g[1 - 1]) /\ 1 - 1 = 0
      BY <2>1
    <3>3. g[1] = <<"amount">>
      BY <2>1, <3>1, <3>2
    <3>4. "amount" \in Keys
      BY <2>2, AlphabetIs
    <3> HIDE DEF Keys
    <3> QED BY <3>3, <3>4
  <2> HIDE DEF Starts
  <2>5. Starts(g[2]) BY <2>1, <2>3, <2>4
  <2>6. Starts(g[3]) BY <2>1, <2>3, <2>5
  <2>7. Starts(g[4]) BY <2>1, <2>3, <2>6
  <2>8. Starts(g[5]) BY <2>1, <2>3, <2>7
  <2>9. Starts(g[6]) BY <2>1, <2>3, <2>8
  <2>10. Starts(g[7]) BY <2>1, <2>3, <2>9
  <2>11. Starts(g[8]) BY <2>1, <2>3, <2>10
  <2> QED BY <2>1, <2>11 DEF Starts
<1> QED BY <1>1 DEF Verifies, Rebuilt
---------------------------------------------------------------------------
(* Calls.  A request is on its way at most once for each attempt its call  *)
(* has made, and an attempt that has been carried out is not on its way    *)
(* any more: what the node has done for a confirmation is bounded by the   *)
(* attempts made.                                                          *)

USE WalletFormsConstants, WalletRequestsConstants, NoneIsNothing
    DEF WalletFormsConstants, WalletRequestsConstants

(* The attempts a call has sent a request for. *)
SentOf(c) ==
  IF c = None THEN 0
  ELSE IF c.stage = "done" THEN MaxRetries
  ELSE IF c.stage = "wait" THEN c.attempt
  ELSE c.attempt - 1

Stages == {"nonce", "sign", "wait", "pause", "done"}
MaybeCall == Call \cup {None}

LEMMA CallFields ==
  ASSUME NEW c \in Call
  PROVE  /\ c.op \in Op /\ c.amount \in Amount /\ c.stage \in Stages
         /\ c.live \in BOOLEAN /\ c.mounted \in BOOLEAN
         /\ c.attempt \in Nat /\ 1 <= c.attempt /\ c.attempt <= MaxRetries
         /\ c # None /\ SentOf(c) \in Nat /\ SentOf(c) <= MaxRetries
<1>1. c \in [op: Op, amount: Amount, stage: Stages,
             live: BOOLEAN, mounted: BOOLEAN, attempt: 1 .. MaxRetries]
  BY DEF Call, Stages
<1>2. /\ c.op \in Op /\ c.amount \in Amount /\ c.stage \in Stages
      /\ c.live \in BOOLEAN /\ c.mounted \in BOOLEAN /\ c.attempt \in 1 .. MaxRetries
  BY <1>1
<1>3. c # None
  BY NoneIsNothing
<1>4. /\ c.attempt \in Nat /\ 1 <= c.attempt /\ c.attempt <= MaxRetries
  BY <1>2
<1>5. SentOf(c) \in Nat /\ SentOf(c) <= MaxRetries
  BY <1>3, <1>4 DEF SentOf
<1> QED BY <1>2, <1>3, <1>4, <1>5

(* d is what has become of the call c: the same confirmation, with no      *)
(* fewer attempts sent.                                                    *)
GoesOn(c, d) ==
  /\ d \in MaybeCall
  /\ (d = None) <=> (c = None)
  /\ c # None => d.op = c.op /\ d.amount = c.amount
  /\ SentOf(d) >= SentOf(c)

LEMMA GoesOnSame == ASSUME NEW c \in MaybeCall PROVE GoesOn(c, c)
<1>1. SentOf(c) \in Nat
  BY CallFields DEF MaybeCall, SentOf
<1> QED BY <1>1 DEF GoesOn

(* Unmount, Lock and SessionExpires. *)
LEMMA GoesOnUnseen ==
  ASSUME NEW c \in Call, NEW k \in BOOLEAN
  PROVE  /\ GoesOn(c, [c EXCEPT !.mounted = FALSE, !.live = @ /\ k])
         /\ GoesOn(c, [c EXCEPT !.live = FALSE])
<1> DEFINE d == [c EXCEPT !.mounted = FALSE, !.live = @ /\ k]
           e == [c EXCEPT !.live = FALSE]
<1>1. /\ d.op = c.op /\ d.amount = c.amount /\ d.stage = c.stage /\ d.attempt = c.attempt
      /\ d \in Call
  <2>1. (c.live /\ k) \in BOOLEAN
    OBVIOUS
  <2> QED BY <2>1 DEF Call
<1>2. /\ e.op = c.op /\ e.amount = c.amount /\ e.stage = c.stage /\ e.attempt = c.attempt
      /\ e \in Call
  BY DEF Call
<1> HIDE DEF d, e
<1>3. SentOf(d) = SentOf(c) /\ SentOf(e) = SentOf(c) /\ SentOf(c) \in Nat
  BY <1>1, <1>2, CallFields DEF SentOf
<1>4. d # None /\ e # None /\ c # None
  BY <1>1, <1>2, CallFields
<1>5. GoesOn(c, d) /\ GoesOn(c, e)
  BY <1>1, <1>2, <1>3, <1>4 DEF GoesOn, MaybeCall
<1> QED BY <1>5 DEF d, e

LEMMA GoesOnEnded ==
  ASSUME NEW c \in Call
  PROVE  GoesOn(c, [c EXCEPT !.stage = "done", !.attempt = 1, !.live = FALSE, !.mounted = FALSE])
<1> DEFINE d == [c EXCEPT !.stage = "done", !.attempt = 1, !.live = FALSE, !.mounted = FALSE]
<1>1. d.op = c.op /\ d.amount = c.amount /\ d.stage = "done" /\ d \in Call
  <2>1. 1 \in 1 .. MaxRetries
    OBVIOUS
  <2> QED BY <2>1 DEF Call
<1> HIDE DEF d
<1>2. c # None /\ d # None /\ SentOf(c) <= MaxRetries
  BY <1>1, CallFields
<1>3. SentOf(d) = MaxRetries
  BY <1>1, <1>2 DEF SentOf
<1>4. GoesOn(c, d)
  BY <1>1, <1>2, <1>3, CallFields DEF GoesOn, MaybeCall
<1> QED BY <1>4 DEF d

(* An attempt that failed is repeated. *)
LEMMA GoesOnPaused ==
  ASSUME NEW c \in Call, c.stage = "wait", MayRetry(c.attempt)
  PROVE  GoesOn(c, [c EXCEPT !.stage = "pause", !.attempt = @ + 1])
<1> DEFINE d == [c EXCEPT !.stage = "pause", !.attempt = @ + 1]
<1>1. c.attempt + 1 \in 1 .. MaxRetries
  BY CallFields DEF MayRetry
<1>2. /\ d.op = c.op /\ d.amount = c.amount /\ d.stage = "pause" /\ d.attempt = c.attempt + 1
      /\ d \in Call
  BY <1>1 DEF Call
<1> HIDE DEF d
<1>3. c # None /\ d # None /\ c.attempt \in Nat
  BY <1>2, CallFields
<1>4. SentOf(d) = c.attempt /\ SentOf(c) = c.attempt
  BY <1>2, <1>3 DEF SentOf
<1>5. GoesOn(c, d)
  BY <1>2, <1>3, <1>4 DEF GoesOn, MaybeCall
<1> QED BY <1>5 DEF d

(* A call before its next attempt goes on to another such point, or sends. *)
LEMMA GoesOnStage ==
  ASSUME NEW c \in Call, c.stage \in {"nonce", "sign", "pause"},
         NEW s \in {"nonce", "sign", "wait"}
  PROVE  /\ GoesOn(c, [c EXCEPT !.stage = s])
         /\ s = "wait" => SentOf([c EXCEPT !.stage = s]) = SentOf(c) + 1
<1> DEFINE d == [c EXCEPT !.stage = s]
<1>1. /\ d.op = c.op /\ d.amount = c.amount /\ d.stage = s /\ d.attempt = c.attempt
      /\ d \in Call
  BY DEF Call
<1> HIDE DEF d
<1>2. c # None /\ d # None /\ c.attempt \in Nat
  BY <1>1, CallFields
<1>3. SentOf(d) \in {c.attempt, c.attempt - 1} /\ SentOf(c) = c.attempt - 1
  BY <1>1, <1>2 DEF SentOf
<1>4. GoesOn(c, d)
  BY <1>1, <1>2, <1>3 DEF GoesOn, MaybeCall
<1>5. s = "wait" => SentOf(d) = SentOf(c) + 1
  BY <1>1, <1>2, <1>3 DEF SentOf
<1> QED BY <1>4, <1>5 DEF d

---------------------------------------------------------------------------
(* Screens.  A form has been checked before the step at which it is sent,  *)
(* and its amount stays as it was checked until then.                      *)

ScreenType ==
  [name: {"home", "send", "stake", "governance"},
   step: {"form", "confirm", "pin", "success", "detail", "submit"},
   action: Op \cup {None}, amount: AmountText, loading: SUBSET Flags,
   notices: SUBSET Id]

(* What screen s is about to confirm is covered by an account of balance b. *)
Covered(s, b) ==
  /\ s.name = "send" /\ s.step \in {"confirm", "pin"} => BaseUnits(s.amount) <= b
  /\ s.name = "stake" /\ s.step = "pin" /\ s.action = "stake" => BaseUnits(s.amount) <= b
  /\ s.name = "stake" /\ s.step = "pin" /\ s.action = "unstake"
       => BaseUnits(s.amount) <= Stake

LEMMA AmountType ==
  /\ Amount \subseteq Nat /\ Balances \subseteq Nat /\ Balances \subseteq Amount
  /\ 0 \in Amount /\ Typed \subseteq Amount /\ MinDeposit \in Amount
  /\ \A k \in 0 .. Stake : k \in Amount
<1>1. Balances \subseteq Nat
  BY DEF Balances
<1>2. 0 \in 0 .. Stake /\ 0 .. Stake \subseteq Nat
  OBVIOUS
<1> QED BY <1>1, <1>2 DEF Amount

(* An amount on a screen is one of the amounts. *)
LEMMA TextAmount ==
  /\ \A t \in AmountText : BaseUnits(t) \in Amount /\ BaseUnits(t) \in Nat
  /\ \A x \in Amount : Plain(x) \in AmountText /\ FormatSLTN(x) \in AmountText
<1>1. \A x \in Amount : BaseUnits(Plain(x)) = x /\ BaseUnits(FormatSLTN(x)) = x
  BY TextOfAmount, AmountType
<1>2. ASSUME NEW t \in AmountText PROVE BaseUnits(t) \in Amount
  <2>1. PICK x \in Amount : t = Plain(x) \/ t = FormatSLTN(x)
    BY DEF AmountText
  <2> QED BY <1>1, <2>1
<1>3. \A x \in Amount : Plain(x) \in AmountText /\ FormatSLTN(x) \in AmountText
  BY DEF AmountText
<1> QED BY <1>2, <1>3, AmountType

LEMMA ScreenFields ==
  ASSUME NEW s \in ScreenType
  PROVE  /\ s.name \in {"home", "send", "stake", "governance"}
         /\ s.step \in {"form", "confirm", "pin", "success", "detail", "submit"}
         /\ s.action \in Op \cup {None} /\ s.amount \in AmountText
         /\ s.loading \subseteq Flags /\ s.notices \subseteq Id
  BY DEF ScreenType

LEMMA NewScreen ==
  ASSUME NEW name \in {"home", "send", "stake", "governance"}, NEW b \in Nat
  PROVE  Screen(name) \in ScreenType /\ Screen(name).notices = {} /\ Covered(Screen(name), b)
<1>1. Plain(0) \in AmountText
  BY TextAmount, AmountType
<1>2. Screen(name) \in ScreenType
  BY <1>1 DEF Screen, ScreenType
<1> QED BY <1>2 DEF Screen, Covered

LEMMA FlagType == \A op \in Op : Flag(op) \in Flags
  BY DEF Flag, Flags

(* A call that ends leaves the screen on a form or on the success view. *)
LEMMA EndedScreen ==
  ASSUME NEW s \in ScreenType, NEW id \in Id, NEW op \in Op, NEW b \in Nat, Covered(s, b)
  PROVE  /\ Succeeded(s, id, op) \in ScreenType /\ Covered(Succeeded(s, id, op), b)
         /\ Succeeded(s, id, op).notices = s.notices \cup {id}
         /\ Failed(s, op) \in ScreenType /\ Covered(Failed(s, op), b)
         /\ Failed(s, op).notices = s.notices
<1> USE ScreenFields
<1>1. /\ s.loading \ {Flag(op)} \in SUBSET Flags
      /\ s.notices \cup {id} \in SUBSET Id
      /\ StepAfter(op) \in {"form", "success"}
      /\ (IF op \in StakeOps THEN None ELSE s.action) \in Op \cup {None}
      /\ (IF op \in {"stake", "unstake"} THEN Plain(0) ELSE s.amount) \in AmountText
  BY TextAmount, AmountType DEF StepAfter
<1>2. Succeeded(s, id, op) \in ScreenType
  BY <1>1 DEF Succeeded, ScreenType
<1>3. /\ Succeeded(s, id, op).notices = s.notices \cup {id}
      /\ Succeeded(s, id, op).step \in {"form", "success"}
  BY <1>1 DEF Succeeded, ScreenType
<1>4. Failed(s, op) \in ScreenType
  BY <1>1 DEF Failed, ScreenType
<1>5. /\ Failed(s, op).notices = s.notices /\ Failed(s, op).name = s.name
      /\ Failed(s, op).step = s.step /\ Failed(s, op).amount = s.amount
      /\ Failed(s, op).action = s.action
  BY DEF Failed, ScreenType
<1>6. Covered(Succeeded(s, id, op), b)
  BY <1>3 DEF Covered
<1>7. Covered(Failed(s, op), b)
  BY <1>5 DEF Covered
<1> QED BY <1>2, <1>3, <1>4, <1>5, <1>6, <1>7

(* A form that passes its check is covered by the amount it was checked    *)
(* against, which is shown with commas.                                    *)
LEMMA ValidIsCovered ==
  ASSUME NEW x \in Nat, NEW t \in Texts(x), ValidateAmount(t, FormatSLTN(x))
  PROVE  BaseUnits(t) <= x
<1>1. BaseUnits(t) = ParseFloat(t)
  BY DEF ValidateAmount, ParseFloat
<1>2. PICK y \in Nat : BaseUnits(t) = y
  BY TextOfAmount, AmountType DEF Texts, TypedTexts
<1>3. ParseFloat(t) <= ParseFloat(FormatSLTN(x))
  BY DEF ValidateAmount
<1> QED BY <1>1, <1>2, <1>3, ShownAmount

---------------------------------------------------------------------------
(* The inductive invariant. *)

NodeType ==
  [balance: Balances, staked: 0 .. Stake, voted: BOOLEAN, proposed: BOOLEAN, status: Status]
Request == [id: Id, attempt: 1 .. MaxRetries, op: Op, amount: Amount]

StateType ==
  /\ node \in NodeType
  /\ wallet \in {None, "live", "destroyed"}
  /\ screen \in ScreenType
  /\ calls \in [Id -> MaybeCall]
  /\ net \in SUBSET Request
  /\ applied \in [Id -> Nat]

OnTheWay(n, id) == {r \in n : r.id = id}

(* A request is one of a call that has been made, and says what it says. *)
NetInv ==
  /\ IsFiniteSet(net)
  /\ \A r \in net : /\ calls[r.id] # None
                    /\ r.op = calls[r.id].op /\ r.amount = calls[r.id].amount

AttemptInv ==
  \A id \in Id : applied[id] + Cardinality(OnTheWay(net, id)) <= SentOf(calls[id])

(* A vote or a proposal the node has carried out is known to it; what the  *)
(* node always refuses it has never carried out.                           *)
Effect(c, done, n) ==
  /\ c.op \in {"transfer", "stake", "claim"} => done = 0
  /\ c.op \in {"vote", "propose"} => done <= 1
  /\ c.op = "vote" /\ done > 0 => n.voted
  /\ c.op = "propose" /\ done > 0 => n.proposed

EffectInv == \A id \in Id : calls[id] # None => Effect(calls[id], applied[id], node)

CallInv == NetInv /\ AttemptInv /\ EffectInv /\ ConfirmedIsCovered

ScreenInv == Covered(screen, node.balance) /\ SuccessIsTrue

WInv == StateType /\ CallInv /\ ScreenInv

CallsGoOn ==
  /\ calls' \in [Id -> MaybeCall]
  /\ \A id \in Id : GoesOn(calls[id], calls'[id])

LEMMA OnTheWayFinite ==
  ASSUME NEW n, IsFiniteSet(n), NEW id
  PROVE  IsFiniteSet(OnTheWay(n, id)) /\ Cardinality(OnTheWay(n, id)) \in Nat
<1>1. OnTheWay(n, id) \subseteq n
  BY DEF OnTheWay
<1>2. IsFiniteSet(OnTheWay(n, id))
  BY <1>1, FS_Subset
<1> QED BY <1>2, FS_CardinalityType

LEMMA InitInv == Init => WInv
<1> SUFFICES ASSUME Init PROVE WInv
  OBVIOUS
<1>1. PICK account \in Accounts :
        node = [balance |-> account.balance, status |-> account.status, staked |-> Stake,
                voted |-> FALSE, proposed |-> FALSE]
  BY DEF Init
<1>2. node \in NodeType /\ node.balance \in Nat
  <2>1. account.balance \in Balances /\ account.balance \in Nat /\ account.status \in Status
    BY DEF Balances
  <2> QED BY <1>1, <2>1 DEF NodeType
<1>3. screen \in ScreenType /\ screen.notices = {} /\ Covered(screen, node.balance)
  BY <1>2, NewScreen DEF Init
<1>4. /\ calls \in [Id -> MaybeCall] /\ applied \in [Id -> Nat]
      /\ \A id \in Id : calls[id] = None /\ applied[id] = 0
  BY DEF Init, MaybeCall
<1>5. wallet \in {None, "live", "destroyed"} /\ net = {}
  BY DEF Init
<1>6. NetInv
  BY <1>5, FS_EmptySet DEF NetInv
<1>7. AttemptInv
  <2>1. \A id \in Id : OnTheWay(net, id) = {}
    BY <1>5 DEF OnTheWay
  <2>2. \A id \in Id : SentOf(calls[id]) = 0 /\ Cardinality(OnTheWay(net, id)) = 0
    BY <1>4, <2>1, FS_EmptySet DEF SentOf
  <2> QED BY <1>4, <2>2 DEF AttemptInv
<1>8. EffectInv /\ ConfirmedIsCovered
  BY <1>4 DEF EffectInv, ConfirmedIsCovered
<1>9. SuccessIsTrue
  BY <1>3 DEF SuccessIsTrue
<1> QED BY <1>2, <1>3, <1>4, <1>5, <1>6, <1>7, <1>8, <1>9
        DEF WInv, StateType, CallInv, ScreenInv

(* A step that sends and carries out nothing. *)
LEMMA QuietStep ==
  ASSUME StateType, CallInv, CallsGoOn, net' \in SUBSET net, UNCHANGED <<node, applied>>
  PROVE  CallInv'
<1>1. \A id \in Id : /\ (calls'[id] = None) <=> (calls[id] = None)
                     /\ calls[id] # None => /\ calls'[id].op = calls[id].op
                                            /\ calls'[id].amount = calls[id].amount
                     /\ SentOf(calls'[id]) >= SentOf(calls[id])
  BY DEF CallsGoOn, GoesOn
<1>2. NetInv'
  <2>1. IsFiniteSet(net')
    BY FS_Subset DEF CallInv, NetInv
  <2>2. \A r \in net' : r \in net /\ r.id \in Id
    BY DEF StateType, Request
  <2> QED BY <1>1, <2>1, <2>2 DEF CallInv, NetInv
<1>3. AttemptInv'
  <2> SUFFICES ASSUME NEW id \in Id
               PROVE  applied'[id] + Cardinality(OnTheWay(net', id)) <= SentOf(calls'[id])
    BY DEF AttemptInv
  <2>1. OnTheWay(net', id) \in SUBSET OnTheWay(net, id)
    BY DEF OnTheWay
  <2>2. /\ IsFiniteSet(OnTheWay(net, id)) /\ Cardinality(OnTheWay(net, id)) \in Nat
        /\ Cardinality(OnTheWay(net', id)) \in Nat
    BY <1>2, OnTheWayFinite DEF CallInv, NetInv
  <2>3. Cardinality(OnTheWay(net', id)) <= Cardinality(OnTheWay(net, id))
    BY <2>1, <2>2, FS_Subset
  <2>4. applied[id] + Cardinality(OnTheWay(net, id)) <= SentOf(calls[id])
    BY DEF CallInv, AttemptInv
  <2>5. SentOf(calls[id]) \in Int /\ SentOf(calls'[id]) \in Int
    BY CallFields DEF StateType, CallsGoOn, MaybeCall, SentOf
  <2> QED BY <1>1, <2>2, <2>3, <2>4, <2>5 DEF StateType
<1>4. EffectInv'
  BY <1>1 DEF CallInv, EffectInv, Effect
<1>5. ConfirmedIsCovered'
  BY <1>1 DEF CallInv, ConfirmedIsCovered
<1> QED BY <1>2, <1>3, <1>4, <1>5 DEF CallInv


(* The same for the screen: it shows no new notice. *)
LEMMA QuietScreen ==
  ASSUME WInv, CallsGoOn, net' \in SUBSET net, UNCHANGED <<node, applied>>,
         wallet' \in {None, "live", "destroyed"},
         screen' \in ScreenType, screen'.notices \subseteq screen.notices,
         Covered(screen', node.balance)
  PROVE  WInv'
<1>1. CallInv'
  BY QuietStep DEF WInv
<1>2. StateType'
  BY DEF WInv, StateType, CallsGoOn
<1>3. SuccessIsTrue'
  BY DEF WInv, ScreenInv, SuccessIsTrue
<1> QED BY <1>1, <1>2, <1>3 DEF WInv, ScreenInv

LEMMA CallsKept == ASSUME StateType, UNCHANGED calls PROVE CallsGoOn
BY GoesOnSame DEF StateType, CallsGoOn

LEMMA ScreenMoves ==
  ASSUME WInv, OnlyScreen, screen' \in ScreenType, screen'.notices = screen.notices,
         Covered(screen', node.balance)
  PROVE  WInv'
<1>1. CallsGoOn
  BY CallsKept DEF WInv, OnlyScreen
<1> QED BY <1>1, QuietScreen DEF WInv, StateType, OnlyScreen

Steps == {"form", "confirm", "pin", "success", "detail", "submit"}

LEMMA GotoStep ==
  ASSUME WInv, NEW step \in Steps, Goto(step), Covered([screen EXCEPT !.step = step], node.balance)
  PROVE  WInv'
<1>1. [screen EXCEPT !.step = step] \in ScreenType
  BY DEF WInv, StateType, ScreenType, Steps
<1>2. [screen EXCEPT !.step = step].notices = screen.notices
  BY DEF WInv, StateType, ScreenType
<1> QED BY <1>1, <1>2, ScreenMoves DEF Goto

LEMMA EnterStep ==
  ASSUME WInv, NEW op \in Op, NEW step \in Steps, NEW text \in AmountText,
         Enter(op, step, text),
         Covered([screen EXCEPT !.step = step, !.action = op, !.amount = text], node.balance)
  PROVE  WInv'
<1>1. [screen EXCEPT !.step = step, !.action = op, !.amount = text] \in ScreenType
  BY DEF WInv, StateType, ScreenType, Steps
<1>2. [screen EXCEPT !.step = step, !.action = op, !.amount = text].notices = screen.notices
  BY DEF WInv, StateType, ScreenType
<1> QED BY <1>1, <1>2, ScreenMoves DEF Enter

(* What is offered as the largest amount is an amount. *)
LEMMA ShownText ==
  ASSUME StateType
  PROVE  /\ \A b \in BalanceShown : b \in Nat /\ b <= node.balance /\ Texts(b) \subseteq AmountText
         /\ \A b \in StakeShown : b \in Nat /\ b <= Stake /\ Texts(b) \subseteq AmountText
         /\ TypedTexts \subseteq AmountText
<1>1. node.balance \in Balances /\ node.balance \in Nat /\ node.staked \in 0 .. Stake
  BY AmountType DEF StateType, NodeType
<1>2. TypedTexts \subseteq AmountText
  BY TextAmount, AmountType DEF TypedTexts
<1>3. \A x \in Amount : Texts(x) \subseteq AmountText
  BY <1>2, TextAmount DEF Texts
<1>4. \A b \in BalanceShown : b \in Nat /\ b <= node.balance /\ b \in Amount
  BY <1>1, AmountType DEF BalanceShown
<1>5. \A b \in StakeShown : b \in Nat /\ b <= Stake /\ b \in 0 .. Stake
  BY <1>1 DEF StakeShown
<1>6. \A b \in StakeShown : b \in Amount
  BY <1>5, AmountType
<1> QED BY <1>2, <1>3, <1>4, <1>5, <1>6

(* A form passes the check against what is shown as available. *)
LEMMA FormIsCovered ==
  ASSUME NEW x \in Nat, NEW y \in Nat, x <= y, NEW t \in Texts(x) \cap AmountText,
         ValidateAmount(t, FormatSLTN(x))
  PROVE  BaseUnits(t) <= y
<1>1. BaseUnits(t) <= x /\ BaseUnits(t) \in Nat
  BY ValidIsCovered, TextAmount
<1> QED BY <1>1

LEMMA SendForms ==
  ASSUME WInv, HandleContinue \/ HandleConfirmToPin \/ BackToForm \/ BackToReview
  PROVE  WInv'
<1> USE DEF At, SendForm, SendReview, SendPin
<1>1. CASE HandleContinue
  <2>0. PICK b \in BalanceShown : \E t \in Texts(b) :
          /\ ValidateAmount(t, FormatSLTN(b)) /\ Enter("transfer", "confirm", t)
    BY <1>1 DEF HandleContinue, ValidateForm
  <2>1. PICK t \in Texts(b) :
          /\ ValidateAmount(t, FormatSLTN(b)) /\ Enter("transfer", "confirm", t)
    BY <2>0
  <2>2. t \in AmountText /\ b \in Nat /\ b <= node.balance /\ node.balance \in Nat
    BY ShownText, AmountType DEF WInv, StateType, NodeType
  <2>3. BaseUnits(t) <= node.balance
    BY <2>1, <2>2, FormIsCovered
  <2>4. Covered([screen EXCEPT !.step = "confirm", !.action = "transfer", !.amount = t],
                node.balance)
    BY <1>1, <2>3 DEF HandleContinue, Covered, WInv, StateType, ScreenType
  <2> QED BY <2>1, <2>2, <2>4, EnterStep DEF Op, Steps
<1>2. CASE HandleConfirmToPin
  <2>1. Covered([screen EXCEPT !.step = "pin"], node.balance)
    BY <1>2 DEF HandleConfirmToPin, Covered, WInv, ScreenInv, StateType, ScreenType
  <2> QED BY <1>2, <2>1, GotoStep DEF HandleConfirmToPin, Steps
<1>3. CASE BackToForm
  <2>1. Covered([screen EXCEPT !.step = "form"], node.balance)
    BY <1>3 DEF BackToForm, Covered, WInv, StateType, ScreenType
  <2> QED BY <1>3, <2>1, GotoStep DEF BackToForm, Steps
<1>4. CASE BackToReview
  <2>1. Covered([screen EXCEPT !.step = "confirm"], node.balance)
    BY <1>4 DEF BackToReview, Covered, WInv, ScreenInv, StateType, ScreenType
  <2> QED BY <1>4, <2>1, GotoStep DEF BackToReview, Steps
<1> QED BY <1>1, <1>2, <1>3, <1>4

LEMMA StakeForms ==
  ASSUME WInv,
         HandleStake \/ HandleUnstake \/ HandleClaimRewards \/ EditWhileWaiting \/ HandleCancelPin
  PROVE  WInv'
<1> USE DEF At, StakeForm, StakePin
<1>1. CASE HandleStake
  <2>0. PICK b \in BalanceShown : \E t \in Texts(b) :
          ValidateAmount(t, FormatSLTN(b)) /\ Enter("stake", "pin", t)
    BY <1>1 DEF HandleStake
  <2>1. PICK t \in Texts(b) :
          ValidateAmount(t, FormatSLTN(b)) /\ Enter("stake", "pin", t)
    BY <2>0
  <2>2. t \in AmountText /\ b \in Nat /\ b <= node.balance /\ node.balance \in Nat
    BY ShownText, AmountType DEF WInv, StateType, NodeType
  <2>3. BaseUnits(t) <= node.balance
    BY <2>1, <2>2, FormIsCovered
  <2>4. Covered([screen EXCEPT !.step = "pin", !.action = "stake", !.amount = t], node.balance)
    BY <1>1, <2>3 DEF HandleStake, Covered, WInv, StateType, ScreenType
  <2> QED BY <2>1, <2>2, <2>4, EnterStep DEF Op, StakeOps, Steps
<1>2. CASE HandleUnstake
  <2>0. PICK b \in StakeShown : \E t \in Texts(b) :
          ValidateAmount(t, FormatSLTN(b)) /\ Enter("unstake", "pin", t)
    BY <1>2 DEF HandleUnstake
  <2>1. PICK t \in Texts(b) :
          ValidateAmount(t, FormatSLTN(b)) /\ Enter("unstake", "pin", t)
    BY <2>0
  <2>2. t \in AmountText /\ b \in Nat /\ b <= Stake
    BY ShownText DEF WInv
  <2>3. BaseUnits(t) <= Stake
    BY <2>1, <2>2, FormIsCovered
  <2>4. Covered([screen EXCEPT !.step = "pin", !.action = "unstake", !.amount = t], node.balance)
    BY <1>2, <2>3 DEF HandleUnstake, Covered, WInv, StateType, ScreenType
  <2> QED BY <2>1, <2>2, <2>4, EnterStep DEF Op, StakeOps, Steps
<1>3. CASE HandleClaimRewards
  <2>1. Enter("claim", "pin", screen.amount) /\ screen.amount \in AmountText
    BY <1>3, ScreenFields DEF HandleClaimRewards, WInv, StateType
  <2>2. Covered([screen EXCEPT !.step = "pin", !.action = "claim", !.amount = screen.amount],
                node.balance)
    BY <1>3 DEF HandleClaimRewards, Covered, WInv, StateType, ScreenType
  <2> QED BY <2>1, <2>2, EnterStep DEF Op, StakeOps, Steps
<1>4. CASE EditWhileWaiting
  <2>1. PICK t \in TypedTexts : screen' = [screen EXCEPT !.amount = t]
    BY <1>4 DEF EditWhileWaiting
  <2>2. t \in AmountText
    BY ShownText DEF WInv
  <2>3. [screen EXCEPT !.amount = t] \in ScreenType
    BY <2>2 DEF WInv, StateType, ScreenType
  <2>4. /\ [screen EXCEPT !.amount = t].notices = screen.notices
        /\ Covered([screen EXCEPT !.amount = t], node.balance)
    BY <1>4 DEF EditWhileWaiting, Covered, WInv, StateType, ScreenType
  <2> QED BY <1>4, <2>1, <2>3, <2>4, ScreenMoves DEF EditWhileWaiting
<1>5. CASE HandleCancelPin
  <2>1. [screen EXCEPT !.step = "form", !.action = None] \in ScreenType
    BY DEF WInv, StateType, ScreenType
  <2>2. /\ [screen EXCEPT !.step = "form", !.action = None].notices = screen.notices
        /\ Covered([screen EXCEPT !.step = "form", !.action = None], node.balance)
    BY <1>5 DEF Covered, WInv, StateType, ScreenType
  <2> QED BY <1>5, <2>1, <2>2, ScreenMoves DEF HandleCancelPin
<1> QED BY <1>1, <1>2, <1>3, <1>4, <1>5

LEMMA GovernanceForms ==
  ASSUME WInv, OpenProposal \/ NewProposal \/ BackToList
  PROVE  WInv'
<1>1. screen.name = "governance"
  BY DEF OpenProposal, NewProposal, BackToList, ProposalList, At
<1>2. \A step \in Steps : Covered([screen EXCEPT !.step = step], node.balance)
  BY <1>1 DEF Covered, WInv, StateType, ScreenType
<1>3. \E step \in {"detail", "submit", "form"} : Goto(step)
  BY DEF OpenProposal, NewProposal, BackToList
<1> QED BY <1>2, <1>3, GotoStep DEF Steps

(* The screen goes, or the wallet object. *)
LEMMA UnmountGoesOn == ASSUME StateType, NEW k \in BOOLEAN, Unmount(k) PROVE CallsGoOn
<1>1. \A id \in Id : calls[id] \in MaybeCall
  BY DEF StateType
<1>2. ASSUME NEW id \in Id PROVE GoesOn(calls[id], calls'[id])
  <2>1. CASE id \in Running
    <3>1. calls[id] \in Call
      BY <1>1, <2>1 DEF Running, MaybeCall
    <3>2. calls'[id] = [calls[id] EXCEPT !.mounted = FALSE, !.live = @ /\ k]
      BY <2>1 DEF Unmount
    <3> QED BY <3>1, <3>2, GoesOnUnseen
  <2>2. CASE id \notin Running
    <3>1. calls'[id] = calls[id]
      BY <2>2 DEF Unmount
    <3> QED BY <1>1, <3>1, GoesOnSame
  <2> QED BY <2>1, <2>2
<1>3. calls' \in [Id -> MaybeCall]
  <2>1. \A id \in Id : calls'[id] \in MaybeCall
    BY <1>2 DEF GoesOn
  <2>2. calls' = [id \in Id |-> calls'[id]]
    BY DEF Unmount
  <2> QED BY <2>1, <2>2
<1> QED BY <1>2, <1>3 DEF CallsGoOn

LEMMA LeavingSteps ==
  ASSUME WInv,
         \/ \E name \in {"home", "send", "stake", "governance"} : Navigate(name)
         \/ Lock \/ SessionExpires \/ Unlock
  PROVE  WInv'
<1>1. node.balance \in Nat
  BY AmountType DEF WInv, StateType, NodeType
<1>2. \A name \in {"home", "send", "stake", "governance"} :
        /\ Screen(name) \in ScreenType /\ Screen(name).notices \subseteq screen.notices
        /\ Covered(Screen(name), node.balance)
  BY <1>1, NewScreen
<1>3. CASE \E name \in {"home", "send", "stake", "governance"} : Navigate(name)
  <2>1. CallsGoOn
    BY <1>3, UnmountGoesOn DEF Navigate, WInv
  <2> QED BY <1>2, <1>3, <2>1, QuietScreen DEF Navigate, WInv, StateType
<1>4. CASE Lock
  <2>1. CallsGoOn
    BY <1>4, UnmountGoesOn DEF Lock, WInv
  <2> QED BY <1>2, <1>4, <2>1, QuietScreen DEF Lock
<1>5. CASE SessionExpires
  <2>1. ASSUME NEW id \in Id PROVE GoesOn(calls[id], calls'[id])
    <3>1. calls[id] \in MaybeCall
      BY DEF WInv, StateType
    <3>2. CASE id \in Running
      <4>1. calls[id] \in Call /\ calls'[id] = [calls[id] EXCEPT !.live = FALSE]
        BY <1>5, <3>1, <3>2 DEF SessionExpires, Running, MaybeCall
      <4> QED BY <4>1, GoesOnUnseen
    <3>3. CASE id \notin Running
      BY <1>5, <3>1, <3>3, GoesOnSame DEF SessionExpires
    <3> QED BY <3>2, <3>3
  <2>2. \A id \in Id : calls'[id] \in MaybeCall
    BY <2>1 DEF GoesOn
  <2>3. calls' = [id \in Id |-> calls'[id]]
    BY <1>5 DEF SessionExpires
  <2>4. CallsGoOn
    BY <2>1, <2>2, <2>3 DEF CallsGoOn
  <2> QED BY <1>5, <2>4, QuietScreen DEF SessionExpires, WInv, StateType, ScreenInv
<1>6. CASE Unlock
  <2>1. CallsGoOn
    BY <1>6, CallsKept DEF Unlock, WInv
  <2> QED BY <1>6, <2>1, QuietScreen DEF Unlock, WInv, StateType, ScreenInv
<1> QED BY <1>3, <1>4, <1>5, <1>6

---------------------------------------------------------------------------
(* A confirmation begins: nothing has been sent or done for it. *)

LEMMA NothingYet ==
  ASSUME WInv, NEW id \in Id, calls[id] = None
  PROVE  applied[id] = 0 /\ Cardinality(OnTheWay(net, id)) = 0
<1>1. Cardinality(OnTheWay(net, id)) \in Nat /\ applied[id] \in Nat
  BY OnTheWayFinite DEF WInv, CallInv, NetInv, StateType
<1>2. applied[id] + Cardinality(OnTheWay(net, id)) <= 0
  BY DEF WInv, CallInv, AttemptInv, SentOf
<1> QED BY <1>1, <1>2

LEMMA StartStep ==
  ASSUME WInv, NEW op \in Op, NEW amount \in Amount, Start(op, amount),
         op \in {"transfer", "stake"} => amount <= node.balance,
         op = "unstake" => amount <= Stake
  PROVE  WInv'
<1> DEFINE d == [op |-> op, amount |-> amount,
                 stage |-> IF op = "transfer" THEN "nonce" ELSE "sign",
                 live |-> wallet = "live", mounted |-> TRUE, attempt |-> 1]
<1>1. PICK id \in Id :
        /\ calls[id] = None
        /\ screen' = [screen EXCEPT !.loading = @ \cup {Flag(op)}]
        /\ calls' = [calls EXCEPT ![id] = d]
        /\ UNCHANGED <<node, wallet, net, applied>>
  BY DEF Start
<1>2. d \in Call /\ d.op = op /\ d.amount = amount /\ d # None /\ SentOf(d) = 0
  <2>1. 1 \in 1 .. MaxRetries
    OBVIOUS
  <2>2. d \in Call
    BY <2>1 DEF Call
  <2>3. d # None
    BY <2>2
  <2>4. d.stage \in {"nonce", "sign"} /\ d.attempt = 1
    OBVIOUS
  <2>5. SentOf(d) = 0
    BY <2>3, <2>4 DEF SentOf
  <2> QED BY <2>2, <2>3, <2>5
<1> HIDE DEF d
<1>3. applied[id] = 0 /\ Cardinality(OnTheWay(net, id)) = 0
  BY <1>1, NothingYet
<1>4. /\ calls'[id] = d
      /\ \A j \in Id \ {id} : calls'[j] = calls[j]
  BY <1>1 DEF WInv, StateType
<1>5. screen' \in ScreenType /\ screen'.notices = screen.notices /\ Covered(screen', node.balance)
  <2>1. screen.loading \cup {Flag(op)} \in SUBSET Flags
    BY FlagType, ScreenFields DEF WInv, StateType
  <2>2. [screen EXCEPT !.loading = screen.loading \cup {Flag(op)}] \in ScreenType
    BY <2>1 DEF WInv, StateType, ScreenType
  <2>3. /\ screen'.notices = screen.notices /\ screen'.name = screen.name
        /\ screen'.step = screen.step /\ screen'.action = screen.action
        /\ screen'.amount = screen.amount
    BY <1>1 DEF WInv, StateType, ScreenType
  <2>4. Covered(screen', node.balance)
    BY <2>3 DEF WInv, ScreenInv, Covered
  <2> QED BY <1>1, <2>2, <2>3, <2>4
<1>6. StateType'
  BY <1>1, <1>2, <1>5 DEF WInv, StateType, MaybeCall
<1>7. NetInv'
  BY <1>1, <1>4 DEF WInv, CallInv, NetInv, StateType, Request
<1>8. AttemptInv'
  <2> SUFFICES ASSUME NEW j \in Id
               PROVE  applied[j] + Cardinality(OnTheWay(net, j)) <= SentOf(calls'[j])
    BY <1>1 DEF AttemptInv
  <2>1. CASE j = id
    BY <1>2, <1>3, <1>4, <2>1
  <2>2. CASE j # id
    BY <1>4, <2>2 DEF WInv, CallInv, AttemptInv
  <2> QED BY <2>1, <2>2
<1>9. EffectInv'
  <2>1. Effect(d, 0, node)
    BY <1>2 DEF Effect
  <2> QED BY <1>1, <1>3, <1>4, <2>1 DEF WInv, CallInv, EffectInv
<1>10. ConfirmedIsCovered'
  BY <1>1, <1>2, <1>4 DEF WInv, CallInv, ConfirmedIsCovered
<1>11. ScreenInv'
  BY <1>1, <1>5 DEF WInv, ScreenInv, SuccessIsTrue
<1> QED BY <1>6, <1>7, <1>8, <1>9, <1>10, <1>11 DEF WInv, CallInv

LEMMA Submissions ==
  ASSUME WInv, SendPinSubmit \/ StakePinSubmit \/ HandleVote \/ HandleSubmitProposal
  PROVE  WInv'
<1>1. BaseUnits(screen.amount) \in Amount
  BY TextAmount, ScreenFields DEF WInv, StateType
<1>2. Covered(screen, node.balance)
  BY DEF WInv, ScreenInv
<1>3. 0 \in Amount
  BY AmountType
<1>4. CASE SendPinSubmit
  BY <1>1, <1>2, <1>4, StartStep
     DEF SendPinSubmit, SendPin, At, ExecuteTransaction, Covered, Op
<1>5. CASE StakePinSubmit
  <2>1. screen.name = "stake" /\ screen.step = "pin"
    BY <1>5 DEF StakePinSubmit, StakePin, At
  <2>2. CASE ExecuteStake
    BY <1>1, <1>2, <2>1, <2>2, StartStep DEF ExecuteStake, Covered, Op, StakeOps
  <2>3. CASE ExecuteUnstake
    BY <1>1, <1>2, <2>1, <2>3, StartStep DEF ExecuteUnstake, Covered, Op, StakeOps
  <2>4. CASE ExecuteClaim
    BY <1>3, <2>4, StartStep DEF ExecuteClaim, Op, StakeOps
  <2> QED BY <1>5, <2>2, <2>3, <2>4 DEF StakePinSubmit
<1>6. CASE HandleVote
  BY <1>3, <1>6, StartStep DEF HandleVote, Op, GovernanceOps
<1>7. CASE HandleSubmitProposal
  <2>1. PICK t \in TypedTexts \cup {Plain(MinDeposit)} : Start("propose", BaseUnits(t))
    BY <1>7 DEF HandleSubmitProposal
  <2>2. t \in AmountText
    BY ShownText, TextAmount, AmountType DEF WInv
  <2> QED BY <2>1, <2>2, TextAmount, StartStep DEF Op, GovernanceOps
<1> QED BY <1>4, <1>5, <1>6, <1>7

---------------------------------------------------------------------------
(* A call sends a request, or ends. *)

LEMMA FetchStep ==
  ASSUME WInv, NEW id \in Id, calls[id] \in Call, calls[id].stage \in {"nonce", "sign", "pause"},
         Fetch(id)
  PROVE  WInv'
<1> DEFINE d == [calls[id] EXCEPT !.stage = "wait"]
           b == Body(id)
<1>1. GoesOn(calls[id], d) /\ SentOf(d) = SentOf(calls[id]) + 1
  BY GoesOnStage
<1>2. /\ b \in Request /\ b.id = id /\ b.op = calls[id].op /\ b.amount = calls[id].amount
      /\ calls[id] # None
  BY CallFields DEF Body, Request
<1> HIDE DEF d, b
<1>3. /\ calls' = [calls EXCEPT ![id] = d]
      /\ net' = net \cup {b} /\ UNCHANGED <<node, wallet, screen, applied>>
  BY DEF Fetch, ui, d, b
<1>4. calls'[id] = d /\ \A j \in Id \ {id} : calls'[j] = calls[j]
  BY <1>3 DEF WInv, StateType
<1>5. CallsGoOn
  <2>1. calls' \in [Id -> MaybeCall]
    BY <1>1, <1>3 DEF WInv, StateType, GoesOn
  <2>2. \A j \in Id : calls[j] \in MaybeCall
    BY DEF WInv, StateType
  <2> QED BY <1>1, <1>4, <2>1, <2>2, GoesOnSame DEF CallsGoOn
<1>6. \A j \in Id : /\ (calls'[j] = None) <=> (calls[j] = None)
                    /\ calls[j] # None => /\ calls'[j].op = calls[j].op
                                          /\ calls'[j].amount = calls[j].amount
  BY <1>5 DEF CallsGoOn, GoesOn
<1>7. StateType'
  <2>1. net' \in SUBSET Request
    BY <1>2, <1>3 DEF WInv, StateType
  <2> QED BY <1>3, <1>5, <2>1 DEF WInv, StateType, CallsGoOn
<1>8. NetInv'
  <2>1. IsFiniteSet(net')
    BY <1>3, FS_AddElement DEF WInv, CallInv, NetInv
  <2>2. \A r \in net : r.id \in Id
    BY DEF WInv, StateType, Request
  <2> QED BY <1>2, <1>3, <1>6, <2>1, <2>2 DEF WInv, CallInv, NetInv
<1>9. AttemptInv'
  <2> SUFFICES ASSUME NEW j \in Id
               PROVE  applied[j] + Cardinality(OnTheWay(net', j)) <= SentOf(calls'[j])
    BY <1>3 DEF AttemptInv
  <2>1. applied[j] + Cardinality(OnTheWay(net, j)) <= SentOf(calls[j])
    BY DEF WInv, CallInv, AttemptInv
  <2>2. CASE j # id
    <3>1. OnTheWay(net', j) = OnTheWay(net, j)
      BY <1>2, <1>3, <2>2 DEF OnTheWay
    <3> QED BY <1>4, <2>1, <2>2, <3>1
  <2>3. CASE j = id
    <3>1. OnTheWay(net', id) = OnTheWay(net, id) \cup {b}
      BY <1>2, <1>3 DEF OnTheWay
    <3>2. /\ IsFiniteSet(OnTheWay(net, id)) /\ Cardinality(OnTheWay(net, id)) \in Nat
          /\ applied[id] \in Nat
      BY OnTheWayFinite DEF WInv, CallInv, NetInv, StateType
    <3>3. Cardinality(OnTheWay(net', id)) <= Cardinality(OnTheWay(net, id)) + 1
      <4>1. CASE b \in OnTheWay(net, id)
        <5>1. OnTheWay(net', id) = OnTheWay(net, id)
          BY <3>1, <4>1
        <5> QED BY <3>2, <5>1
      <4>2. CASE b \notin OnTheWay(net, id)
        <5>1. IsFiniteSet(OnTheWay(net, id))
          BY <3>2
        <5>2. Cardinality(OnTheWay(net, id) \cup {b}) = Cardinality(OnTheWay(net, id)) + 1
          BY <4>2, <5>1, FS_AddElement
        <5> QED BY <3>1, <3>2, <5>2
      <4> QED BY <4>1, <4>2
    <3>4. Cardinality(OnTheWay(net', id)) \in Nat
      BY <1>8, OnTheWayFinite DEF NetInv
    <3>5. SentOf(calls[id]) \in Nat
      BY CallFields
    <3> QED BY <1>1, <1>4, <2>1, <2>3, <3>2, <3>3, <3>4, <3>5
  <2> QED BY <2>2, <2>3
<1>10. EffectInv'
  BY <1>3, <1>6 DEF WInv, CallInv, EffectInv, Effect
<1>11. ConfirmedIsCovered'
  BY <1>3, <1>6 DEF WInv, CallInv, ConfirmedIsCovered
<1>12. ScreenInv'
  BY <1>3 DEF WInv, ScreenInv, SuccessIsTrue
<1> QED BY <1>7, <1>8, <1>9, <1>10, <1>11, <1>12 DEF WInv, CallInv

(* One call goes on. *)
LEMMA OneGoesOn ==
  ASSUME WInv, NEW id \in Id, NEW d, GoesOn(calls[id], d), calls' = [calls EXCEPT ![id] = d]
  PROVE  CallsGoOn
<1>1. calls' \in [Id -> MaybeCall]
  BY DEF WInv, StateType, GoesOn
<1>2. calls'[id] = d /\ \A j \in Id \ {id} : calls'[j] = calls[j]
  BY DEF WInv, StateType
<1>3. \A j \in Id : calls[j] \in MaybeCall
  BY DEF WInv, StateType
<1> QED BY <1>1, <1>2, <1>3, GoesOnSame DEF CallsGoOn

(* What has become of the screen: at most one more notice, and that of the *)
(* call id. *)
ScreenGoesOn(id, ok) ==
  /\ wallet' \in {None, "live", "destroyed"}
  /\ screen' \in ScreenType
  /\ Covered(screen', node.balance)
  /\ screen'.notices \subseteq screen.notices \cup {id}
  /\ ~ok => screen'.notices \subseteq screen.notices

LEMMA EndStep ==
  ASSUME WInv, NEW id \in Id, calls[id] \in Call, NEW ok \in BOOLEAN, End(id, ok)
  PROVE  CallsGoOn /\ ScreenGoesOn(id, ok)
<1>1. calls' = [calls EXCEPT ![id] = [calls[id] EXCEPT !.stage = "done", !.attempt = 1,
                                                       !.live = FALSE, !.mounted = FALSE]]
  BY DEF End, WInv, StateType
<1>2. CallsGoOn
  BY <1>1, GoesOnEnded, OneGoesOn
<1>3. /\ screen \in ScreenType /\ Covered(screen, node.balance) /\ node.balance \in Nat
      /\ calls[id].op \in Op
  BY CallFields, AmountType DEF WInv, StateType, ScreenInv, NodeType
<1>4. \/ screen' = screen
      \/ ok /\ screen' = Succeeded(screen, id, calls[id].op)
      \/ screen' = Failed(screen, calls[id].op)
  BY DEF End
<1>5. /\ screen' \in ScreenType /\ Covered(screen', node.balance)
      /\ screen'.notices \subseteq screen.notices \cup {id}
      /\ ~ok => screen'.notices \subseteq screen.notices
  BY <1>3, <1>4, EndedScreen
<1>6. wallet' \in {None, "live", "destroyed"}
  BY DEF End, WInv, StateType
<1> QED BY <1>2, <1>5, <1>6 DEF ScreenGoesOn

LEMMA ScreenStays ==
  ASSUME WInv, UNCHANGED ui, NEW id, NEW ok \in BOOLEAN
  PROVE  ScreenGoesOn(id, ok)
BY DEF WInv, StateType, ScreenInv, ScreenGoesOn, ui

LEMMA ContinueStep ==
  ASSUME WInv, NEW id \in Id, calls[id] \in Call, calls[id].stage = "wait",
         NEW answer, Continue(id, answer)
  PROVE  CallsGoOn /\ ScreenGoesOn(id, Accepted(calls[id].op, answer))
<1>1. Accepted(calls[id].op, answer) \in BOOLEAN
  BY DEF Accepted
<1>2. CASE Retryable(answer) /\ MayRetry(calls[id].attempt)
  <2>1. /\ calls' = [calls EXCEPT ![id] = [calls[id] EXCEPT !.stage = "pause", !.attempt = @ + 1]]
        /\ UNCHANGED ui
    BY <1>2 DEF Continue, WInv, StateType
  <2> QED BY <1>1, <1>2, <2>1, GoesOnPaused, OneGoesOn, ScreenStays
<1>3. CASE ~(Retryable(answer) /\ MayRetry(calls[id].attempt))
  <2>1. End(id, Accepted(calls[id].op, answer))
    BY <1>3 DEF Continue
  <2> QED BY <1>1, <2>1, EndStep
<1> QED BY <1>2, <1>3

LEMMA DeliverStep ==
  ASSUME WInv, NEW r \in net, NEW answer, Deliver(r, answer) \/ UNCHANGED <<calls, ui>>
  PROVE  CallsGoOn /\ ScreenGoesOn(r.id, Accepted(r.op, answer))
<1>1. r.id \in Id /\ calls[r.id] \in Call /\ r.op = calls[r.id].op
  BY DEF WInv, StateType, CallInv, NetInv, Request, MaybeCall
<1>2. CASE UNCHANGED <<calls, ui>>
  <2>1. CallsGoOn
    BY <1>2, CallsKept DEF WInv
  <2>2. Accepted(r.op, answer) \in BOOLEAN
    BY DEF Accepted
  <2> QED BY <1>2, <2>1, <2>2, ScreenStays
<1>3. CASE ~UNCHANGED <<calls, ui>>
  <2>1. calls[r.id].stage = "wait" /\ Continue(r.id, answer)
    BY <1>3 DEF Deliver
  <2> QED BY <1>1, <2>1, ContinueStep
<1> QED BY <1>2, <1>3

LEMMA CallSteps == ASSUME WInv, NEW id \in Id, CallStep(id) PROVE WInv'
<1>1. calls[id] \in Call
  BY DEF CallStep, Running, WInv, StateType, MaybeCall
<1>2. ASSUME NEW stage \in {"nonce", "sign"}, GoesTo(id, stage),
             calls[id].stage \in {"nonce", "sign"}
      PROVE  WInv'
  <2>1. /\ calls' = [calls EXCEPT ![id] = [calls[id] EXCEPT !.stage = stage]]
        /\ UNCHANGED <<node, wallet, screen, net, applied>>
    BY <1>2 DEF GoesTo, ui
  <2>2. CallsGoOn
    BY <1>1, <1>2, <2>1, GoesOnStage, OneGoesOn
  <2> QED BY <2>1, <2>2, QuietScreen DEF WInv, StateType, ScreenInv
<1>3. ASSUME CallsGoOn, ScreenGoesOn(id, FALSE), UNCHANGED <<node, net, applied>> PROVE WInv'
  BY <1>3, QuietScreen DEF ScreenGoesOn
<1>4. CASE GetNonce(id)
  BY <1>1, <1>2, <1>4, FetchStep DEF GetNonce
<1>5. CASE SignTransaction(id)
  <2>1. CASE End(id, FALSE) /\ UNCHANGED <<node, net, applied>>
    BY <1>1, <1>3, <2>1, EndStep
  <2>2. CASE GoesTo(id, "nonce")
    BY <1>2, <1>5, <2>2 DEF SignTransaction
  <2>3. CASE Fetch(id)
    BY <1>1, <1>5, <2>3, FetchStep DEF SignTransaction
  <2> QED BY <1>5, <2>1, <2>2, <2>3 DEF SignTransaction
<1>6. CASE NoAnswer(id)
  <2>1. PICK answer \in {"lost", "timeout"} : Continue(id, answer)
    BY <1>6 DEF NoAnswer
  <2>2. ~Accepted(calls[id].op, answer)
    BY DEF Accepted
  <2>3. CallsGoOn /\ ScreenGoesOn(id, FALSE)
    BY <1>1, <1>6, <2>1, <2>2, ContinueStep DEF NoAnswer, ScreenGoesOn
  <2> QED BY <1>3, <1>6, <2>3 DEF NoAnswer
<1>7. CASE FetchAgain(id)
  BY <1>1, <1>7, FetchStep DEF FetchAgain
<1> QED BY <1>4, <1>5, <1>6, <1>7 DEF CallStep

---------------------------------------------------------------------------
(* The node answers. *)

(* The node carries out what it had not carried out, and remembers it; a   *)
(* transfer, a stake and a claim it carries out never.                     *)
LEMMA VerdictOf ==
  ASSUME StateType, NEW r \in Request
  PROVE  LET v == Verdict(r)
         IN  /\ v.node \in NodeType /\ v.node.balance = node.balance
             /\ v.answer \in {"ok", "noHash", "refused"}
             /\ v.answer = "ok" => r.op \in {"unstake", "vote", "propose"}
             /\ v.answer = "noHash" => r.op = "transfer"
             /\ node.voted => v.node.voted
             /\ node.proposed => v.node.proposed
             /\ v.answer = "ok" /\ r.op = "vote" => ~node.voted /\ v.node.voted
             /\ v.answer = "ok" /\ r.op = "propose" => ~node.proposed /\ v.node.proposed
<1> DEFINE v == Verdict(r)
<1>1. /\ r.op \in {"transfer", "stake", "claim", "unstake", "vote", "propose"}
      /\ r.amount \in Nat
  BY AmountType DEF Request, Op, StakeOps, GovernanceOps, Amount
<1>2. node \in NodeType
  BY DEF StateType
<1>3. CASE r.op \in {"transfer", "stake", "claim"}
  <2>1. v.node = node /\ v.answer \in {"noHash", "refused"}
        /\ (v.answer = "noHash" => r.op = "transfer")
    BY <1>3, NoneVerifies DEF Verdict, TransferVerdict, StakeVerdict, Refused
  <2> QED BY <1>2, <1>3, <2>1
<1>4. CASE r.op = "unstake"
  <2>1. v = UnstakeVerdict(r.amount)
    BY <1>4 DEF Verdict
  <2>2. CASE ~(0 < r.amount /\ r.amount <= node.staked)
    <3>1. v.node = node /\ v.answer = "refused"
      BY <2>1, <2>2 DEF UnstakeVerdict, Refused
    <3> QED BY <1>2, <1>4, <3>1
  <2>3. CASE 0 < r.amount /\ r.amount <= node.staked
    <3>1. v.answer = "ok" /\ v.node = [node EXCEPT !.staked = node.staked - r.amount]
      BY <2>1, <2>3 DEF UnstakeVerdict
    <3>2. node.staked \in 0 .. Stake
      BY <1>2 DEF NodeType
    <3>3. node.staked - r.amount \in 0 .. Stake
      BY <1>1, <2>3, <3>2
    <3>4. v.node \in NodeType /\ v.node.balance = node.balance
          /\ v.node.voted = node.voted /\ v.node.proposed = node.proposed
      BY <1>2, <3>1, <3>3 DEF NodeType
    <3> QED BY <1>4, <3>1, <3>4
  <2> QED BY <2>2, <2>3
<1>5. CASE r.op = "vote"
  <2>1. v = VoteVerdict
    BY <1>5 DEF Verdict
  <2>2. CASE ~(node.status = "VotingPeriod" /\ ~node.voted)
    <3>1. v.node = node /\ v.answer = "refused"
      BY <2>1, <2>2 DEF VoteVerdict, Refused
    <3> QED BY <1>2, <1>5, <3>1
  <2>3. CASE node.status = "VotingPeriod" /\ ~node.voted
    <3>1. v.answer = "ok" /\ v.node = [node EXCEPT !.voted = TRUE]
      BY <2>1, <2>3 DEF VoteVerdict
    <3>2. v.node \in NodeType /\ v.node.balance = node.balance
          /\ v.node.voted /\ v.node.proposed = node.proposed
      BY <1>2, <3>1 DEF NodeType
    <3> QED BY <1>5, <2>3, <3>1, <3>2
  <2> QED BY <2>2, <2>3
<1>6. CASE r.op = "propose"
  <2>1. v = ProposalVerdict
    BY <1>6 DEF Verdict
  <2>2. CASE node.proposed
    <3>1. v.node = node /\ v.answer = "refused"
      BY <2>1, <2>2 DEF ProposalVerdict, Refused
    <3> QED BY <1>2, <1>6, <3>1
  <2>3. CASE ~node.proposed
    <3>1. v.answer = "ok" /\ v.node = [node EXCEPT !.proposed = TRUE]
      BY <2>1, <2>3 DEF ProposalVerdict
    <3>2. v.node \in NodeType /\ v.node.balance = node.balance
          /\ v.node.voted = node.voted /\ v.node.proposed
      BY <1>2, <3>1 DEF NodeType
    <3> QED BY <1>6, <2>3, <3>1, <3>2
  <2> QED BY <2>2, <2>3
<1> QED BY <1>1, <1>3, <1>4, <1>5, <1>6

LEMMA BusyStep == ASSUME WInv, NEW r \in net, NodeBusy(r) PROVE WInv'
<1>1. ~Accepted(r.op, "busy")
  BY DEF Accepted
<1>2. CallsGoOn /\ ScreenGoesOn(r.id, FALSE)
  BY <1>1, DeliverStep DEF NodeBusy, ScreenGoesOn
<1> QED BY <1>2, QuietScreen DEF NodeBusy, ScreenGoesOn

LEMMA HandleStep == ASSUME WInv, NEW r \in net, NodeHandles(r) PROVE WInv'
<1> DEFINE v == Verdict(r)
           done == IF v.answer = "ok" THEN 1 ELSE 0
<1>1. /\ r \in Request /\ r.id \in Id /\ calls[r.id] \in Call
      /\ r.op = calls[r.id].op /\ applied[r.id] \in Nat
  BY DEF WInv, StateType, CallInv, NetInv, Request, MaybeCall
<1>2. /\ v.node \in NodeType /\ v.node.balance = node.balance
      /\ v.answer \in {"ok", "noHash", "refused"}
      /\ v.answer = "ok" => r.op \in {"unstake", "vote", "propose"}
      /\ v.answer = "noHash" => r.op = "transfer"
      /\ node.voted => v.node.voted
      /\ node.proposed => v.node.proposed
      /\ v.answer = "ok" /\ r.op = "vote" => ~node.voted /\ v.node.voted
      /\ v.answer = "ok" /\ r.op = "propose" => ~node.proposed /\ v.node.proposed
  BY <1>1, VerdictOf DEF WInv
<1>3. CallsGoOn /\ ScreenGoesOn(r.id, Accepted(r.op, v.answer))
  BY DeliverStep DEF NodeHandles
<1>4. /\ net' = net \ {r} /\ node' = v.node
      /\ applied' = [applied EXCEPT ![r.id] = IF v.answer = "ok" THEN @ + 1 ELSE @]
  BY DEF NodeHandles
<1> HIDE DEF v
<1>5. /\ applied' \in [Id -> Nat] /\ applied'[r.id] = applied[r.id] + done
      /\ \A id \in Id \ {r.id} : applied'[id] = applied[id]
  BY <1>1, <1>4 DEF WInv, StateType
<1>6. \A id \in Id : /\ (calls'[id] = None) <=> (calls[id] = None)
                     /\ calls[id] # None => /\ calls'[id].op = calls[id].op
                                            /\ calls'[id].amount = calls[id].amount
                     /\ SentOf(calls'[id]) >= SentOf(calls[id])
  BY <1>3 DEF CallsGoOn, GoesOn
<1>7. StateType'
  BY <1>2, <1>3, <1>4, <1>5 DEF WInv, StateType, CallsGoOn, ScreenGoesOn
<1>8. NetInv'
  <2>1. IsFiniteSet(net')
    BY <1>4, FS_Subset DEF WInv, CallInv, NetInv
  <2>2. \A q \in net' : q \in net /\ q.id \in Id
    BY <1>4 DEF WInv, StateType, Request
  <2> QED BY <1>6, <2>1, <2>2 DEF WInv, CallInv, NetInv
<1>9. AttemptInv'
  <2> SUFFICES ASSUME NEW id \in Id
               PROVE  applied'[id] + Cardinality(OnTheWay(net', id)) <= SentOf(calls'[id])
    BY DEF AttemptInv
  <2>1. applied[id] + Cardinality(OnTheWay(net, id)) <= SentOf(calls[id])
    BY DEF WInv, CallInv, AttemptInv
  <2>2. /\ IsFiniteSet(OnTheWay(net, id)) /\ Cardinality(OnTheWay(net, id)) \in Nat
        /\ Cardinality(OnTheWay(net', id)) \in Nat /\ applied[id] \in Nat
    BY <1>8, OnTheWayFinite DEF WInv, CallInv, NetInv, StateType
  <2>3. SentOf(calls[id]) \in Int /\ SentOf(calls'[id]) \in Int
    BY <1>3, CallFields DEF WInv, StateType, CallsGoOn, MaybeCall, SentOf
  <2>4. CASE id # r.id
    <3>1. OnTheWay(net', id) = OnTheWay(net, id)
      BY <1>4, <2>4 DEF OnTheWay
    <3> QED BY <1>5, <1>6, <2>1, <2>2, <2>3, <2>4, <3>1
  <2>5. CASE id = r.id
    <3>1. OnTheWay(net', id) = OnTheWay(net, id) \ {r} /\ r \in OnTheWay(net, id)
      BY <1>4, <2>5 DEF OnTheWay
    <3>2. \A S : IsFiniteSet(S) /\ r \in S => Cardinality(S \ {r}) = Cardinality(S) - 1
      BY FS_RemoveElement
    <3>3. Cardinality(OnTheWay(net', id)) = Cardinality(OnTheWay(net, id)) - 1
      BY <2>2, <3>1, <3>2
    <3> QED BY <1>5, <1>6, <2>1, <2>2, <2>3, <2>5, <3>3
  <2> QED BY <2>4, <2>5
<1>10. EffectInv'
  <2> SUFFICES ASSUME NEW id \in Id, calls[id] # None
               PROVE  Effect(calls'[id], applied'[id], node')
    BY <1>6 DEF EffectInv
  <2>1. Effect(calls[id], applied[id], node) /\ applied[id] \in Nat
    BY DEF WInv, CallInv, EffectInv, StateType
  <2>2. calls'[id].op = calls[id].op
    BY <1>6
  <2>3. CASE id # r.id
    BY <1>2, <1>4, <1>5, <2>1, <2>2, <2>3 DEF Effect
  <2>4. CASE id = r.id
    <3>1. CASE v.answer # "ok"
      BY <1>2, <1>4, <1>5, <2>1, <2>2, <2>4, <3>1 DEF Effect
    <3>2. CASE v.answer = "ok"
      <4>1. applied'[id] = applied[id] + 1 /\ calls[id].op \in {"unstake", "vote", "propose"}
        BY <1>1, <1>2, <1>5, <2>4, <3>2
      <4> QED BY <1>1, <1>2, <1>4, <2>1, <2>2, <2>4, <3>2, <4>1 DEF Effect
    <3> QED BY <3>1, <3>2
  <2> QED BY <2>3, <2>4
<1>11. ConfirmedIsCovered'
  BY <1>2, <1>4, <1>6 DEF WInv, CallInv, ConfirmedIsCovered
<1>12. SuccessIsTrue'
  <2>1. \A id \in screen.notices : id \in Id /\ applied[id] > 0
    BY ScreenFields DEF WInv, ScreenInv, SuccessIsTrue, StateType
  <2>2. \A id \in Id : applied[id] > 0 => applied'[id] > 0
    BY <1>5 DEF WInv, StateType
  <2>3. Accepted(r.op, v.answer) => applied'[r.id] > 0
    BY <1>1, <1>2, <1>5 DEF Accepted, HasSchema, GovernanceOps
  <2> QED BY <1>3, <2>1, <2>2, <2>3 DEF ScreenGoesOn, SuccessIsTrue
<1>13. Covered(screen', node'.balance)
  BY <1>2, <1>3, <1>4 DEF ScreenGoesOn
<1> QED BY <1>7, <1>8, <1>9, <1>10, <1>11, <1>12, <1>13 DEF WInv, CallInv, ScreenInv

---------------------------------------------------------------------------
LEMMA InvStep == WInv /\ [Next]_vars => WInv'
<1> SUFFICES ASSUME WInv, [Next]_vars PROVE WInv'
  OBVIOUS
<1>1. CASE UNCHANGED vars
  <2>1. CallsGoOn
    BY <1>1, CallsKept DEF WInv, vars
  <2> QED BY <1>1, <2>1, QuietScreen DEF vars, WInv, StateType, ScreenInv
<1>2. CASE User
  BY <1>2, LeavingSteps, SendForms, StakeForms, GovernanceForms, Submissions DEF User
<1>3. CASE SessionExpires
  BY <1>3, LeavingSteps
<1>4. CASE \E id \in Id : CallStep(id)
  BY <1>4, CallSteps
<1>5. CASE \E r \in net : NodeHandles(r) \/ NodeBusy(r)
  BY <1>5, HandleStep, BusyStep
<1> QED BY <1>1, <1>2, <1>3, <1>4, <1>5 DEF Next

THEOREM Invariant == Spec => []WInv
BY InitInv, InvStep, PTL DEF Spec

LEMMA AppliedFew ==
  ASSUME WInv, NEW id \in Id
  PROVE  applied[id] <= MaxRetries /\ (calls[id] = None => applied[id] = 0)
<1>1. Cardinality(OnTheWay(net, id)) \in Nat /\ applied[id] \in Nat
  BY OnTheWayFinite DEF WInv, CallInv, NetInv, StateType
<1>2. applied[id] + Cardinality(OnTheWay(net, id)) <= SentOf(calls[id])
  BY DEF WInv, CallInv, AttemptInv
<1>3. CASE calls[id] = None
  BY <1>1, <1>2, <1>3 DEF SentOf
<1>4. CASE calls[id] \in Call
  BY <1>1, <1>2, <1>4, CallFields
<1> QED BY <1>3, <1>4 DEF WInv, StateType, MaybeCall

(* TypeCorrect: every variable of the wallet's requests keeps its type; a  *)
(* request on its way belongs to a call that was made, and the node        *)
(* carries no confirmation out more often than restApi sends it            *)
(* (sultanAPI.ts:204).                                                     *)
THEOREM TypeCorrect == Spec => []WRTypeOK
<1>1. WInv => WRTypeOK
  <2> SUFFICES ASSUME WInv PROVE WRTypeOK
    OBVIOUS
  <2>1. applied \in [Id -> 0 .. MaxRetries]
    <3>1. \A id \in Id : applied[id] \in 0 .. MaxRetries
      BY AppliedFew DEF WInv, StateType
    <3> QED BY <3>1 DEF WInv, StateType
  <2>2. \A r \in net : /\ r \in [id: Id, attempt: 1 .. MaxRetries, op: Op, amount: Amount]
                       /\ calls[r.id] # None
    BY DEF WInv, StateType, CallInv, NetInv, Request
  <2> QED BY <2>1, <2>2 DEF WRTypeOK, WInv, StateType, NodeType, ScreenType, MaybeCall
<1> QED BY <1>1, Invariant, PTL

(* TrueSuccess: a screen never reports a success that the node has not     *)
(* carried out, whichever requests and answers the network loses or        *)
(* delays and whichever screen is open by then (Send.tsx:206,              *)
(* Stake.tsx:275, Governance.tsx:184).                                     *)
THEOREM TrueSuccess == Spec => []SuccessIsTrue
<1>1. WInv => SuccessIsTrue
  BY DEF WInv, ScreenInv
<1> QED BY <1>1, Invariant, PTL

(* FaithfulRequests: every request on its way says what was confirmed,     *)
(* whatever has become of the form since (Stake.tsx:253).                  *)
THEOREM FaithfulRequests == Spec => []SentAsConfirmed
<1>1. WInv => SentAsConfirmed
  BY DEF WInv, CallInv, NetInv, SentAsConfirmed
<1> QED BY <1>1, Invariant, PTL

(* AppliedFewTimes: a confirmed vote or proposal counts once and an        *)
(* unstaking once per attempt, for any number of attempts and of calls     *)
(* (sultanAPI.ts:204).                                                     *)
THEOREM AppliedFewTimes == Spec => []AppliedBounded
<1>1. WInv => AppliedBounded
  <2> SUFFICES ASSUME WInv, NEW id \in Id
               PROVE  applied[id] <= IF calls[id] # None /\ calls[id].op = "unstake"
                                     THEN MaxRetries ELSE 1
    BY DEF AppliedBounded
  <2>1. applied[id] \in Nat
    BY DEF WInv, StateType
  <2>2. CASE calls[id] = None
    BY <2>2, AppliedFew
  <2>3. CASE calls[id] # None /\ calls[id].op = "unstake"
    BY <2>3, AppliedFew
  <2>4. CASE calls[id] # None /\ calls[id].op # "unstake"
    <3>1. calls[id].op \in {"transfer", "stake", "claim", "vote", "propose"}
      BY <2>4, CallFields DEF WInv, StateType, MaybeCall, Op, StakeOps, GovernanceOps
    <3>2. Effect(calls[id], applied[id], node)
      BY <2>4 DEF WInv, CallInv, EffectInv
    <3> QED BY <2>1, <2>4, <3>1, <3>2 DEF Effect
  <2> QED BY <2>2, <2>3, <2>4
<1> QED BY <1>1, Invariant, PTL

(* CoveredConfirmations: an amount the forms let pass is covered by the    *)
(* account, for every balance, stake and unit: a text with commas is read  *)
(* as less than it says (security.ts:751).                                 *)
THEOREM CoveredConfirmations == Spec => []ConfirmedIsCovered
<1>1. WInv => ConfirmedIsCovered
  BY DEF WInv, CallInv
<1> QED BY <1>1, Invariant, PTL

(* FundingClosed: no balance whatever gets past the overview of            *)
(* BecomeValidator while the fixed stake is at least the first amount that *)
(* is shown with a comma (BecomeValidator.tsx:100, 327).                   *)
THEOREM FundingClosed == Spec => []FundingStaysClosed
<1>1. WInv => FundingStaysClosed
  <2> SUFFICES ASSUME WInv, NEW b \in BalanceShown
               PROVE  ~GetStartedOffered(b) /\ ~CanFund(b)
    BY DEF FundingStaysClosed
  <2>1. b \in Nat
    BY ShownText DEF WInv
  <2>2. ParseFloat(FormatSLTN(b)) < Group * Unit /\ ParseFloat(FormatSLTN(b)) \in Nat
    BY <2>1, ShownAmount
  <2>3. Group * Unit \in Nat /\ Group * Unit <= FundAmount
    OBVIOUS
  <2>4. ~GetStartedOffered(b)
    BY <2>2, <2>3 DEF GetStartedOffered, HasMinimumStake
  <2>5. ParseFloat(Plain(FundAmount)) = FundAmount
    <3>1. ~Plain(FundAmount).commas /\ BaseUnits(Plain(FundAmount)) = FundAmount
      BY TextOfAmount
    <3> QED BY <3>1 DEF ParseFloat
  <2>6. ~CanFund(b)
    <3>1. CanFund(b) => ParseFloat(Plain(FundAmount)) <= ParseFloat(FormatSLTN(b))
      BY DEF CanFund, ValidateAmount
    <3>2. FundAmount \in Nat
      OBVIOUS
    <3> QED BY <2>2, <2>3, <2>5, <3>1, <3>2
  <2> QED BY <2>4, <2>6
<1> QED BY <1>1, Invariant, PTL
=============================================================================
