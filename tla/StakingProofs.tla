--------------------------- MODULE StakingProofs ---------------------------
(***************************************************************************)
(* Proofs about Staking for any accounts and validators, any number of     *)
(* requests under way, every rate, threshold and stake.                    *)
(***************************************************************************)
EXTENDS Staking, FiniteSums, SequenceTheorems

(* A request that has the validators locked. *)
Holds(r) ==
  /\ r # Free
  /\ \/ r.at \in {"locked", "insert"}
     \/ r.at = "timed" /\ r.op # "undelegate"
LockInv == \A j \in Job : Holds(job[j]) => lock = j

(* The requests whose validator is not there yet, and those whose is.      *)
Creates(r) == r.op = "create" \/ (r.op = "delegate" /\ r.at = "insert")
Changes(r) ==
  \/ r.op \in {"slash", "unjail"}
  \/ r.op = "delegate" /\ r.at \in {"locked", "timed"}
  \/ r.op = "undelegate" /\ r.at = "reduced"
ValidatorsInv ==
  /\ \A j \in Job : job[j] # Free =>
       /\ Creates(job[j]) => ~Exists(job[j].validator)
       /\ Changes(job[j]) => Exists(job[j].validator)
       /\ job[j].at \in {"register", "insert"} => job[j].validator \in DOMAIN ConsensusStake
  /\ \A d \in Delegator : \A i \in DOMAIN delegations[d] :
       Exists(delegations[d][i].validator)

ProducerInv ==
  /\ producer = "rewards" => seenTotal > 0
  /\ producer # "pay" => matured = << >>

TypeInv == STypeOK /\ LockInv /\ ValidatorsInv /\ ProducerInv

-----------------------------------------------------------------------------
(* Constants and records.                                                  *)

LEMMA Finite == IsFiniteSet(Job) /\ IsFiniteSet(Delegator) /\ IsFiniteSet(Validator)
  BY StakingConstants DEF StakingConstants

LEMMA Numbers ==
  /\ Funds \in [Delegator -> Nat] /\ Amount \subseteq Nat
  /\ SlashPercent \subseteq 1 .. 100 /\ Commission \subseteq 0 .. 100
  /\ UnbondingBlocks \in Nat /\ JailBlocks \in Nat /\ RewardRate \in Nat
  /\ MaxHeight \in Nat /\ MaxRequests \in Nat
  /\ DOMAIN ConsensusStake \subseteq Validator
  /\ \A v \in DOMAIN ConsensusStake : ConsensusStake[v] \in Nat
  /\ SelfStake \subseteq Nat
  BY StakingConstants DEF StakingConstants

(* Division, with quotient and remainder named. *)
LEMMA DivMod ==
  ASSUME NEW x \in Nat, NEW u \in Nat, u > 0
  PROVE  \E q \in Nat, r \in 0 .. u - 1 : q = x \div u /\ u * q + r = x
<1>1. x \div u \in Int /\ x \div u >= 0 /\ x % u \in 0 .. u - 1
  BY SMT
<1>2. PICK q \in Nat : q = x \div u
  BY <1>1
<1>3. PICK r \in 0 .. u - 1 : r = x % u
  BY <1>1
<1>4. u * q + r = x
  BY <1>2, <1>3, SMT
<1> QED BY <1>2, <1>3, <1>4

LEMMA PercentType ==
  ASSUME NEW n \in Nat, NEW p \in Nat
  PROVE  Percent(n, p) \in Nat /\ (p <= 100 => Percent(n, p) <= n)
<1> DEFINE m == n * p
<1>1. m \in Nat
  OBVIOUS
<1>2. p <= 100 => m <= 100 * n
  <2> SUFFICES ASSUME p <= 100 PROVE n * p <= 100 * n
    OBVIOUS
  <2> DEFINE k == 100 - p
  <2>1. k \in Nat /\ n * k \in Nat
    OBVIOUS
  <2>2. n * k = 100 * n - n * p
    OBVIOUS
  <2> QED BY <2>1, <2>2
<1> HIDE DEF m
<1>3. m \div 100 \in Nat /\ (m <= 100 * n => m \div 100 <= n)
  BY <1>1
<1> QED BY <1>2, <1>3 DEF Percent, m

LEMMA MinusType ==
  ASSUME NEW a \in Nat, NEW b \in Nat
  PROVE  Minus(a, b) \in Nat /\ Minus(a, b) <= a /\ (b <= a => Minus(a, b) = a - b)
BY DEF Minus

Requests == Request \cup {Free}

LEMMA RequestFields ==
  ASSUME NEW r \in Request
  PROVE  /\ r # Free /\ r.validator \in Validator /\ r.height \in Nat
         /\ r.op \in {"create", "delegate", "slash", "unjail", "undelegate"}
         /\ r.op = "create" => r \in Creating
         /\ r.op = "delegate" => r \in Delegating
         /\ r.op = "slash" => r \in Slashing
         /\ r.op = "unjail" => r \in Unjailing
         /\ r.op = "undelegate" => r \in Undelegating
BY Sentinels DEF Sentinels, Request, Creating, Delegating, Slashing, Unjailing, Undelegating

(* A request goes from one of its points to another. *)
LEMMA RequestMoves ==
  ASSUME NEW r \in Request, NEW at
  PROVE  LET q == [r EXCEPT !.at = at]
         IN  /\ q.op = r.op /\ q.at = at /\ q.validator = r.validator
             /\ r.op = "create" /\ at \in {"locked", "timed"} => q \in Creating
             /\ r.op = "delegate" /\ at \in {"register", "insert", "start", "locked", "timed"}
                  => q \in Delegating /\ q.amount = r.amount
             /\ r.op = "slash" /\ at \in {"start", "locked", "timed", "queue"} => q \in Slashing
             /\ r.op = "unjail" /\ at \in {"locked", "timed"} => q \in Unjailing
             /\ r.op = "undelegate" /\ at \in {"start", "timed", "reduced", "taken", "queue"}
                  => q \in Undelegating /\ q.amount = r.amount
<1> DEFINE q == [r EXCEPT !.at = at]
<1>1. q.op = r.op /\ q.at = at /\ q.validator = r.validator
  BY DEF Request, Creating, Delegating, Slashing, Unjailing, Undelegating
<1>2. r.op = "create" /\ at \in {"locked", "timed"} => q \in Creating
  BY RequestFields DEF Creating
<1>3. r.op = "delegate" /\ at \in {"register", "insert", "start", "locked", "timed"}
        => q \in Delegating /\ q.amount = r.amount
  BY RequestFields DEF Delegating
<1>4. r.op = "slash" /\ at \in {"start", "locked", "timed", "queue"} => q \in Slashing
  BY RequestFields DEF Slashing
<1>5. r.op = "unjail" /\ at \in {"locked", "timed"} => q \in Unjailing
  BY RequestFields DEF Unjailing
<1>6. r.op = "undelegate" /\ at \in {"start", "timed", "reduced", "taken", "queue"}
        => q \in Undelegating /\ q.amount = r.amount
  BY RequestFields DEF Undelegating
<1> QED BY <1>1, <1>2, <1>3, <1>4, <1>5, <1>6

LEMMA EntryFields ==
  ASSUME NEW e \in ValidatorStake
  PROVE  /\ e # NoValidator
         /\ e.self \in Nat /\ e.delegated \in Nat /\ e.total \in Nat
         /\ e.commission \in 0 .. 100 /\ e.rewards \in Nat
         /\ e.missed \in Nat /\ e.jailed \in BOOLEAN /\ e.until \in Nat
BY Sentinels DEF Sentinels, ValidatorStake

MaybeEntry == ValidatorStake \cup {NoValidator}

(* One entry is written: it is well formed and counts for v alone. *)
LEMMA EntryWritten ==
  ASSUME NEW vs \in [Validator -> MaybeEntry], NEW v \in Validator, NEW e \in ValidatorStake
  PROVE  /\ [vs EXCEPT ![v] = e] \in [Validator -> MaybeEntry]
         /\ \A w \in Validator : [vs EXCEPT ![v] = e][w] = IF w = v THEN e ELSE vs[w]
BY DEF MaybeEntry

-----------------------------------------------------------------------------
(* Types.                                                                  *)

(* A request of j begins, goes on or ends: who holds the lock, and which   *)
(* validators are there.                                                   *)
LEMMA JobGoesOn ==
  ASSUME TypeInv, NEW j \in Job, NEW r \in Requests, job' = [job EXCEPT ![j] = r],
         \/ lock' = lock /\ (Holds(r) => lock = j)
         \/ lock = Free /\ lock' = j
         \/ lock = j /\ lock' = Free /\ ~Holds(r),
         \A v \in Validator : validators[v] # NoValidator => validators'[v] # NoValidator,
         Holds(job[j]) \/ \A v \in Validator : validators'[v] # NoValidator => validators[v] # NoValidator,
         r # Free =>
           /\ Creates(r) => validators'[r.validator] = NoValidator
           /\ Changes(r) => validators'[r.validator] # NoValidator
           /\ r.at \in {"register", "insert"} => r.validator \in DOMAIN ConsensusStake,
         \A d \in Delegator : \A i \in DOMAIN delegations'[d] :
           validators'[delegations'[d][i].validator] # NoValidator
  PROVE  /\ job' \in [Job -> Requests] /\ lock' \in Job \cup {Free}
         /\ LockInv' /\ ValidatorsInv'
<1>1. job \in [Job -> Requests] /\ lock \in Job \cup {Free} /\ Free \notin Job
  BY Sentinels DEF TypeInv, STypeOK, Requests, Sentinels
<1>2. job' \in [Job -> Requests] /\ \A k \in Job : job'[k] = IF k = j THEN r ELSE job[k]
  BY <1>1
<1>3. lock' \in Job \cup {Free}
  BY <1>1
<1>4. LockInv'
  <2> SUFFICES ASSUME NEW k \in Job, Holds(job'[k]) PROVE lock' = k
    BY DEF LockInv, Holds
  <2>1. CASE k = j
    BY <1>1, <1>2, <2>1
  <2>2. CASE k # j
    <3>1. lock = k
      BY <1>2, <2>2 DEF TypeInv, LockInv
    <3> QED BY <1>1, <2>2, <3>1
  <2> QED BY <2>1, <2>2
<1>5. ASSUME NEW k \in Job, job'[k] # Free
      PROVE  /\ Creates(job'[k]) => validators'[job'[k].validator] = NoValidator
             /\ Changes(job'[k]) => validators'[job'[k].validator] # NoValidator
             /\ job'[k].at \in {"register", "insert"} =>
                  job'[k].validator \in DOMAIN ConsensusStake
  <2>1. CASE k = j
    BY <1>2, <1>5, <2>1
  <2>2. CASE k # j
    <3>1. job[k] \in Request /\ job'[k] = job[k]
      BY <1>1, <1>2, <1>5, <2>2 DEF Requests
    <3>2. /\ Creates(job[k]) => validators[job[k].validator] = NoValidator
          /\ Changes(job[k]) => validators[job[k].validator] # NoValidator
          /\ job[k].at \in {"register", "insert"} =>
               job[k].validator \in DOMAIN ConsensusStake
      BY <1>5, <3>1 DEF TypeInv, ValidatorsInv, Exists
    <3>3. job[k].validator \in Validator
      BY <3>1, RequestFields
    <3>4. Creates(job[k]) => Holds(job[k])
      BY <3>1, RequestFields DEF Creates, Holds, Creating
    <3>5. ~(Holds(job[k]) /\ Holds(job[j]))
      BY <2>2 DEF TypeInv, LockInv
    <3> QED BY <3>1, <3>2, <3>3, <3>4, <3>5
  <2> QED BY <2>1, <2>2
<1>6. ValidatorsInv'
  BY <1>5 DEF ValidatorsInv, Exists
<1> QED BY <1>2, <1>3, <1>4, <1>6

(* A step that leaves the books and the producer alone. *)
LEMMA RequestStep ==
  ASSUME TypeInv, NEW j \in Job, NEW r \in Requests, job' = [job EXCEPT ![j] = r],
         \/ lock' = lock /\ (Holds(r) => lock = j)
         \/ lock = Free /\ lock' = j
         \/ lock = j /\ lock' = Free /\ ~Holds(r),
         r # Free =>
           /\ Creates(r) => validators[r.validator] = NoValidator
           /\ Changes(r) => validators[r.validator] # NoValidator
           /\ r.at \in {"register", "insert"} => r.validator \in DOMAIN ConsensusStake,
         UNCHANGED <<bookVars, producerVars, height>>,
         bal' \in [Delegator -> Nat], requests' \in 0 .. MaxRequests, gone' \in Nat
  PROVE  TypeInv'
<1>1. /\ validators' = validators /\ delegations' = delegations /\ unbonding' = unbonding
      /\ total' = total /\ history' = history /\ producer' = producer
      /\ seenTotal' = seenTotal /\ matured' = matured /\ record' = record /\ height' = height
  BY DEF bookVars, producerVars
<1>2. \A d \in Delegator : \A i \in DOMAIN delegations'[d] :
        validators'[delegations'[d][i].validator] # NoValidator
  BY <1>1 DEF TypeInv, ValidatorsInv, Exists
<1>3. /\ job' \in [Job -> Requests] /\ lock' \in Job \cup {Free}
      /\ LockInv' /\ ValidatorsInv'
  BY <1>1, <1>2, JobGoesOn
<1>4. STypeOK'
  BY <1>1, <1>3 DEF TypeInv, STypeOK, Requests
<1>5. ProducerInv'
  BY <1>1 DEF TypeInv, ProducerInv
<1> QED BY <1>3, <1>4, <1>5 DEF TypeInv

LEMMA MayAccept ==
  ASSUME TypeInv, NEW j \in Job, NEW r, Accept(j, r)
  PROVE  /\ job[j] = Free /\ requests' \in 0 .. MaxRequests /\ job' = [job EXCEPT ![j] = r]
         /\ requests' = requests + 1
BY Numbers DEF TypeInv, STypeOK, Accept

LEMMA Accepted ==
  ASSUME TypeInv, NEW j \in Job, NEW v \in Validator,
         \/ \E stake \in SelfStake, c \in Commission : CreateValidator(j, v, stake, c)
         \/ \E d \in Delegator, amt \in Amount :
              DeductForDelegation(j, d, v, amt) \/ Undelegate(j, d, v, amt)
         \/ \E p \in SlashPercent : Slash(j, v, p)
         \/ Unjail(j, v)
  PROVE  TypeInv'
<1>0. bal \in [Delegator -> Nat] /\ gone \in Nat
  BY DEF TypeInv, STypeOK
<1>1. ASSUME NEW stake \in SelfStake, NEW c \in Commission, CreateValidator(j, v, stake, c)
      PROVE  TypeInv'
  <2> DEFINE r == [op |-> "create", at |-> "locked", validator |-> v,
                   stake |-> stake, commission |-> c, height |-> 0]
  <2>1. r \in Creating /\ r \in Requests
    BY Numbers DEF Creating, Request, Requests
  <2>2. Accept(j, r) /\ validators[v] = NoValidator /\ lock = Free /\ lock' = j
    BY <1>1 DEF CreateValidator, Exists, LockValidators
  <2>3. UNCHANGED <<bookVars, producerVars, height, bal, gone>>
    BY <1>1 DEF CreateValidator
  <2>4. r.op = "create" /\ r.at = "locked" /\ r.validator = v
    OBVIOUS
  <2> HIDE DEF r
  <2> QED BY <1>0, <2>1, <2>2, <2>3, <2>4, MayAccept, RequestStep DEF Changes
<1>2. ASSUME NEW d \in Delegator, NEW amt \in Amount, DeductForDelegation(j, d, v, amt)
      PROVE  TypeInv'
  <2> DEFINE r == [op |-> "delegate", validator |-> v, delegator |-> d,
                   amount |-> amt, height |-> 0,
                   at |-> IF v \in DOMAIN ConsensusStake THEN "register" ELSE "start"]
  <2>1. r \in Delegating /\ r \in Requests
    BY DEF Delegating, Request, Requests
  <2>2. Accept(j, r) /\ bal' \in [Delegator -> Nat]
    <3>1. amt \in Nat /\ bal[d] \in Nat /\ bal[d] >= amt /\ bal' = [bal EXCEPT ![d] = @ - amt]
      BY <1>0, <1>2, Numbers DEF DeductForDelegation
    <3>2. bal[d] - amt \in Nat
      BY <3>1
    <3> QED BY <1>0, <1>2, <3>1, <3>2 DEF DeductForDelegation
  <2>3. UNCHANGED <<bookVars, producerVars, height, gone, lock>>
    BY <1>2 DEF DeductForDelegation
  <2>4. r.op = "delegate" /\ r.at \in {"register", "start"} /\ r.validator = v
        /\ (r.at = "register" => v \in DOMAIN ConsensusStake)
    OBVIOUS
  <2> HIDE DEF r
  <2> QED BY <1>0, <2>1, <2>2, <2>3, <2>4, MayAccept, RequestStep DEF Changes, Creates, Holds
<1>3. ASSUME NEW d \in Delegator, NEW amt \in Amount, Undelegate(j, d, v, amt)
      PROVE  TypeInv'
  <2> DEFINE r == [op |-> "undelegate", at |-> "start", validator |-> v,
                   delegator |-> d, amount |-> amt, height |-> 0]
  <2>1. r \in Undelegating /\ r \in Requests
    BY DEF Undelegating, Request, Requests
  <2>2. Accept(j, r) /\ UNCHANGED <<bookVars, producerVars, bal, height, gone, lock>>
    BY <1>3 DEF Undelegate
  <2>3. r.op = "undelegate" /\ r.at = "start" /\ r.validator = v
    OBVIOUS
  <2> HIDE DEF r
  <2> QED BY <1>0, <2>1, <2>2, <2>3, MayAccept, RequestStep DEF Changes, Creates, Holds
<1>4. ASSUME NEW p \in SlashPercent, Slash(j, v, p)
      PROVE  TypeInv'
  <2> DEFINE r == [op |-> "slash", at |-> "start", validator |-> v,
                   percent |-> p, height |-> 0]
  <2>1. r \in Slashing /\ r \in Requests
    BY DEF Slashing, Request, Requests
  <2>2. Accept(j, r) /\ UNCHANGED <<bookVars, producerVars, bal, height, gone, lock>>
        /\ validators[v] # NoValidator
    BY <1>4 DEF Slash, Exists
  <2>3. r.op = "slash" /\ r.at = "start" /\ r.validator = v
    OBVIOUS
  <2> HIDE DEF r
  <2> QED BY <1>0, <2>1, <2>2, <2>3, MayAccept, RequestStep DEF Creates, Holds
<1>5. ASSUME Unjail(j, v)
      PROVE  TypeInv'
  <2> DEFINE r == [op |-> "unjail", at |-> "locked", validator |-> v, height |-> 0]
  <2>1. r \in Unjailing /\ r \in Requests
    BY DEF Unjailing, Request, Requests
  <2>2. Accept(j, r) /\ UNCHANGED <<bookVars, producerVars, bal, height, gone>>
        /\ validators[v] # NoValidator /\ lock = Free /\ lock' = j
    BY <1>5 DEF Unjail, Exists, LockValidators
  <2>3. r.op = "unjail" /\ r.at = "locked" /\ r.validator = v
    OBVIOUS
  <2> HIDE DEF r
  <2> QED BY <1>0, <2>1, <2>2, <2>3, MayAccept, RequestStep DEF Creates
<1> QED BY <1>1, <1>2, <1>3, <1>4, <1>5

(* Requests under way. *)
LEMMA RequestOf ==
  ASSUME TypeInv, NEW j \in Job, job[j] # Free
  PROVE  job[j] \in Request
BY DEF TypeInv, STypeOK

LEMMA WentTo ==
  ASSUME TypeInv, NEW j \in Job, NEW op, NEW at, At(j, op, at), NEW to, GoTo(j, to)
  PROVE  /\ job[j] \in Request /\ job[j].op = op /\ job[j].at = at
         /\ job' = [job EXCEPT ![j] = [job[j] EXCEPT !.at = to]]
<1>1. job[j] \in Request /\ job \in [Job -> Request \cup {Free}]
  BY RequestOf DEF At, TypeInv, STypeOK
<1>2. job' = [job EXCEPT ![j] = [job[j] EXCEPT !.at = to]]
  BY <1>1 DEF GoTo
<1> QED BY <1>1, <1>2 DEF At

LEMMA Returned ==
  ASSUME TypeInv, NEW j \in Job, Return(j)
  PROVE  job' = [job EXCEPT ![j] = Free] /\ Free \in Requests /\ ~Holds(Free)
BY DEF Return, Requests, Holds

(* What TypeInv says of one request. *)
LEMMA RequestInv ==
  ASSUME TypeInv, NEW j \in Job, job[j] # Free
  PROVE  /\ Holds(job[j]) => lock = j
         /\ Creates(job[j]) => validators[job[j].validator] = NoValidator
         /\ Changes(job[j]) => validators[job[j].validator] # NoValidator
         /\ job[j].at \in {"register", "insert"} => job[j].validator \in DOMAIN ConsensusStake
BY DEF TypeInv, LockInv, ValidatorsInv, Exists

LEMMA ReadHeightType == ASSUME TypeInv, NEW j \in Job, ReadHeight(j) PROVE TypeInv'
<1> DEFINE q == job[j]
           r == [q EXCEPT !.at = "timed", !.height = height]
<1>1. q \in Request /\ job \in [Job -> Request \cup {Free}] /\ height \in Nat
  BY RequestOf, Numbers DEF ReadHeight, TypeInv, STypeOK
<1>2. q.at = IF q.op = "undelegate" THEN "start" ELSE "locked"
  BY DEF ReadHeight
<1>3. job' = [job EXCEPT ![j] = r]
  BY <1>1 DEF ReadHeight
<1>4. r \in Request /\ r.op = q.op /\ r.at = "timed" /\ r.validator = q.validator
  <2>1. CASE q.op = "create"
    BY <1>1, <2>1, RequestFields DEF Creating, Request
  <2>2. CASE q.op = "delegate"
    BY <1>1, <2>2, RequestFields DEF Delegating, Request
  <2>3. CASE q.op = "slash"
    BY <1>1, <2>3, RequestFields DEF Slashing, Request
  <2>4. CASE q.op = "unjail"
    BY <1>1, <2>4, RequestFields DEF Unjailing, Request
  <2>5. CASE q.op = "undelegate"
    BY <1>1, <2>5, RequestFields DEF Undelegating, Request
  <2> QED BY <1>1, <2>1, <2>2, <2>3, <2>4, <2>5, RequestFields
<1>5. /\ Holds(q) => lock = j
      /\ Creates(q) => validators[q.validator] = NoValidator
      /\ Changes(q) => validators[q.validator] # NoValidator
  BY <1>1, RequestFields, RequestInv
<1>6. UNCHANGED <<bookVars, producerVars, bal, height, lock, requests, gone>>
  BY DEF ReadHeight
<1>7. bal \in [Delegator -> Nat] /\ gone \in Nat /\ requests \in 0 .. MaxRequests
  BY DEF TypeInv, STypeOK
<1>8. q # Free /\ r # Free
  BY <1>1, <1>4, RequestFields
<1> HIDE DEF r, q
<1>9. /\ Holds(r) => lock = j
      /\ Creates(r) => validators[r.validator] = NoValidator
      /\ Changes(r) => validators[r.validator] # NoValidator
  BY <1>2, <1>4, <1>5, <1>8 DEF Holds, Creates, Changes
<1> QED BY <1>3, <1>4, <1>6, <1>7, <1>9, RequestStep DEF Requests

LEMMA QuietMove ==
  ASSUME TypeInv, NEW j \in Job,
         \/ RegisterValidator(j) \/ LockForDelegation(j) \/ LockForSlash(j)
         \/ RefuseUndelegation(j) \/ RefuseDelegation(j)
  PROVE  TypeInv'
<1>0. /\ bal \in [Delegator -> Nat] /\ gone \in Nat /\ requests \in 0 .. MaxRequests
      /\ lock \in Job \cup {Free}
  BY DEF TypeInv, STypeOK
<1> DEFINE q == job[j]
<1>1. ASSUME RegisterValidator(j) PROVE TypeInv'
  <2>1. PICK to \in {"start", "insert"} :
          /\ GoTo(j, to)
          /\ \/ to = "start" /\ lock' = lock
             \/ /\ to = "insert" /\ lock = Free /\ lock' = j
                /\ validators[q.validator] = NoValidator
    BY <1>1 DEF RegisterValidator, LockValidators, Exists
  <2> DEFINE r == [q EXCEPT !.at = to]
  <2>2. At(j, "delegate", "register") /\ UNCHANGED <<bookVars, producerVars, bal, height, requests, gone>>
    BY <1>1 DEF RegisterValidator
  <2>3. q \in Request /\ q.op = "delegate" /\ q.at = "register" /\ job' = [job EXCEPT ![j] = r]
    BY <2>1, <2>2, WentTo
  <2>4. q.validator \in DOMAIN ConsensusStake
    BY <2>2, <2>3, RequestInv DEF At
  <2>5. r \in Delegating /\ r.op = "delegate" /\ r.at = to /\ r.validator = q.validator
    BY <2>3, RequestMoves
  <2> HIDE DEF q, r
  <2>6. r \in Requests
    BY <2>5 DEF Requests, Request
  <2> QED BY <1>0, <2>1, <2>2, <2>3, <2>4, <2>5, <2>6, RequestStep DEF Changes, Creates, Holds
<1>2. ASSUME LockForDelegation(j) PROVE TypeInv'
  <2> DEFINE r == [q EXCEPT !.at = "locked"]
  <2>1. At(j, "delegate", "start") /\ UNCHANGED <<bookVars, producerVars, bal, height, requests, gone>>
        /\ lock = Free /\ lock' = j /\ GoTo(j, "locked") /\ validators[q.validator] # NoValidator
    BY <1>2 DEF LockForDelegation, MayDelegate, Exists, LockValidators
  <2>2. q \in Request /\ q.op = "delegate" /\ job' = [job EXCEPT ![j] = r]
    BY <2>1, WentTo
  <2>3. r \in Delegating /\ r.op = "delegate" /\ r.at = "locked" /\ r.validator = q.validator
    BY <2>2, RequestMoves
  <2> HIDE DEF q, r
  <2>4. r \in Requests
    BY <2>3 DEF Requests, Request
  <2> QED BY <1>0, <2>1, <2>2, <2>3, <2>4, RequestStep DEF Creates
<1>3. ASSUME LockForSlash(j) PROVE TypeInv'
  <2> DEFINE r == [q EXCEPT !.at = "locked"]
  <2>1. At(j, "slash", "start") /\ UNCHANGED <<bookVars, producerVars, bal, height, requests, gone>>
        /\ lock = Free /\ lock' = j /\ GoTo(j, "locked")
    BY <1>3 DEF LockForSlash, LockValidators
  <2>2. q \in Request /\ q.op = "slash" /\ job' = [job EXCEPT ![j] = r]
    BY <2>1, WentTo
  <2>3. r \in Slashing /\ r.op = "slash" /\ r.at = "locked" /\ r.validator = q.validator
    BY <2>2, RequestMoves
  <2>4. validators[q.validator] # NoValidator
    BY <2>1, <2>2, RequestInv DEF At, Changes
  <2> HIDE DEF q, r
  <2>5. r \in Requests
    BY <2>3 DEF Requests, Request
  <2> QED BY <1>0, <2>1, <2>2, <2>3, <2>4, <2>5, RequestStep DEF Creates
<1>4. ASSUME RefuseUndelegation(j) PROVE TypeInv'
  <2>1. Return(j) /\ UNCHANGED <<bookVars, producerVars, bal, height, lock, requests, gone>>
    BY <1>4 DEF RefuseUndelegation
  <2> QED BY <1>0, <2>1, Returned, RequestStep
<1>5. ASSUME RefuseDelegation(j) PROVE TypeInv'
  <2>1. Return(j) /\ UNCHANGED <<bookVars, producerVars, bal, height, lock, requests>>
        /\ gone' = gone + q.amount /\ At(j, "delegate", "start")
    BY <1>5 DEF RefuseDelegation
  <2>2. q.amount \in Nat
    BY <2>1, RequestOf, RequestFields, Numbers DEF At, Delegating
  <2> QED BY <1>0, <2>1, <2>2, Returned, RequestStep
<1> QED BY <1>1, <1>2, <1>3, <1>4, <1>5

(* A request changes the books. *)
LEMMA BooksStep ==
  ASSUME TypeInv, NEW j \in Job, NEW r \in Requests, job' = [job EXCEPT ![j] = r],
         \/ lock' = lock /\ (Holds(r) => lock = j)
         \/ lock = Free /\ lock' = j
         \/ lock = j /\ lock' = Free /\ ~Holds(r),
         \A v \in Validator : validators[v] # NoValidator => validators'[v] # NoValidator,
         Holds(job[j]) \/ \A v \in Validator : validators'[v] # NoValidator => validators[v] # NoValidator,
         r # Free =>
           /\ Creates(r) => validators'[r.validator] = NoValidator
           /\ Changes(r) => validators'[r.validator] # NoValidator
           /\ r.at \in {"register", "insert"} => r.validator \in DOMAIN ConsensusStake,
         \A d \in Delegator : \A i \in DOMAIN delegations'[d] :
           validators'[delegations'[d][i].validator] # NoValidator,
         UNCHANGED <<producerVars, height, bal>>,
         validators' \in [Validator -> MaybeEntry],
         delegations' \in [Delegator -> Seq(Delegation)],
         unbonding' \in Seq(UnbondingEntry), total' \in Nat, history' \subseteq Validator,
         requests' \in 0 .. MaxRequests, gone' \in Nat
  PROVE  TypeInv'
<1>1. /\ producer' = producer /\ seenTotal' = seenTotal /\ matured' = matured
      /\ record' = record /\ height' = height /\ bal' = bal
  BY DEF producerVars
<1>2. /\ job' \in [Job -> Requests] /\ lock' \in Job \cup {Free}
      /\ LockInv' /\ ValidatorsInv'
  BY JobGoesOn
<1>3. STypeOK'
  BY <1>1, <1>2 DEF TypeInv, STypeOK, Requests, MaybeEntry
<1>4. ProducerInv'
  BY <1>1 DEF TypeInv, ProducerInv
<1> QED BY <1>2, <1>3, <1>4 DEF TypeInv

(* An entry is written for v, with the delegations as they are. *)
LEMMA EntryStep ==
  ASSUME TypeInv, NEW j \in Job, NEW r \in Requests, job' = [job EXCEPT ![j] = r],
         \/ lock' = lock /\ (Holds(r) => lock = j)
         \/ lock = j /\ lock' = Free /\ ~Holds(r),
         NEW v \in Validator, NEW e \in ValidatorStake,
         validators' = [validators EXCEPT ![v] = e],
         Holds(job[j]) \/ validators[v] # NoValidator,
         r # Free => ~Creates(r) /\ ~Changes(r) /\ r.at \notin {"register", "insert"},
         UNCHANGED <<producerVars, height, bal, delegations, unbonding, history, gone>>,
         total' \in Nat, requests' \in 0 .. MaxRequests
  PROVE  TypeInv'
<1>1. /\ validators \in [Validator -> MaybeEntry] /\ delegations \in [Delegator -> Seq(Delegation)]
      /\ unbonding \in Seq(UnbondingEntry) /\ history \subseteq Validator /\ gone \in Nat
  BY DEF TypeInv, STypeOK, MaybeEntry
<1>2. /\ validators' \in [Validator -> MaybeEntry]
      /\ \A w \in Validator : validators'[w] = IF w = v THEN e ELSE validators[w]
  BY <1>1, EntryWritten
<1>3. e # NoValidator
  BY EntryFields
<1>4. ASSUME NEW d \in Delegator, NEW i \in DOMAIN delegations[d]
      PROVE  validators'[delegations[d][i].validator] # NoValidator
  <2>1. delegations[d][i].validator \in Validator
    <3>1. delegations[d] \in Seq(Delegation)
      BY <1>1
    <3>2. delegations[d][i] \in Delegation
      BY <3>1
    <3> QED BY <3>2 DEF Delegation
  <2>2. validators[delegations[d][i].validator] # NoValidator
    BY DEF TypeInv, ValidatorsInv, Exists
  <2> QED BY <1>2, <1>3, <2>1, <2>2
<1>5. /\ \A w \in Validator : validators[w] # NoValidator => validators'[w] # NoValidator
      /\ Holds(job[j]) \/ \A w \in Validator : validators'[w] # NoValidator => validators[w] # NoValidator
  BY <1>2, <1>3
<1>6. /\ delegations' = delegations /\ unbonding' = unbonding /\ history' = history /\ gone' = gone
      /\ UNCHANGED <<producerVars, height, bal>>
  OBVIOUS
<1>7. \A d \in Delegator : \A i \in DOMAIN delegations'[d] :
        validators'[delegations'[d][i].validator] # NoValidator
  BY <1>4, <1>6
<1> QED BY <1>1, <1>2, <1>5, <1>6, <1>7, BooksStep

(* create_validator, by itself or for handle_delegate. *)
LEMMA InsertFacts ==
  ASSUME TypeInv, NEW j \in Job, InsertValidator(j) \/ InsertRegistered(j)
  PROVE  \E e \in ValidatorStake, r \in Requests :
           /\ validators' = [validators EXCEPT ![job[j].validator] = e]
           /\ e.delegated = 0 /\ e.total = e.self /\ total' = total + e.total
           /\ Holds(job[j]) /\ job[j] \in Request /\ validators[job[j].validator] = NoValidator
           /\ job' = [job EXCEPT ![j] = r] /\ lock = j /\ lock' = Free
           /\ \/ job[j].op = "create" /\ r = Free
              \/ /\ job[j].op = "delegate" /\ job[j].at = "insert"
                 /\ r = [job[j] EXCEPT !.at = "start"]
           /\ UNCHANGED <<producerVars, height, bal, delegations, unbonding, history, gone, requests>>
<1> DEFINE q == job[j]
<1>1. ASSUME InsertValidator(j)
      PROVE  LET e == NewValidator(q.stake, q.commission)
             IN  /\ e \in ValidatorStake /\ validators' = [validators EXCEPT ![q.validator] = e]
                 /\ e.delegated = 0 /\ e.total = e.self /\ total' = total + e.total
                 /\ Holds(q) /\ q \in Request /\ validators[q.validator] = NoValidator
                 /\ job' = [job EXCEPT ![j] = Free] /\ lock = j /\ lock' = Free
                 /\ q.op = "create"
                 /\ UNCHANGED <<producerVars, height, bal, delegations, unbonding, history, gone, requests>>
  <2>1. /\ At(j, "create", "timed") /\ Unlock(j) /\ Return(j)
        /\ validators' = [validators EXCEPT ![q.validator] = NewValidator(q.stake, q.commission)]
        /\ total' = total + q.stake
        /\ UNCHANGED <<producerVars, height, bal, delegations, unbonding, history, gone, requests>>
    BY <1>1 DEF InsertValidator
  <2>2. q \in Creating /\ q \in Request /\ q # Free /\ q.at = "timed" /\ q.op = "create"
    BY <2>1, RequestOf, RequestFields DEF At
  <2>3. q.stake \in Nat /\ q.commission \in 0 .. 100
    BY <2>2, Numbers DEF Creating
  <2>4. Holds(q) /\ validators[q.validator] = NoValidator
    BY <2>2, RequestInv DEF Holds, Creates
  <2> HIDE DEF q
  <2> QED BY <2>1, <2>2, <2>3, <2>4, Returned DEF NewValidator, ValidatorStake, Unlock
<1>2. ASSUME InsertRegistered(j)
      PROVE  LET e == NewValidator(ConsensusStake[q.validator], DefaultCommission)
                 r == [q EXCEPT !.at = "start"]
             IN  /\ e \in ValidatorStake /\ validators' = [validators EXCEPT ![q.validator] = e]
                 /\ e.delegated = 0 /\ e.total = e.self /\ total' = total + e.total
                 /\ Holds(q) /\ q \in Request /\ validators[q.validator] = NoValidator
                 /\ r \in Request /\ job' = [job EXCEPT ![j] = r] /\ lock = j /\ lock' = Free
                 /\ q.op = "delegate" /\ q.at = "insert"
                 /\ UNCHANGED <<producerVars, height, bal, delegations, unbonding, history, gone, requests>>
  <2> DEFINE c == ConsensusStake[q.validator]
             r == [q EXCEPT !.at = "start"]
  <2>1. /\ At(j, "delegate", "insert") /\ Unlock(j) /\ GoTo(j, "start")
        /\ validators' = [validators EXCEPT ![q.validator] = NewValidator(c, DefaultCommission)]
        /\ total' = total + c
        /\ UNCHANGED <<producerVars, height, bal, delegations, unbonding, history, gone, requests>>
    BY <1>2 DEF InsertRegistered
  <2>2. q \in Request /\ q # Free /\ q.at = "insert" /\ q.op = "delegate" /\ job' = [job EXCEPT ![j] = r]
    BY <2>1, WentTo DEF At
  <2>3. c \in Nat /\ DefaultCommission \in 0 .. 100
    BY <2>2, RequestInv, Numbers DEF DefaultCommission
  <2>4. Holds(q) /\ validators[q.validator] = NoValidator
    BY <2>2, RequestInv DEF Holds, Creates
  <2>5. r \in Request
    BY <2>2, RequestMoves DEF Request
  <2> HIDE DEF q, r, c
  <2>6. NewValidator(c, DefaultCommission) \in ValidatorStake
    BY <2>3 DEF NewValidator, ValidatorStake
  <2> QED BY <2>1, <2>2, <2>4, <2>5, <2>6 DEF NewValidator, Unlock, c, r
<1>3. CASE InsertValidator(j)
  BY <1>1, <1>3 DEF Requests
<1>4. CASE InsertRegistered(j)
  BY <1>2, <1>4 DEF Requests
<1> QED BY <1>3, <1>4

LEMMA InsertType ==
  ASSUME TypeInv, NEW j \in Job, InsertValidator(j) \/ InsertRegistered(j)
  PROVE  TypeInv'
<1> DEFINE v == job[j].validator
<1>1. PICK e \in ValidatorStake : \E r \in Requests :
           /\ validators' = [validators EXCEPT ![job[j].validator] = e]
           /\ e.delegated = 0 /\ e.total = e.self /\ total' = total + e.total
           /\ Holds(job[j]) /\ job[j] \in Request /\ validators[job[j].validator] = NoValidator
           /\ job' = [job EXCEPT ![j] = r] /\ lock = j /\ lock' = Free
           /\ \/ job[j].op = "create" /\ r = Free
              \/ /\ job[j].op = "delegate" /\ job[j].at = "insert"
                 /\ r = [job[j] EXCEPT !.at = "start"]
           /\ UNCHANGED <<producerVars, height, bal, delegations, unbonding, history, gone, requests>>
  BY InsertFacts
<1>2. PICK r \in Requests :
           /\ validators' = [validators EXCEPT ![v] = e]
           /\ total' = total + e.total
           /\ Holds(job[j]) /\ job[j] \in Request
           /\ job' = [job EXCEPT ![j] = r] /\ lock = j /\ lock' = Free
           /\ \/ job[j].op = "create" /\ r = Free
              \/ /\ job[j].op = "delegate" /\ job[j].at = "insert"
                 /\ r = [job[j] EXCEPT !.at = "start"]
           /\ UNCHANGED <<producerVars, height, bal, delegations, unbonding, history, gone, requests>>
  BY <1>1
<1>3. r # Free => r.op = "delegate" /\ r.at = "start"
  <2>1. [job[j] EXCEPT !.at = "start"].op = job[j].op /\ [job[j] EXCEPT !.at = "start"].at = "start"
    BY <1>2, RequestMoves
  <2> QED BY <1>2, <2>1
<1>4. total' \in Nat /\ requests' \in 0 .. MaxRequests
  BY <1>2, EntryFields DEF TypeInv, STypeOK
<1>5. v \in Validator
  BY <1>2, RequestFields
<1> QED BY <1>2, <1>3, <1>4, <1>5, EntryStep DEF Creates, Changes, Holds

(* The entry of a validator that is delegated amt more. *)
Raised(e, amt) == [e EXCEPT !.delegated = @ + amt, !.total = @ + amt]

LEMMA RaisedEntry ==
  ASSUME NEW e \in ValidatorStake, NEW amt \in Nat
  PROVE  /\ Raised(e, amt) \in ValidatorStake /\ Raised(e, amt).self = e.self
         /\ Raised(e, amt).delegated = e.delegated + amt /\ Raised(e, amt).total = e.total + amt
<1>1. e.delegated + amt \in Nat /\ e.total + amt \in Nat
  BY EntryFields
<1> QED BY <1>1 DEF Raised, ValidatorStake

LEMMA RelievedEntry ==
  ASSUME NEW e \in ValidatorStake, NEW amt \in Nat
  PROVE  /\ Relieved(e, amt) \in ValidatorStake /\ Relieved(e, amt).self = e.self
         /\ Relieved(e, amt).delegated = Minus(e.delegated, amt)
         /\ Relieved(e, amt).total = Minus(e.total, amt)
<1>1. Minus(e.delegated, amt) \in Nat /\ Minus(e.total, amt) \in Nat
  BY EntryFields, MinusType
<1> QED BY <1>1 DEF Relieved, ValidatorStake

LEMMA SlashedEntry ==
  ASSUME NEW e \in ValidatorStake, NEW amt \in Nat, NEW until \in Nat
  PROVE  /\ Slashed(e, amt, until) \in ValidatorStake
         /\ Slashed(e, amt, until).total = Minus(e.total, amt)
         /\ Slashed(e, amt, until).delegated = e.delegated
<1>1. Minus(e.self, amt) \in Nat /\ Minus(e.total, amt) \in Nat
  BY EntryFields, MinusType
<1> QED BY <1>1 DEF Slashed, ValidatorStake

(* delegate *)
NewDelegation(r) == [validator |-> r.validator, amount |-> r.amount, rewards |-> 0]
LEMMA DelegateFacts ==
  ASSUME TypeInv, NEW j \in Job, Delegate(j)
  PROVE  LET r == job[j]
             v == r.validator
         IN  /\ r \in Delegating /\ r \in Request /\ r # Free /\ r.op = "delegate" /\ r.at = "timed"
             /\ v \in Validator /\ r.delegator \in Delegator /\ r.amount \in Nat
             /\ validators[v] \in ValidatorStake /\ Holds(r) /\ NewDelegation(r) \in Delegation
             /\ validators' = [validators EXCEPT ![v] = Raised(validators[v], r.amount)]
             /\ delegations' = [delegations EXCEPT ![r.delegator] =
                                  Append(delegations[r.delegator], NewDelegation(r))]
             /\ total' = total + r.amount /\ lock = j /\ lock' = Free
             /\ job' = [job EXCEPT ![j] = Free]
             /\ UNCHANGED <<unbonding, history, producerVars, bal, height, requests, gone>>
<1> DEFINE r == job[j]
           v == r.validator
<1>1. At(j, "delegate", "timed") /\ Unlock(j) /\ Return(j)
  BY DEF Delegate
<1>2. r \in Delegating /\ r \in Request /\ r # Free /\ r.op = "delegate" /\ r.at = "timed"
  BY <1>1, RequestOf, RequestFields DEF At
<1>3. v \in Validator /\ r.delegator \in Delegator /\ r.amount \in Nat
  BY <1>2, Numbers DEF Delegating
<1>4. validators[v] \in ValidatorStake /\ Holds(r)
  BY <1>2, <1>3, RequestInv DEF Holds, Changes, TypeInv, STypeOK
<1>5. validators \in [Validator -> MaybeEntry]
  BY DEF TypeInv, STypeOK, MaybeEntry
<1>6. validators' = [validators EXCEPT ![v] = Raised(validators[v], r.amount)]
  <2>1. validators' = [validators EXCEPT ![v].delegated = @ + r.amount, ![v].total = @ + r.amount]
    BY DEF Delegate
  <2> QED BY <1>3, <1>4, <1>5, <2>1 DEF Raised
<1>7. NewDelegation(r) \in Delegation
  BY <1>3 DEF NewDelegation, Delegation
<1>8. delegations' = [delegations EXCEPT ![r.delegator] =
                        Append(delegations[r.delegator], NewDelegation(r))]
  BY DEF Delegate, NewDelegation, TypeInv, STypeOK
<1>9. total' = total + r.amount
      /\ UNCHANGED <<unbonding, history, producerVars, bal, height, requests, gone>>
  BY DEF Delegate
<1> QED BY <1>1, <1>2, <1>3, <1>4, <1>6, <1>7, <1>8, <1>9, Returned DEF Unlock

LEMMA DelegateType == ASSUME TypeInv, NEW j \in Job, Delegate(j) PROVE TypeInv'
<1> DEFINE r == job[j]
           v == r.validator
           e == Raised(validators[v], r.amount)
           x == NewDelegation(r)
<1>1. /\ r \in Request /\ v \in Validator /\ r.delegator \in Delegator /\ r.amount \in Nat
      /\ validators[v] \in ValidatorStake /\ Holds(r) /\ x \in Delegation
      /\ validators' = [validators EXCEPT ![v] = e]
      /\ delegations' = [delegations EXCEPT ![r.delegator] = Append(delegations[r.delegator], x)]
      /\ total' = total + r.amount /\ lock = j /\ lock' = Free
      /\ job' = [job EXCEPT ![j] = Free]
      /\ unbonding' = unbonding /\ history' = history /\ gone' = gone /\ requests' = requests
      /\ UNCHANGED <<producerVars, height, bal>>
  BY DelegateFacts
<1>2. e \in ValidatorStake
  BY <1>1, RaisedEntry
<1>3. x.validator = v
  BY DEF NewDelegation
<1>4. /\ validators \in [Validator -> MaybeEntry] /\ delegations \in [Delegator -> Seq(Delegation)]
      /\ unbonding \in Seq(UnbondingEntry) /\ history \subseteq Validator /\ gone \in Nat
      /\ total \in Nat /\ requests \in 0 .. MaxRequests
  BY DEF TypeInv, STypeOK, MaybeEntry
<1> HIDE DEF r, v, e, x
<1>5. /\ validators' \in [Validator -> MaybeEntry]
      /\ \A w \in Validator : validators'[w] = IF w = v THEN e ELSE validators[w]
      /\ e # NoValidator
  BY <1>1, <1>2, <1>4, EntryWritten, EntryFields
<1>6. ASSUME NEW d \in Delegator
      PROVE  /\ delegations'[d] \in Seq(Delegation)
             /\ \A i \in DOMAIN delegations'[d] :
                  validators'[delegations'[d][i].validator] # NoValidator
  <2>1. delegations[d] \in Seq(Delegation)
    BY <1>4
  <2>2. \A i \in DOMAIN delegations[d] : delegations[d][i].validator \in Validator
                                         /\ validators[delegations[d][i].validator] # NoValidator
    <3> SUFFICES ASSUME NEW i \in DOMAIN delegations[d]
                 PROVE  delegations[d][i].validator \in Validator
                        /\ validators[delegations[d][i].validator] # NoValidator
      OBVIOUS
    <3>1. delegations[d][i] \in Delegation
      BY <2>1
    <3> QED BY <3>1 DEF TypeInv, ValidatorsInv, Exists, Delegation
  <2>3. CASE d # r.delegator
    BY <1>1, <1>4, <1>5, <2>1, <2>2, <2>3
  <2>4. CASE d = r.delegator
    <3>1. delegations'[d] = Append(delegations[d], x)
      BY <1>1, <1>4, <2>4
    <3>2. /\ Append(delegations[d], x) \in Seq(Delegation)
          /\ Len(Append(delegations[d], x)) = Len(delegations[d]) + 1
          /\ \A i \in 1 .. Len(delegations[d]) : Append(delegations[d], x)[i] = delegations[d][i]
          /\ Append(delegations[d], x)[Len(delegations[d]) + 1] = x
      BY <1>1, <2>1
    <3>3. ASSUME NEW i \in DOMAIN delegations'[d]
          PROVE  validators'[delegations'[d][i].validator] # NoValidator
      <4>1. i \in 1 .. Len(delegations[d]) \/ i = Len(delegations[d]) + 1
        BY <2>1, <3>1, <3>2
      <4>2. CASE i \in 1 .. Len(delegations[d])
        <5>1. delegations'[d][i] = delegations[d][i] /\ i \in DOMAIN delegations[d]
          BY <2>1, <3>1, <3>2, <4>2
        <5> QED BY <1>5, <2>2, <5>1
      <4>3. CASE i = Len(delegations[d]) + 1
        BY <1>1, <1>3, <1>5, <3>1, <3>2, <4>3
      <4> QED BY <4>1, <4>2, <4>3
    <3> QED BY <3>1, <3>2, <3>3
  <2> QED BY <2>3, <2>4
<1>7. delegations' \in [Delegator -> Seq(Delegation)]
  BY <1>1, <1>4, <1>6
<1>8. \A d \in Delegator : \A i \in DOMAIN delegations'[d] :
        validators'[delegations'[d][i].validator] # NoValidator
  BY <1>6
<1>9. /\ \A w \in Validator : validators[w] # NoValidator => validators'[w] # NoValidator
      /\ Holds(job[j]) /\ Free \in Requests /\ ~Holds(Free)
  BY <1>1, <1>5 DEF Requests, Holds, r
<1>10. total' \in Nat
  BY <1>1, <1>4
<1> QED BY <1>1, <1>4, <1>5, <1>7, <1>8, <1>9, <1>10, BooksStep

(* undelegate *)
LEMMA NatMinimum ==
  ASSUME NEW S \in SUBSET Nat, S # {}
  PROVE  Min(S) \in S
<1> DEFINE P == Nat \ S
<1>1. \E x \in S : \A y \in S : x <= y
  <2> SUFFICES ASSUME \A x \in S : \E y \in S : y < x PROVE FALSE
    OBVIOUS
  <2>1. \A n \in Nat : (\A m \in 0 .. n - 1 : m \in P) => n \in P
    <3> SUFFICES ASSUME NEW n \in Nat, \A m \in 0 .. n - 1 : m \in P, n \in S PROVE FALSE
      OBVIOUS
    <3>1. PICK y \in S : y < n
      OBVIOUS
    <3>2. y \in 0 .. n - 1
      BY <3>1
    <3> QED BY <3>2
  <2> HIDE DEF P
  <2>2. \A n \in Nat : n \in P
    BY <2>1, StrongInduction
  <2> QED BY <2>2 DEF P
<1> QED BY <1>1 DEF Min

(* One delegation of a list changes its amount. *)
Reduced(s, i, amt) == [s EXCEPT ![i].amount = @ - amt]

LEMMA ReducedList ==
  ASSUME NEW s \in Seq(Delegation), NEW i \in DOMAIN s, NEW amt \in Nat, s[i].amount >= amt
  PROVE  LET t == Reduced(s, i, amt)
         IN  /\ t \in Seq(Delegation) /\ Len(t) = Len(s) /\ DOMAIN t = DOMAIN s
             /\ \A k \in DOMAIN s : t[k].validator = s[k].validator
             /\ \A k \in DOMAIN s \ {i} : t[k] = s[k]
             /\ t[i].amount = s[i].amount - amt
<1> DEFINE t == Reduced(s, i, amt)
<1>1. DOMAIN s = 1 .. Len(s) /\ Len(s) \in Nat /\ s \in [1 .. Len(s) -> Delegation]
  OBVIOUS
<1>2. s[i] \in Delegation /\ s[i].amount \in Nat /\ s[i].amount - amt \in Nat
  BY <1>1 DEF Delegation
<1>3. t = [s EXCEPT ![i] = [s[i] EXCEPT !.amount = s[i].amount - amt]]
  BY DEF Reduced
<1>4. /\ [s[i] EXCEPT !.amount = s[i].amount - amt] \in Delegation
      /\ [s[i] EXCEPT !.amount = s[i].amount - amt].validator = s[i].validator
      /\ [s[i] EXCEPT !.amount = s[i].amount - amt].amount = s[i].amount - amt
  BY <1>2 DEF Delegation
<1>5. t \in [1 .. Len(s) -> Delegation]
  BY <1>1, <1>3, <1>4
<1>6. t \in Seq(Delegation) /\ Len(t) = Len(s)
  BY <1>1, <1>5
<1>7. /\ \A k \in DOMAIN s \ {i} : t[k] = s[k]
      /\ t[i] = [s[i] EXCEPT !.amount = s[i].amount - amt]
  BY <1>1, <1>3
<1> QED BY <1>1, <1>4, <1>5, <1>6, <1>7

LEMMA ReduceFacts ==
  ASSUME TypeInv, NEW j \in Job, ReduceDelegation(j)
  PROVE  LET r == job[j]
             d == r.delegator
             i == FirstDelegation(d, r.validator)
         IN  /\ r \in Undelegating /\ r \in Request /\ r.op = "undelegate" /\ r.at = "timed"
             /\ d \in Delegator /\ r.amount \in Nat /\ i \in Own(d, r.validator)
             /\ delegations[d] \in Seq(Delegation) /\ delegations[d][i].amount >= r.amount
             /\ delegations' = [delegations EXCEPT ![d] = Reduced(delegations[d], i, r.amount)]
             /\ job' = [job EXCEPT ![j] = [r EXCEPT !.at = "reduced"]]
             /\ UNCHANGED <<validators, unbonding, total, history, producerVars, bal,
                            height, lock, requests, gone>>
<1> DEFINE r == job[j]
           d == r.delegator
           i == FirstDelegation(d, r.validator)
<1>1. /\ At(j, "undelegate", "timed") /\ CanReduce(r) /\ GoTo(j, "reduced")
      /\ delegations' = [delegations EXCEPT ![d][i].amount = @ - r.amount]
      /\ UNCHANGED <<validators, unbonding, total, history, producerVars, bal,
                     height, lock, requests, gone>>
  BY DEF ReduceDelegation
<1>2. /\ r \in Request /\ r.op = "undelegate" /\ r.at = "timed" /\ r \in Undelegating
      /\ job' = [job EXCEPT ![j] = [r EXCEPT !.at = "reduced"]]
  BY <1>1, WentTo, RequestFields
<1>3. d \in Delegator /\ r.amount \in Nat
  BY <1>2, Numbers DEF Undelegating
<1>4. i # 0 /\ delegations[d][i].amount >= r.amount
  BY <1>1 DEF CanReduce
<1>5. delegations \in [Delegator -> Seq(Delegation)]
  BY DEF TypeInv, STypeOK
<1>6. i \in Own(d, r.validator)
  <2>1. Own(d, r.validator) # {} /\ i = Min(Own(d, r.validator))
    BY <1>4 DEF FirstDelegation
  <2>2. Own(d, r.validator) \in SUBSET Nat
    <3>1. DOMAIN delegations[d] \subseteq Nat
      BY <1>3, <1>5
    <3> QED BY <3>1 DEF Own
  <2> QED BY <2>1, <2>2, NatMinimum
<1>7. delegations' = [delegations EXCEPT ![d] = Reduced(delegations[d], i, r.amount)]
  BY <1>1, <1>3, <1>5 DEF Reduced
<1> QED BY <1>1, <1>2, <1>3, <1>4, <1>5, <1>6, <1>7

LEMMA ReduceType == ASSUME TypeInv, NEW j \in Job, ReduceDelegation(j) PROVE TypeInv'
<1> DEFINE q == job[j]
           d == q.delegator
           i == FirstDelegation(d, q.validator)
           s == delegations[d]
           t == Reduced(s, i, q.amount)
           r == [q EXCEPT !.at = "reduced"]
<1>1. /\ q \in Request /\ q.op = "undelegate" /\ q.at = "timed" /\ d \in Delegator
      /\ q.amount \in Nat /\ i \in Own(d, q.validator) /\ s \in Seq(Delegation)
      /\ s[i].amount >= q.amount /\ delegations' = [delegations EXCEPT ![d] = t]
      /\ job' = [job EXCEPT ![j] = r]
      /\ validators' = validators /\ unbonding' = unbonding /\ total' = total
      /\ history' = history /\ gone' = gone /\ requests' = requests /\ lock' = lock
      /\ UNCHANGED <<producerVars, bal, height>>
  BY ReduceFacts
<1>2. i \in DOMAIN s /\ s[i].validator = q.validator
  BY <1>1 DEF Own
<1>3. /\ t \in Seq(Delegation) /\ DOMAIN t = DOMAIN s
      /\ \A k \in DOMAIN s : t[k].validator = s[k].validator
  BY <1>1, <1>2, ReducedList
<1>4. /\ validators \in [Validator -> MaybeEntry] /\ delegations \in [Delegator -> Seq(Delegation)]
      /\ unbonding \in Seq(UnbondingEntry) /\ history \subseteq Validator /\ gone \in Nat
      /\ total \in Nat /\ requests \in 0 .. MaxRequests
  BY DEF TypeInv, STypeOK, MaybeEntry
<1>5. \A f \in Delegator : \A k \in DOMAIN delegations[f] :
        validators[delegations[f][k].validator] # NoValidator
  BY DEF TypeInv, ValidatorsInv, Exists
<1>6. validators[q.validator] # NoValidator
  BY <1>1, <1>2, <1>5
<1>7. r \in Undelegating /\ r.op = "undelegate" /\ r.at = "reduced" /\ r.validator = q.validator
  BY <1>1, RequestMoves
<1> HIDE DEF q, d, i, s, t, r
<1>8. delegations' \in [Delegator -> Seq(Delegation)]
  BY <1>1, <1>3, <1>4
<1>9. \A f \in Delegator : \A k \in DOMAIN delegations'[f] :
        validators'[delegations'[f][k].validator] # NoValidator
  BY <1>1, <1>3, <1>4, <1>5 DEF s
<1>10. r \in Requests /\ ~Holds(r)
  BY <1>7 DEF Requests, Request, Holds
<1> QED BY <1>1, <1>4, <1>6, <1>7, <1>8, <1>9, <1>10, BooksStep DEF Creates

LEMMA RelieveFacts ==
  ASSUME TypeInv, NEW j \in Job, ReduceValidator(j)
  PROVE  LET r == job[j]
             v == r.validator
         IN  /\ r \in Undelegating /\ r \in Request /\ r.op = "undelegate" /\ r.at = "reduced"
             /\ v \in Validator /\ r.amount \in Nat /\ validators[v] \in ValidatorStake
             /\ validators' = [validators EXCEPT ![v] = Relieved(validators[v], r.amount)]
             /\ job' = [job EXCEPT ![j] = [r EXCEPT !.at = "taken"]]
             /\ UNCHANGED <<delegations, unbonding, total, history, producerVars, bal,
                            height, lock, requests, gone>>
<1> DEFINE r == job[j]
           v == r.validator
<1>1. /\ At(j, "undelegate", "reduced") /\ GoTo(j, "taken")
      /\ validators' = [validators EXCEPT ![v] = Relieved(validators[v], r.amount)]
      /\ UNCHANGED <<delegations, unbonding, total, history, producerVars, bal,
                     height, lock, requests, gone>>
  BY DEF ReduceValidator
<1>2. /\ r \in Request /\ r.op = "undelegate" /\ r.at = "reduced" /\ r \in Undelegating
      /\ job' = [job EXCEPT ![j] = [r EXCEPT !.at = "taken"]]
  BY <1>1, WentTo, RequestFields
<1>3. v \in Validator /\ r.amount \in Nat
  BY <1>2, Numbers DEF Undelegating
<1>4. validators[v] \in ValidatorStake
  BY <1>1, <1>2, <1>3, RequestInv DEF At, Changes, TypeInv, STypeOK
<1> QED BY <1>1, <1>2, <1>3, <1>4

LEMMA RelieveType == ASSUME TypeInv, NEW j \in Job, ReduceValidator(j) PROVE TypeInv'
<1> DEFINE q == job[j]
           v == q.validator
           e == Relieved(validators[v], q.amount)
           r == [q EXCEPT !.at = "taken"]
<1>1. /\ q \in Request /\ q.op = "undelegate" /\ v \in Validator /\ q.amount \in Nat
      /\ validators[v] \in ValidatorStake
      /\ validators' = [validators EXCEPT ![v] = e] /\ job' = [job EXCEPT ![j] = r]
      /\ total' = total /\ requests' = requests /\ lock' = lock
      /\ UNCHANGED <<producerVars, height, bal, delegations, unbonding, history, gone>>
  BY RelieveFacts
<1>2. e \in ValidatorStake /\ validators[v] # NoValidator
  BY <1>1, RelievedEntry, EntryFields
<1>3. r \in Undelegating /\ r.op = "undelegate" /\ r.at = "taken"
  BY <1>1, RequestMoves
<1>4. total \in Nat /\ requests \in 0 .. MaxRequests
  BY DEF TypeInv, STypeOK
<1> HIDE DEF q, v, e, r
<1>5. r \in Requests /\ ~Holds(r)
  BY <1>3 DEF Requests, Request, Holds
<1> QED BY <1>1, <1>2, <1>3, <1>4, <1>5, EntryStep DEF Creates, Changes

LEMMA TotalFacts ==
  ASSUME TypeInv, NEW j \in Job, ReduceTotal(j)
  PROVE  LET r == job[j]
         IN  /\ r \in Undelegating /\ r \in Request /\ r.op = "undelegate" /\ r.at = "taken"
             /\ r.amount \in Nat /\ total' = Minus(total, r.amount)
             /\ job' = [job EXCEPT ![j] = [r EXCEPT !.at = "queue"]]
             /\ UNCHANGED <<validators, delegations, unbonding, history, producerVars,
                            bal, height, lock, requests, gone>>
<1> DEFINE r == job[j]
<1>1. /\ At(j, "undelegate", "taken") /\ GoTo(j, "queue") /\ total' = Minus(total, r.amount)
      /\ UNCHANGED <<validators, delegations, unbonding, history, producerVars,
                     bal, height, lock, requests, gone>>
  BY DEF ReduceTotal
<1>2. /\ r \in Request /\ r.op = "undelegate" /\ r.at = "taken" /\ r \in Undelegating
      /\ job' = [job EXCEPT ![j] = [r EXCEPT !.at = "queue"]]
  BY <1>1, WentTo, RequestFields
<1>3. r.amount \in Nat
  BY <1>2, Numbers DEF Undelegating
<1> QED BY <1>1, <1>2, <1>3

LEMMA QueueFacts ==
  ASSUME TypeInv, NEW j \in Job, QueueUnbonding(j)
  PROVE  LET r == job[j]
             u == [delegator |-> r.delegator, validator |-> r.validator,
                   amount |-> r.amount, completion |-> r.height + UnbondingBlocks]
         IN  /\ r \in Undelegating /\ r \in Request /\ r.op = "undelegate" /\ r.at = "queue"
             /\ r.amount \in Nat /\ u \in UnbondingEntry
             /\ unbonding' = Append(unbonding, u) /\ job' = [job EXCEPT ![j] = Free]
             /\ UNCHANGED <<validators, delegations, total, history, producerVars, bal,
                            height, lock, requests, gone>>
<1> DEFINE r == job[j]
           u == [delegator |-> r.delegator, validator |-> r.validator,
                 amount |-> r.amount, completion |-> r.height + UnbondingBlocks]
<1>1. /\ At(j, "undelegate", "queue") /\ Return(j) /\ unbonding' = Append(unbonding, u)
      /\ UNCHANGED <<validators, delegations, total, history, producerVars, bal,
                     height, lock, requests, gone>>
  BY DEF QueueUnbonding
<1>2. r \in Request /\ r.op = "undelegate" /\ r.at = "queue" /\ r \in Undelegating
  BY <1>1, RequestOf, RequestFields DEF At
<1>3. /\ r.amount \in Nat /\ r.delegator \in Delegator /\ r.validator \in Validator
      /\ r.height + UnbondingBlocks \in Nat
  <2>1. r.amount \in Amount /\ r.delegator \in Delegator /\ r.validator \in Validator /\ r.height \in Nat
    BY <1>2 DEF Undelegating
  <2>2. UnbondingBlocks \in Nat /\ Amount \subseteq Nat
    BY Numbers
  <2>3. \A n \in Nat : n + UnbondingBlocks \in Nat
    BY <2>2
  <2> HIDE DEF r
  <2> QED BY <2>1, <2>2, <2>3, Zenon
<1>4. u \in UnbondingEntry
  BY <1>3 DEF UnbondingEntry
<1> QED BY <1>1, <1>2, <1>3, <1>4, Returned

(* The books but for the entries and the delegations. *)
LEMMA TallyStep ==
  ASSUME TypeInv, NEW j \in Job, NEW r \in Requests, job' = [job EXCEPT ![j] = r],
         ~Holds(r), r # Free => ~Creates(r) /\ ~Changes(r) /\ r.at \notin {"register", "insert"},
         UNCHANGED <<producerVars, height, bal, delegations, validators, lock, requests>>,
         unbonding' \in Seq(UnbondingEntry), total' \in Nat, history' \subseteq Validator,
         gone' \in Nat
  PROVE  TypeInv'
<1>1. /\ validators \in [Validator -> MaybeEntry] /\ delegations \in [Delegator -> Seq(Delegation)]
      /\ requests \in 0 .. MaxRequests
  BY DEF TypeInv, STypeOK, MaybeEntry
<1>2. /\ delegations' = delegations /\ validators' = validators /\ lock' = lock
      /\ requests' = requests /\ UNCHANGED <<producerVars, height, bal>>
  OBVIOUS
<1>3. \A d \in Delegator : \A i \in DOMAIN delegations'[d] :
        validators'[delegations'[d][i].validator] # NoValidator
  BY <1>2 DEF TypeInv, ValidatorsInv, Exists
<1> QED BY <1>1, <1>2, <1>3, BooksStep

LEMMA TallyTypes ==
  ASSUME TypeInv, NEW j \in Job, ReduceTotal(j) \/ QueueUnbonding(j)
  PROVE  TypeInv'
<1>0. /\ unbonding \in Seq(UnbondingEntry) /\ total \in Nat /\ history \subseteq Validator
      /\ gone \in Nat
  BY DEF TypeInv, STypeOK
<1>1. CASE ReduceTotal(j)
  <2> DEFINE r == [job[j] EXCEPT !.at = "queue"]
  <2>1. /\ job[j] \in Request /\ job[j].op = "undelegate" /\ job[j].amount \in Nat
        /\ total' = Minus(total, job[j].amount) /\ job' = [job EXCEPT ![j] = r]
        /\ unbonding' = unbonding /\ history' = history /\ gone' = gone
        /\ UNCHANGED <<producerVars, height, bal, delegations, validators, lock, requests>>
    BY <1>1, TotalFacts
  <2>2. r \in Undelegating /\ r.op = "undelegate" /\ r.at = "queue"
    BY <2>1, RequestMoves
  <2>3. total' \in Nat
    BY <1>0, <2>1, MinusType
  <2> HIDE DEF r
  <2>4. r \in Requests /\ ~Holds(r)
    BY <2>2 DEF Requests, Request, Holds
  <2> QED BY <1>0, <2>1, <2>2, <2>3, <2>4, TallyStep DEF Creates, Changes
<1>2. CASE QueueUnbonding(j)
  <2>1. \E u \in UnbondingEntry :
          /\ unbonding' = Append(unbonding, u) /\ job' = [job EXCEPT ![j] = Free]
          /\ total' = total /\ history' = history /\ gone' = gone
          /\ UNCHANGED <<producerVars, height, bal, delegations, validators, lock, requests>>
    BY <1>2, QueueFacts
  <2>2. unbonding' \in Seq(UnbondingEntry)
    BY <1>0, <2>1
  <2> QED BY <1>0, <2>1, <2>2, TallyStep DEF Requests, Holds
<1> QED BY <1>1, <1>2

(* slash_validator and unjail_validator *)
LEMMA SlashFacts ==
  ASSUME TypeInv, NEW j \in Job, SlashStake(j)
  PROVE  LET r == job[j]
             v == r.validator
             amt == Percent(validators[v].total, r.percent)
         IN  /\ r \in Slashing /\ r \in Request /\ r.op = "slash" /\ r.at = "timed"
             /\ v \in Validator /\ validators[v] \in ValidatorStake /\ r.height + JailBlocks \in Nat
             /\ amt \in Nat /\ amt <= validators[v].total /\ Holds(r)
             /\ validators' = [validators EXCEPT ![v] =
                                 Slashed(validators[v], amt, r.height + JailBlocks)]
             /\ total' = Minus(total, amt) /\ lock = j /\ lock' = Free
             /\ job' = [job EXCEPT ![j] = [r EXCEPT !.at = "queue"]]
             /\ UNCHANGED <<delegations, unbonding, history, producerVars, bal, height,
                            requests, gone>>
<1> DEFINE r == job[j]
           v == r.validator
           amt == Percent(validators[v].total, r.percent)
<1>1. /\ At(j, "slash", "timed") /\ Unlock(j) /\ GoTo(j, "queue")
      /\ validators' = [validators EXCEPT ![v] =
                          Slashed(validators[v], amt, r.height + JailBlocks)]
      /\ total' = Minus(total, amt)
      /\ UNCHANGED <<delegations, unbonding, history, producerVars, bal, height,
                     requests, gone>>
  BY DEF SlashStake
<1>2. /\ r \in Request /\ r # Free /\ r.op = "slash" /\ r.at = "timed" /\ r \in Slashing
      /\ job' = [job EXCEPT ![j] = [r EXCEPT !.at = "queue"]]
  BY <1>1, WentTo, RequestFields
<1>3. v \in Validator /\ r.percent \in Nat /\ r.percent <= 100 /\ r.height + JailBlocks \in Nat
  BY <1>2, Numbers DEF Slashing
<1>4. validators[v] \in ValidatorStake /\ Holds(r)
  BY <1>2, <1>3, RequestInv DEF Changes, Holds, TypeInv, STypeOK
<1>5. amt \in Nat /\ amt <= validators[v].total
  BY <1>3, <1>4, EntryFields, PercentType
<1> QED BY <1>1, <1>2, <1>3, <1>4, <1>5 DEF Unlock

LEMMA SlashType == ASSUME TypeInv, NEW j \in Job, SlashStake(j) PROVE TypeInv'
<1> DEFINE q == job[j]
           v == q.validator
           amt == Percent(validators[v].total, q.percent)
           e == Slashed(validators[v], amt, q.height + JailBlocks)
           r == [q EXCEPT !.at = "queue"]
<1>1. /\ q \in Request /\ q.op = "slash" /\ v \in Validator /\ amt \in Nat
      /\ validators[v] \in ValidatorStake /\ q.height + JailBlocks \in Nat /\ Holds(q)
      /\ validators' = [validators EXCEPT ![v] = e] /\ job' = [job EXCEPT ![j] = r]
      /\ total' = Minus(total, amt) /\ lock = j /\ lock' = Free /\ requests' = requests
      /\ UNCHANGED <<producerVars, height, bal, delegations, unbonding, history, gone>>
  BY SlashFacts
<1>2. e \in ValidatorStake /\ validators[v] # NoValidator
  BY <1>1, SlashedEntry, EntryFields
<1>3. r \in Slashing /\ r.op = "slash" /\ r.at = "queue" /\ r.validator = v
  BY <1>1, RequestMoves
<1>4. total' \in Nat /\ requests' \in 0 .. MaxRequests
  BY <1>1, MinusType DEF TypeInv, STypeOK
<1>5. /\ validators \in [Validator -> MaybeEntry] /\ delegations \in [Delegator -> Seq(Delegation)]
      /\ unbonding \in Seq(UnbondingEntry) /\ history \subseteq Validator /\ gone \in Nat
  BY DEF TypeInv, STypeOK, MaybeEntry
<1>6. \A d \in Delegator : \A i \in DOMAIN delegations[d] :
        /\ delegations[d][i].validator \in Validator
        /\ validators[delegations[d][i].validator] # NoValidator
  <2> SUFFICES ASSUME NEW d \in Delegator, NEW i \in DOMAIN delegations[d]
               PROVE  /\ delegations[d][i].validator \in Validator
                      /\ validators[delegations[d][i].validator] # NoValidator
    OBVIOUS
  <2>1. delegations[d] \in Seq(Delegation)
    BY <1>5
  <2>2. delegations[d][i] \in Delegation
    BY <2>1
  <2> QED BY <2>2 DEF TypeInv, ValidatorsInv, Exists, Delegation
<1> HIDE DEF q, v, e, r, amt
<1>7. /\ validators' \in [Validator -> MaybeEntry] /\ e # NoValidator
      /\ \A w \in Validator : validators'[w] = IF w = v THEN e ELSE validators[w]
  BY <1>1, <1>2, <1>5, EntryWritten, EntryFields
<1>8. /\ \A w \in Validator : validators[w] # NoValidator <=> validators'[w] # NoValidator
      /\ validators'[v] # NoValidator
  BY <1>1, <1>2, <1>7
<1>9. /\ delegations' = delegations /\ unbonding' = unbonding /\ history' = history
      /\ gone' = gone /\ UNCHANGED <<producerVars, height, bal>>
  BY <1>1
<1>10. \A d \in Delegator : \A i \in DOMAIN delegations'[d] :
         validators'[delegations'[d][i].validator] # NoValidator
  BY <1>6, <1>8, <1>9
<1>11. r \in Requests /\ ~Holds(r)
  BY <1>3 DEF Requests, Request, Holds
<1> QED BY <1>1, <1>3, <1>4, <1>5, <1>7, <1>8, <1>9, <1>10, <1>11, BooksStep DEF Creates

(* What a slash takes from each entry of the queue of unbondings. *)
CutOf(q, r) ==
  [i \in DOMAIN q |-> IF q[i].validator = r.validator THEN Percent(q[i].amount, r.percent) ELSE 0]
CutQueue(q, r) == [i \in DOMAIN q |-> [q[i] EXCEPT !.amount = @ - CutOf(q, r)[i]]]

LEMMA CutsType ==
  ASSUME NEW q \in Seq(UnbondingEntry), NEW r \in Slashing
  PROVE  /\ CutOf(q, r) \in [DOMAIN q -> Nat]
         /\ CutQueue(q, r) \in Seq(UnbondingEntry) /\ DOMAIN CutQueue(q, r) = DOMAIN q
         /\ \A i \in DOMAIN q : /\ q[i].amount \in Nat
                                /\ CutQueue(q, r)[i].amount = q[i].amount - CutOf(q, r)[i]
<1>1. DOMAIN q = 1 .. Len(q) /\ Len(q) \in Nat
  OBVIOUS
<1>2. r.percent \in Nat /\ r.percent <= 100
  <2>1. r.percent \in SlashPercent
    BY DEF Slashing
  <2>2. r.percent \in 1 .. 100
    BY <2>1, Numbers
  <2>3. \A p \in 1 .. 100 : p \in Nat /\ p <= 100
    OBVIOUS
  <2> QED BY <2>2, <2>3, Zenon
<1>3. ASSUME NEW i \in DOMAIN q
      PROVE  /\ q[i] \in UnbondingEntry /\ q[i].amount \in Nat /\ CutOf(q, r)[i] \in Nat
             /\ q[i].amount - CutOf(q, r)[i] \in Nat
  <2>1. q[i] \in UnbondingEntry
    OBVIOUS
  <2>2. q[i].amount \in Nat
    BY <2>1 DEF UnbondingEntry
  <2>3. Percent(q[i].amount, r.percent) \in Nat /\ Percent(q[i].amount, r.percent) <= q[i].amount
    BY <1>2, <2>2, PercentType
  <2> QED BY <2>1, <2>2, <2>3 DEF CutOf
<1>4. CutOf(q, r) \in [DOMAIN q -> Nat]
  BY <1>3 DEF CutOf
<1>5. ASSUME NEW i \in DOMAIN q
      PROVE  /\ CutQueue(q, r)[i] \in UnbondingEntry
             /\ CutQueue(q, r)[i].amount = q[i].amount - CutOf(q, r)[i]
  <2>1. CutQueue(q, r)[i] = [q[i] EXCEPT !.amount = q[i].amount - CutOf(q, r)[i]]
    BY DEF CutQueue
  <2> DEFINE n == q[i].amount - CutOf(q, r)[i]
  <2>2. q[i] \in UnbondingEntry /\ n \in Nat
    BY <1>3
  <2> HIDE DEF n
  <2>3. [q[i] EXCEPT !.amount = n] \in UnbondingEntry /\ [q[i] EXCEPT !.amount = n].amount = n
    BY <2>2 DEF UnbondingEntry
  <2> QED BY <2>1, <2>3 DEF n
<1>6. CutQueue(q, r) \in [1 .. Len(q) -> UnbondingEntry]
  BY <1>1, <1>5 DEF CutQueue
<1>7. CutQueue(q, r) \in Seq(UnbondingEntry)
  BY <1>1, <1>6
<1>8. DOMAIN CutQueue(q, r) = DOMAIN q
  BY DEF CutQueue
<1> QED BY <1>3, <1>4, <1>5, <1>7, <1>8

LEMMA CutFacts ==
  ASSUME TypeInv, NEW j \in Job, SlashUnbonding(j)
  PROVE  LET r == job[j]
         IN  /\ r \in Slashing /\ r \in Request /\ r.op = "slash" /\ r.at = "queue"
             /\ r.validator \in Validator /\ unbonding \in Seq(UnbondingEntry)
             /\ unbonding' = CutQueue(unbonding, r)
             /\ gone' = gone + SumFunction(CutOf(unbonding, r))
             /\ history' = history \cup {r.validator} /\ job' = [job EXCEPT ![j] = Free]
             /\ UNCHANGED <<validators, delegations, total, producerVars, bal, height,
                            lock, requests>>
<1> DEFINE r == job[j]
<1>1. /\ At(j, "slash", "queue") /\ Return(j)
      /\ unbonding' = CutQueue(unbonding, r) /\ gone' = gone + SumFunction(CutOf(unbonding, r))
      /\ history' = history \cup {r.validator}
      /\ UNCHANGED <<validators, delegations, total, producerVars, bal, height,
                     lock, requests>>
  BY DEF SlashUnbonding, CutQueue, CutOf
<1>2. r \in Request /\ r.op = "slash" /\ r.at = "queue" /\ r \in Slashing
  BY <1>1, RequestOf, RequestFields DEF At
<1>3. r.validator \in Validator /\ unbonding \in Seq(UnbondingEntry)
  BY <1>2 DEF Slashing, TypeInv, STypeOK
<1> QED BY <1>1, <1>2, <1>3, Returned

LEMMA SequenceSum ==
  ASSUME NEW q, DOMAIN q = 1 .. Len(q), Len(q) \in Nat, NEW f, DOMAIN f = DOMAIN q,
         \A i \in DOMAIN q : f[i] \in Nat
  PROVE  SumFunction(f) \in Nat
<1>1. IsFiniteSet(DOMAIN f)
  BY FS_Interval
<1> QED BY <1>1, SumNat DEF SumFunction

LEMMA CutType == ASSUME TypeInv, NEW j \in Job, SlashUnbonding(j) PROVE TypeInv'
<1> DEFINE r == job[j]
           cut == CutOf(unbonding, r)
<1>1. /\ r \in Slashing /\ r.validator \in Validator /\ unbonding \in Seq(UnbondingEntry)
      /\ unbonding' = CutQueue(unbonding, r) /\ gone' = gone + SumFunction(cut)
      /\ history' = history \cup {r.validator} /\ job' = [job EXCEPT ![j] = Free]
      /\ total' = total /\ UNCHANGED <<producerVars, height, bal, delegations, validators, lock, requests>>
  BY CutFacts
<1>2. unbonding' \in Seq(UnbondingEntry) /\ cut \in [DOMAIN unbonding -> Nat]
  BY <1>1, CutsType
<1>3. SumFunction(cut) \in Nat
  BY <1>1, <1>2, SequenceSum
<1>4. gone' \in Nat /\ history' \subseteq Validator /\ total' \in Nat
  BY <1>1, <1>3 DEF TypeInv, STypeOK
<1> QED BY <1>1, <1>2, <1>4, TallyStep DEF Requests, Holds

LEMMA ReleaseFacts ==
  ASSUME TypeInv, NEW j \in Job, ReleaseFromJail(j)
  PROVE  LET v == job[j].validator
         IN  /\ job[j].op = "unjail" /\ job[j] \in Request /\ Holds(job[j]) /\ v \in Validator
             /\ validators[v] \in ValidatorStake
             /\ \E e \in ValidatorStake :
                  /\ validators' = [validators EXCEPT ![v] = e] /\ e.self = validators[v].self
                  /\ e.delegated = validators[v].delegated /\ e.total = validators[v].total
             /\ lock = j /\ lock' = Free /\ job' = [job EXCEPT ![j] = Free]
             /\ UNCHANGED <<delegations, unbonding, total, history, producerVars, bal,
                            height, requests, gone>>
<1> DEFINE q == job[j]
           v == q.validator
<1>1. /\ At(j, "unjail", "timed") /\ Unlock(j) /\ Return(j)
      /\ \/ validators' = [validators EXCEPT ![v].jailed = FALSE, ![v].until = 0]
         \/ validators' = validators
      /\ UNCHANGED <<delegations, unbonding, total, history, producerVars, bal,
                     height, requests, gone>>
  BY DEF ReleaseFromJail
<1>2. q \in Request /\ q # Free /\ q.op = "unjail" /\ q.at = "timed" /\ v \in Validator
  BY <1>1, RequestOf, RequestFields DEF At
<1>3. validators[v] \in ValidatorStake /\ Holds(q)
  BY <1>2, RequestInv DEF Changes, Holds, TypeInv, STypeOK
<1>4. validators \in [Validator -> MaybeEntry]
  BY DEF TypeInv, STypeOK, MaybeEntry
<1>5. \E e \in ValidatorStake :
        /\ validators' = [validators EXCEPT ![v] = e] /\ e.self = validators[v].self
        /\ e.delegated = validators[v].delegated /\ e.total = validators[v].total
  <2>1. CASE validators' = validators
    <3>1. validators' = [validators EXCEPT ![v] = validators[v]]
      BY <1>2, <1>4, <2>1
    <3> QED BY <1>3, <3>1
  <2>2. CASE validators' = [validators EXCEPT ![v].jailed = FALSE, ![v].until = 0]
    <3> DEFINE e == [validators[v] EXCEPT !.jailed = FALSE, !.until = 0]
    <3>1. validators' = [validators EXCEPT ![v] = e]
      BY <1>2, <1>4, <2>2
    <3>2. /\ e \in ValidatorStake /\ e.self = validators[v].self
          /\ e.delegated = validators[v].delegated /\ e.total = validators[v].total
      BY <1>3 DEF ValidatorStake
    <3> QED BY <3>1, <3>2
  <2> QED BY <1>1, <2>1, <2>2
<1> QED BY <1>1, <1>2, <1>3, <1>5, Returned DEF Unlock

LEMMA ReleaseType == ASSUME TypeInv, NEW j \in Job, ReleaseFromJail(j) PROVE TypeInv'
<1> DEFINE v == job[j].validator
<1>1. /\ v \in Validator /\ validators[v] \in ValidatorStake
      /\ Holds(job[j]) /\ lock = j /\ lock' = Free /\ job' = [job EXCEPT ![j] = Free]
      /\ total' = total /\ requests' = requests
      /\ UNCHANGED <<producerVars, height, bal, delegations, unbonding, history, gone>>
  BY ReleaseFacts
<1>2. PICK e \in ValidatorStake : validators' = [validators EXCEPT ![v] = e]
  BY ReleaseFacts
<1>3. total \in Nat /\ requests \in 0 .. MaxRequests /\ Free \in Requests /\ ~Holds(Free)
  BY DEF TypeInv, STypeOK, Requests, Holds
<1> QED BY <1>1, <1>2, <1>3, EntryStep

(* A step of neither a request nor the producer's control: entries and     *)
(* delegations are rewritten in place.                                     *)
LEMMA InPlace ==
  ASSUME TypeInv, job' = job, lock' = lock,
         validators' \in [Validator -> MaybeEntry],
         \A v \in Validator : validators'[v] # NoValidator <=> validators[v] # NoValidator,
         delegations' \in [Delegator -> Seq(Delegation)],
         \A d \in Delegator :
           /\ DOMAIN delegations'[d] = DOMAIN delegations[d]
           /\ \A i \in DOMAIN delegations[d] :
                delegations'[d][i].validator = delegations[d][i].validator
  PROVE  LockInv' /\ ValidatorsInv'
<1>1. LockInv'
  <2>1. LockInv
    BY DEF TypeInv
  <2> QED BY <2>1 DEF LockInv, Holds
<1>2. \A v \in Validator : Exists(v)' <=> validators[v] # NoValidator
  BY DEF Exists
<1>3. ASSUME NEW j \in Job, job[j] # Free
      PROVE  /\ Creates(job[j]) => validators'[job[j].validator] = NoValidator
             /\ Changes(job[j]) => validators'[job[j].validator] # NoValidator
             /\ job[j].at \in {"register", "insert"} => job[j].validator \in DOMAIN ConsensusStake
  <2>1. job[j].validator \in Validator
    BY <1>3, RequestOf, RequestFields
  <2> QED BY <1>3, <2>1, RequestInv
<1>4. ASSUME NEW d \in Delegator, NEW i \in DOMAIN delegations'[d]
      PROVE  validators'[delegations'[d][i].validator] # NoValidator
  <2>1. delegations[d] \in Seq(Delegation) /\ i \in DOMAIN delegations[d]
    BY DEF TypeInv, STypeOK
  <2>2. delegations[d][i] \in Delegation
    BY <2>1
  <2>3. delegations[d][i].validator \in Validator
    BY <2>2 DEF Delegation
  <2>4. validators[delegations[d][i].validator] # NoValidator
    BY <2>1 DEF TypeInv, ValidatorsInv, Exists
  <2>5. delegations'[d][i].validator = delegations[d][i].validator
    BY <2>1
  <2> QED BY <2>3, <2>4, <2>5
<1>5. ValidatorsInv'
  BY <1>3, <1>4 DEF ValidatorsInv, Exists
<1> QED BY <1>1, <1>5

(* Nothing of it changes but the producer. *)
LEMMA ProducerStep ==
  ASSUME TypeInv, UNCHANGED <<job, lock, validators, delegations>>
  PROVE  LockInv' /\ ValidatorsInv'
<1>1. /\ validators \in [Validator -> MaybeEntry] /\ delegations \in [Delegator -> Seq(Delegation)]
  BY DEF TypeInv, STypeOK, MaybeEntry
<1> QED BY <1>1, InPlace

(* The entry of v changes, no stake of it. *)
SameStake(e, f) == e.self = f.self /\ e.delegated = f.delegated /\ e.total = f.total

LEMMA MissedEntry ==
  ASSUME NEW e \in ValidatorStake, NEW n \in Nat
  PROVE  /\ [e EXCEPT !.missed = n] \in ValidatorStake /\ SameStake([e EXCEPT !.missed = n], e)
         /\ [e EXCEPT !.rewards = n] \in ValidatorStake /\ SameStake([e EXCEPT !.rewards = n], e)
BY DEF ValidatorStake, SameStake

(* record_block_signed, record_block_missed, withdraw_validator_rewards *)
LEMMA EntryRewritten ==
  ASSUME TypeInv, NEW v \in Validator,
         \/ RecordBlockSigned(v) \/ WithdrawValidatorRewards(v)
         \/ \E j \in Job, p \in SlashPercent : RecordBlockMissed(j, v, p)
  PROVE  /\ validators[v] \in ValidatorStake
         /\ \E e \in ValidatorStake : /\ validators' = [validators EXCEPT ![v] = e]
                                      /\ SameStake(e, validators[v])
         /\ UNCHANGED <<delegations, unbonding, total, history, producerVars, bal,
                        height, lock, gone>>
<1>1. validators \in [Validator -> MaybeEntry]
  BY DEF TypeInv, STypeOK, MaybeEntry
<1>2. validators[v] \in ValidatorStake
  BY <1>1 DEF RecordBlockSigned, WithdrawValidatorRewards, RecordBlockMissed, Exists, MaybeEntry
<1>3. validators[v].missed + 1 \in Nat /\ 0 \in Nat
  BY <1>2, EntryFields
<1>4. \/ validators' = [validators EXCEPT ![v] = [validators[v] EXCEPT !.missed = 0]]
      \/ validators' = [validators EXCEPT ![v] = [validators[v] EXCEPT !.rewards = 0]]
      \/ validators' = [validators EXCEPT ![v] =
                          [validators[v] EXCEPT !.missed = validators[v].missed + 1]]
  BY DEF RecordBlockSigned, WithdrawValidatorRewards, RecordBlockMissed
<1>5. \E e \in ValidatorStake : /\ validators' = [validators EXCEPT ![v] = e]
                                /\ SameStake(e, validators[v])
  BY <1>2, <1>3, <1>4, MissedEntry
<1>6. UNCHANGED <<delegations, unbonding, total, history, producerVars, bal,
                  height, lock, gone>>
  BY DEF RecordBlockSigned, WithdrawValidatorRewards, RecordBlockMissed
<1> QED BY <1>2, <1>5, <1>6

LEMMA OneEntry ==
  ASSUME TypeInv, NEW v \in Validator, validators[v] \in ValidatorStake,
         NEW e \in ValidatorStake, validators' = [validators EXCEPT ![v] = e]
  PROVE  /\ validators' \in [Validator -> MaybeEntry] /\ validators'[v] # NoValidator
         /\ \A w \in Validator : validators'[w] # NoValidator <=> validators[w] # NoValidator
<1>1. validators \in [Validator -> MaybeEntry]
  BY DEF TypeInv, STypeOK, MaybeEntry
<1>2. e # NoValidator /\ validators[v] # NoValidator
  BY EntryFields
<1> QED BY <1>1, <1>2, EntryWritten

LEMMA MissedType ==
  ASSUME TypeInv, NEW v \in Validator, NEW j \in Job, NEW p \in SlashPercent,
         RecordBlockMissed(j, v, p)
  PROVE  TypeInv'
<1>1. /\ validators[v] \in ValidatorStake
      /\ \E e \in ValidatorStake : validators' = [validators EXCEPT ![v] = e]
      /\ UNCHANGED <<delegations, unbonding, total, history, producerVars, bal,
                     height, lock, gone>>
  BY EntryRewritten
<1>2. /\ validators' \in [Validator -> MaybeEntry] /\ validators'[v] # NoValidator
      /\ \A w \in Validator : validators'[w] # NoValidator <=> validators[w] # NoValidator
  BY <1>1, OneEntry
<1>3. /\ delegations \in [Delegator -> Seq(Delegation)] /\ requests \in 0 .. MaxRequests
      /\ unbonding \in Seq(UnbondingEntry) /\ history \subseteq Validator /\ gone \in Nat
      /\ total \in Nat
  BY DEF TypeInv, STypeOK
<1>4. /\ delegations' = delegations /\ lock' = lock /\ unbonding' = unbonding /\ total' = total
      /\ history' = history /\ gone' = gone /\ UNCHANGED <<producerVars, height, bal>>
  BY <1>1
<1>5. LockInv' /\ ValidatorsInv' /\ job' \in [Job -> Requests] /\ requests' \in 0 .. MaxRequests
  <2>1. CASE job' = job
    <3>1. (requests < MaxRequests /\ requests' = requests + 1) \/ Accept(j, job[j])
      BY <2>1 DEF RecordBlockMissed, Accept
    <3>2. requests' \in 0 .. MaxRequests
      BY <1>3, <3>1, Numbers DEF Accept
    <3>3. job' \in [Job -> Requests]
      BY <2>1 DEF TypeInv, STypeOK, Requests
    <3>4. LockInv' /\ ValidatorsInv'
      BY <1>2, <1>3, <1>4, <2>1, InPlace
    <3> QED BY <3>2, <3>3, <3>4
  <2>2. CASE job' # job
    <3> DEFINE r == [op |-> "slash", at |-> "start", validator |-> v,
                     percent |-> p, height |-> 0]
    <3>1. r \in Slashing /\ r \in Requests
      BY DEF Slashing, Request, Requests
    <3>2. Accept(j, r)
      BY <2>2 DEF RecordBlockMissed
    <3>3. r.op = "slash" /\ r.at = "start" /\ r.validator = v
      OBVIOUS
    <3>4. \A d \in Delegator : \A i \in DOMAIN delegations[d] :
            /\ delegations[d][i].validator \in Validator
            /\ validators[delegations[d][i].validator] # NoValidator
      <4> SUFFICES ASSUME NEW d \in Delegator, NEW i \in DOMAIN delegations[d]
                   PROVE  /\ delegations[d][i].validator \in Validator
                          /\ validators[delegations[d][i].validator] # NoValidator
        OBVIOUS
      <4>1. delegations[d] \in Seq(Delegation)
        BY <1>3
      <4>2. delegations[d][i] \in Delegation
        BY <4>1
      <4> QED BY <4>2 DEF TypeInv, ValidatorsInv, Exists, Delegation
    <3> HIDE DEF r
    <3>5. /\ job' = [job EXCEPT ![j] = r] /\ requests' \in 0 .. MaxRequests
      BY <3>2, MayAccept
    <3>6. \A d \in Delegator : \A i \in DOMAIN delegations'[d] :
            validators'[delegations'[d][i].validator] # NoValidator
      BY <1>2, <1>4, <3>4
    <3>7. /\ lock' = lock /\ ~Holds(r)
          /\ ~Creates(r) /\ r.at \notin {"register", "insert"}
      BY <1>4, <3>3 DEF Holds, Creates
    <3> QED BY <1>2, <3>1, <3>3, <3>5, <3>6, <3>7, JobGoesOn
  <2> QED BY <2>1, <2>2
<1>6. /\ producer' = producer /\ seenTotal' = seenTotal /\ matured' = matured
      /\ record' = record /\ height' = height /\ bal' = bal
  BY <1>4 DEF producerVars
<1>7. STypeOK'
  BY <1>2, <1>3, <1>4, <1>5, <1>6 DEF TypeInv, STypeOK, Requests, MaybeEntry
<1>8. ProducerInv'
  BY <1>6 DEF TypeInv, ProducerInv
<1> QED BY <1>5, <1>7, <1>8 DEF TypeInv

LEMMA RewrittenType ==
  ASSUME TypeInv, NEW v \in Validator, RecordBlockSigned(v) \/ WithdrawValidatorRewards(v)
  PROVE  TypeInv'
<1>1. /\ validators[v] \in ValidatorStake
      /\ \E e \in ValidatorStake : validators' = [validators EXCEPT ![v] = e]
      /\ UNCHANGED <<delegations, unbonding, total, history, producerVars, bal,
                     height, lock, gone>>
  BY EntryRewritten
<1>2. /\ validators' \in [Validator -> MaybeEntry]
      /\ \A w \in Validator : validators'[w] # NoValidator <=> validators[w] # NoValidator
  BY <1>1, OneEntry
<1>3. /\ delegations \in [Delegator -> Seq(Delegation)] /\ requests \in 0 .. MaxRequests
  BY DEF TypeInv, STypeOK
<1>4. /\ delegations' = delegations /\ lock' = lock /\ unbonding' = unbonding /\ total' = total
      /\ history' = history /\ gone' = gone /\ UNCHANGED <<producerVars, height, bal>>
  BY <1>1
<1>5. job' = job /\ requests' \in 0 .. MaxRequests
  BY <1>3, Numbers DEF RecordBlockSigned, WithdrawValidatorRewards
<1>6. LockInv' /\ ValidatorsInv'
  BY <1>2, <1>3, <1>4, <1>5, InPlace
<1>7. /\ producer' = producer /\ seenTotal' = seenTotal /\ matured' = matured
      /\ record' = record /\ height' = height /\ bal' = bal
  BY <1>4 DEF producerVars
<1>8. STypeOK'
  BY <1>2, <1>3, <1>4, <1>5, <1>7 DEF TypeInv, STypeOK, Requests, MaybeEntry
<1>9. ProducerInv'
  BY <1>7 DEF TypeInv, ProducerInv
<1> QED BY <1>6, <1>8, <1>9 DEF TypeInv

(* A list of delegations whose rewards are rewritten. *)
SameDelegation(x, y) == x.validator = y.validator /\ x.amount = y.amount

LEMMA RewardsWritten ==
  ASSUME NEW s \in Seq(Delegation), NEW t \in [DOMAIN s -> Delegation]
  PROVE  t \in Seq(Delegation) /\ DOMAIN t = DOMAIN s /\ Len(t) = Len(s)
<1>1. DOMAIN s = 1 .. Len(s) /\ Len(s) \in Nat
  OBVIOUS
<1> QED BY <1>1

LEMMA RewardWritten ==
  ASSUME NEW x \in Delegation, NEW n \in Nat
  PROVE  /\ [x EXCEPT !.rewards = n] \in Delegation
         /\ SameDelegation([x EXCEPT !.rewards = n], x)
BY DEF Delegation, SameDelegation

LEMMA WithdrawFacts ==
  ASSUME TypeInv, NEW e \in Delegator, NEW v \in Validator, WithdrawDelegatorRewards(e, v)
  PROVE  /\ delegations' \in [Delegator -> Seq(Delegation)]
         /\ \A d \in Delegator :
              /\ DOMAIN delegations'[d] = DOMAIN delegations[d]
              /\ \A i \in DOMAIN delegations[d] :
                   /\ delegations'[d][i].validator = delegations[d][i].validator
                   /\ delegations'[d][i].amount = delegations[d][i].amount
         /\ UNCHANGED <<validators, unbonding, total, history, producerVars, bal,
                        height, job, lock, gone>>
<1> DEFINE s == delegations[e]
           t == [i \in DOMAIN s |-> IF s[i].validator = v THEN [s[i] EXCEPT !.rewards = 0] ELSE s[i]]
<1>1. delegations \in [Delegator -> Seq(Delegation)]
  BY DEF TypeInv, STypeOK
<1>2. delegations' = [delegations EXCEPT ![e] = t]
  BY DEF WithdrawDelegatorRewards
<1>3. s \in Seq(Delegation)
  BY <1>1
<1>4. /\ t \in [DOMAIN s -> Delegation]
      /\ \A i \in DOMAIN s : t[i].validator = s[i].validator /\ t[i].amount = s[i].amount
  <2>1. ASSUME NEW i \in DOMAIN s
        PROVE  t[i] \in Delegation /\ SameDelegation(t[i], s[i])
    <3>1. s[i] \in Delegation
      BY <1>3
    <3>2. t[i] = [s[i] EXCEPT !.rewards = 0] \/ t[i] = s[i]
      OBVIOUS
    <3>3. LET y == [s[i] EXCEPT !.rewards = 0]
          IN  y \in Delegation /\ SameDelegation(y, s[i])
      BY <3>1, RewardWritten
    <3>4. SameDelegation(s[i], s[i])
      BY DEF SameDelegation
    <3> HIDE DEF t
    <3> QED BY <3>1, <3>2, <3>3, <3>4
  <2> QED BY <2>1 DEF SameDelegation
<1>5. UNCHANGED <<validators, unbonding, total, history, producerVars, bal,
                  height, job, lock, gone>>
  BY DEF WithdrawDelegatorRewards
<1> HIDE DEF s, t
<1>6. t \in Seq(Delegation) /\ DOMAIN t = DOMAIN s
  BY <1>3, <1>4, RewardsWritten
<1> QED BY <1>1, <1>2, <1>4, <1>5, <1>6 DEF s

LEMMA WithdrawType ==
  ASSUME TypeInv, NEW e \in Delegator, NEW v \in Validator, WithdrawDelegatorRewards(e, v)
  PROVE  TypeInv'
<1>1. /\ delegations' \in [Delegator -> Seq(Delegation)]
      /\ \A d \in Delegator :
           /\ DOMAIN delegations'[d] = DOMAIN delegations[d]
           /\ \A i \in DOMAIN delegations[d] :
                delegations'[d][i].validator = delegations[d][i].validator
      /\ validators' = validators /\ job' = job /\ lock' = lock
      /\ UNCHANGED <<unbonding, total, history, producerVars, bal, height, gone>>
  BY WithdrawFacts
<1>2. requests' \in 0 .. MaxRequests
  <2>1. requests \in 0 .. MaxRequests /\ requests < MaxRequests /\ requests' = requests + 1
    BY DEF WithdrawDelegatorRewards, TypeInv, STypeOK
  <2> QED BY <2>1, Numbers
<1>3. validators \in [Validator -> MaybeEntry]
  BY DEF TypeInv, STypeOK, MaybeEntry
<1>4. LockInv' /\ ValidatorsInv'
  BY <1>1, <1>3, InPlace
<1>5. STypeOK'
  BY <1>1, <1>2 DEF TypeInv, STypeOK, producerVars
<1>6. ProducerInv'
  BY <1>1 DEF TypeInv, ProducerInv, producerVars
<1> QED BY <1>4, <1>5, <1>6 DEF TypeInv

(* distribute_block_rewards *)
LEMMA Quotient ==
  ASSUME NEW x \in Nat, NEW u \in Nat, u > 0
  PROVE  x \div u \in Nat /\ u * (x \div u) <= x
<1>1. PICK q \in Nat : \E r \in 0 .. u - 1 : q = x \div u /\ u * q + r = x
  BY DivMod
<1>2. PICK r \in 0 .. u - 1 : q = x \div u /\ u * q + r = x
  BY <1>1
<1>3. u * q \in Nat /\ r \in Nat
  OBVIOUS
<1>4. u * q <= x
  <2> DEFINE p == u * q
  <2> HIDE DEF p
  <2>1. p + r = x /\ p \in Nat
    BY <1>2, <1>3 DEF p
  <2>2. p <= x
    BY <1>3, <2>1
  <2> QED BY <2>2 DEF p
<1> QED BY <1>2, <1>4

LEMMA ProductNat == ASSUME NEW a \in Nat, NEW b \in Nat PROVE a * b \in Nat
OBVIOUS

LEMMA BlockRewardType == ASSUME TypeInv PROVE BlockReward \in Nat /\ seenTotal \in Nat
<1>1. seenTotal \in Nat
  BY DEF TypeInv, STypeOK
<1> QED BY <1>1, PercentType, Numbers DEF BlockReward

(* The parts of the reward of one validator. *)
LEMMA SharesType ==
  ASSUME TypeInv, producer = "rewards", NEW v \in Validator, Earns(v)
  PROVE  /\ validators[v] \in ValidatorStake /\ validators[v].total > 0
         /\ Share(v) \in Nat /\ seenTotal * Share(v) <= validators[v].total * BlockReward
         /\ DelegatorShare(v) \in Nat
         /\ validators[v].total * DelegatorShare(v) <= validators[v].delegated * Share(v)
         /\ Cut(v) \in Nat /\ Cut(v) <= DelegatorShare(v)
         /\ Pool(v) \in Nat /\ Pool(v) = DelegatorShare(v) - Cut(v)
         /\ ValidatorReward(v) \in Nat
<1> DEFINE e == validators[v]
<1>1. e \in ValidatorStake /\ e.total > 0
  BY DEF Earns, Exists, TypeInv, STypeOK
<1>2. /\ e.total \in Nat /\ e.delegated \in Nat /\ e.commission \in Nat /\ e.commission <= 100
      /\ seenTotal \in Nat /\ seenTotal > 0 /\ BlockReward \in Nat
  <2>1. e.commission \in 0 .. 100 /\ e.total \in Nat /\ e.delegated \in Nat
    BY <1>1, EntryFields
  <2>2. \A p \in 0 .. 100 : p \in Nat /\ p <= 100
    OBVIOUS
  <2>3. seenTotal > 0
    BY DEF TypeInv, ProducerInv
  <2> HIDE DEF e
  <2>4. e.commission \in Nat /\ e.commission <= 100
    BY <2>1, <2>2, Zenon
  <2> QED BY <2>1, <2>3, <2>4, BlockRewardType
<1> HIDE DEF e
<1>3. Share(v) \in Nat /\ seenTotal * Share(v) <= e.total * BlockReward
  <2>1. e.total * BlockReward \in Nat
    BY <1>2, ProductNat
  <2> QED BY <1>2, <2>1, Quotient DEF Share, e
<1>4. DelegatorShare(v) \in Nat /\ e.total * DelegatorShare(v) <= e.delegated * Share(v)
  <2>1. e.delegated * Share(v) \in Nat
    BY <1>2, <1>3, ProductNat
  <2> QED BY <1>1, <1>2, <2>1, Quotient DEF DelegatorShare, e
<1>5. Cut(v) \in Nat /\ Cut(v) <= DelegatorShare(v)
  BY <1>2, <1>4, PercentType DEF Cut, e
<1>6. Pool(v) \in Nat /\ Pool(v) = DelegatorShare(v) - Cut(v)
  BY <1>4, <1>5, MinusType DEF Pool
<1>7. ValidatorReward(v) \in Nat
  <2>1. Minus(Share(v), DelegatorShare(v)) \in Nat
    BY <1>3, <1>4, MinusType
  <2> QED BY <1>5, <2>1 DEF ValidatorReward
<1> QED BY <1>1, <1>3, <1>4, <1>5, <1>6, <1>7 DEF e

LEMMA DelegationRewardType ==
  ASSUME TypeInv, producer = "rewards", NEW x \in Delegation
  PROVE  DelegationReward(x) \in Nat
<1> DEFINE v == x.validator
<1>1. v \in Validator /\ x.amount \in Nat
  BY DEF Delegation
<1>2. CASE Earns(v) /\ validators[v].delegated > 0
  <2>1. Pool(v) \in Nat /\ validators[v].delegated \in Nat
    BY <1>1, <1>2, SharesType, EntryFields
  <2>2. x.amount * Pool(v) \in Nat
    BY <1>1, <2>1, ProductNat
  <2> QED BY <1>2, <2>1, <2>2, Quotient DEF DelegationReward
<1>3. CASE ~(Earns(v) /\ validators[v].delegated > 0)
  BY <1>3 DEF DelegationReward
<1> QED BY <1>2, <1>3

LEMMA GivenType ==
  ASSUME TypeInv, producer = "rewards"
  PROVE  /\ \A d \in Delegator : GivenTo(d) \in Nat
         /\ Given \in Nat
<1>1. ASSUME NEW d \in Delegator PROVE GivenTo(d) \in Nat
  <2> DEFINE s == delegations[d]
             f == [i \in DOMAIN s |-> DelegationReward(s[i])]
  <2>1. s \in Seq(Delegation)
    BY DEF TypeInv, STypeOK
  <2>2. DOMAIN s = 1 .. Len(s) /\ Len(s) \in Nat
    BY <2>1
  <2>3. ASSUME NEW i \in DOMAIN s PROVE f[i] \in Nat
    <3>1. s[i] \in Delegation
      BY <2>1
    <3> QED BY <3>1, DelegationRewardType
  <2>4. DOMAIN f = DOMAIN s
    OBVIOUS
  <2> HIDE DEF f
  <2>5. SumFunction(f) \in Nat
    BY <2>2, <2>3, <2>4, SequenceSum
  <2> QED BY <2>5 DEF GivenTo, f, s
<1>2. SumFunction([d \in Delegator |-> GivenTo(d)]) \in Nat
  <2> DEFINE f == [d \in Delegator |-> GivenTo(d)]
  <2>1. DOMAIN f = Delegator /\ \A d \in Delegator : f[d] \in Nat
    BY <1>1
  <2>2. IsFiniteSet(Delegator)
    BY Finite
  <2> HIDE DEF f
  <2>3. SumFunction(f) \in Nat
    BY <2>1, <2>2, SumNat DEF SumFunction
  <2> QED BY <2>3 DEF f
<1>3. SumFunction([v \in {w \in Validator : Earns(w)} |-> ValidatorReward(v)]) \in Nat
  <2> DEFINE S == {w \in Validator : Earns(w)}
             f == [v \in S |-> ValidatorReward(v)]
  <2>1. DOMAIN f = S /\ \A v \in S : f[v] \in Nat
    BY SharesType
  <2>2. IsFiniteSet(S)
    BY Finite, FS_Subset
  <2> HIDE DEF f
  <2>3. SumFunction(f) \in Nat
    BY <2>1, <2>2, SumNat DEF SumFunction
  <2> QED BY <2>3 DEF f
<1> QED BY <1>1, <1>2, <1>3 DEF Given

LEMMA RewardAdded ==
  ASSUME NEW e \in ValidatorStake, NEW n \in Nat
  PROVE  /\ [e EXCEPT !.rewards = @ + n] \in ValidatorStake
         /\ SameStake([e EXCEPT !.rewards = @ + n], e)
<1>1. e.rewards + n \in Nat
  BY EntryFields
<1> QED BY <1>1 DEF ValidatorStake, SameStake

LEMMA DistributeFacts ==
  ASSUME TypeInv, DistributeRewards
  PROVE  /\ validators' \in [Validator -> MaybeEntry]
         /\ \A v \in Validator : validators'[v] # NoValidator <=> validators[v] # NoValidator
         /\ \A v \in Validator : validators[v] # NoValidator => SameStake(validators'[v], validators[v])
         /\ delegations' \in [Delegator -> Seq(Delegation)]
         /\ \A d \in Delegator :
              /\ DOMAIN delegations'[d] = DOMAIN delegations[d]
              /\ \A i \in DOMAIN delegations[d] :
                   /\ delegations'[d][i].validator = delegations[d][i].validator
                   /\ delegations'[d][i].amount = delegations[d][i].amount
         /\ UNCHANGED <<unbonding, total, history, bal, height, job, lock, seenTotal,
                        matured, requests, gone>>
<1>1. ASSUME NEW v \in Validator
      PROVE  /\ validators'[v] \in MaybeEntry
             /\ validators'[v] # NoValidator <=> validators[v] # NoValidator
             /\ validators[v] # NoValidator => SameStake(validators'[v], validators[v])
  <2>1. producer = "rewards" /\ validators[v] \in MaybeEntry
    BY DEF DistributeRewards, TypeInv, STypeOK, MaybeEntry
  <2>2. CASE Earns(v)
    <3> DEFINE n == ValidatorReward(v)
    <3>1. validators[v] \in ValidatorStake /\ n \in Nat
      BY <2>1, <2>2, SharesType
    <3>2. validators'[v] = [validators[v] EXCEPT !.rewards = @ + n]
      BY <2>2 DEF DistributeRewards
    <3> HIDE DEF n
    <3>3. validators'[v] \in ValidatorStake /\ SameStake(validators'[v], validators[v])
      BY <3>1, <3>2, RewardAdded
    <3> QED BY <3>1, <3>3, EntryFields DEF MaybeEntry
  <2>3. CASE ~Earns(v)
    <3>1. validators'[v] = validators[v]
      BY <2>3 DEF DistributeRewards
    <3> QED BY <2>1, <3>1 DEF SameStake
  <2> QED BY <2>2, <2>3
<1>2. validators' \in [Validator -> MaybeEntry]
  <2>1. DOMAIN validators' = Validator /\ validators' = [v \in Validator |-> validators'[v]]
    BY DEF DistributeRewards
  <2> QED BY <1>1, <2>1
<1>3. ASSUME NEW d \in Delegator
      PROVE  /\ delegations'[d] \in Seq(Delegation)
             /\ DOMAIN delegations'[d] = DOMAIN delegations[d]
             /\ \A i \in DOMAIN delegations[d] : SameDelegation(delegations'[d][i], delegations[d][i])
  <2> DEFINE s == delegations[d]
             t == [i \in DOMAIN s |-> [s[i] EXCEPT !.rewards = @ + DelegationReward(s[i])]]
  <2>1. s \in Seq(Delegation) /\ producer = "rewards" /\ delegations'[d] = t
    BY DEF DistributeRewards, TypeInv, STypeOK
  <2>2. ASSUME NEW i \in DOMAIN s PROVE t[i] \in Delegation /\ SameDelegation(t[i], s[i])
    <3> DEFINE n == DelegationReward(s[i])
    <3>1. s[i] \in Delegation
      BY <2>1
    <3>2. n \in Nat /\ s[i].rewards \in Nat
      BY <2>1, <3>1, DelegationRewardType DEF Delegation
    <3>3. t[i] = [s[i] EXCEPT !.rewards = s[i].rewards + n]
      OBVIOUS
    <3> HIDE DEF t, n, s
    <3>4. s[i].rewards + n \in Nat
      BY <3>2
    <3> QED BY <3>1, <3>3, <3>4, RewardWritten
  <2>3. t \in [DOMAIN s -> Delegation]
    BY <2>2
  <2> HIDE DEF t, s
  <2>4. t \in Seq(Delegation) /\ DOMAIN t = DOMAIN s
    BY <2>1, <2>3, RewardsWritten
  <2> QED BY <2>1, <2>2, <2>4 DEF s
<1>4. delegations' \in [Delegator -> Seq(Delegation)]
  <2>1. delegations' = [d \in Delegator |-> delegations'[d]]
    BY DEF DistributeRewards
  <2> QED BY <1>3, <2>1
<1>5. UNCHANGED <<unbonding, total, history, bal, height, job, lock, seenTotal,
                  matured, requests, gone>>
  BY DEF DistributeRewards
<1> QED BY <1>1, <1>2, <1>3, <1>4, <1>5 DEF SameDelegation

LEMMA DistributeType == ASSUME TypeInv, DistributeRewards PROVE TypeInv'
<1>1. producer = "rewards" /\ producer' = "unbond" /\ record' = [total |-> BlockReward, given |-> Given]
  BY DEF DistributeRewards
<1>2. record' \in [total: Nat, given: Nat]
  BY <1>1, BlockRewardType, GivenType
<1>3. /\ validators' \in [Validator -> MaybeEntry]
      /\ delegations' \in [Delegator -> Seq(Delegation)]
      /\ UNCHANGED <<unbonding, total, history, bal, height, job, lock, seenTotal,
                     matured, requests, gone>>
  BY DistributeFacts
<1>4. LockInv' /\ ValidatorsInv'
  BY DistributeFacts, InPlace
<1>5. STypeOK'
  BY <1>1, <1>2, <1>3 DEF TypeInv, STypeOK, MaybeEntry
<1>6. ProducerInv'
  BY <1>1, <1>3 DEF TypeInv, ProducerInv
<1> QED BY <1>4, <1>5, <1>6 DEF TypeInv

(* What a list adds up to.                                                 *)
LEMMA ListLast ==
  ASSUME NEW n \in Nat, NEW f, DOMAIN f = 1 .. n, NEW g, DOMAIN g = 1 .. n + 1,
         \A i \in 1 .. n + 1 : g[i] \in Nat, \A i \in 1 .. n : g[i] = f[i]
  PROVE  SumFunction(g) = SumFunction(f) + g[n + 1] /\ SumFunction(f) \in Nat
<1>1. IsFiniteSet(1 .. n)
  BY FS_Interval
<1>2. \A i \in 1 .. n : g[i] \in Int /\ g[i] = f[i] /\ f[i] \in Nat
  OBVIOUS
<1>3. SumFunctionOnSet(g, 1 .. n) = SumFunctionOnSet(f, 1 .. n)
  BY <1>1, <1>2, SumSame
<1>4. SumFunctionOnSet(f, 1 .. n) \in Nat
  BY <1>1, <1>2, SumNat
<1>5. \A i \in 1 .. n + 1 : g[i] \in Int
  OBVIOUS
<1>6. SumFunctionOnSet(g, 1 .. n + 1) = SumFunctionOnSet(g, 1 .. n) + g[n + 1]
  BY <1>5, SumLast
<1> QED BY <1>3, <1>4, <1>6 DEF SumFunction

Weighted(T) == \A x \in T : x.amount \in Nat

LEMMA Weights == Weighted(Delegation) /\ Weighted(UnbondingEntry)
BY DEF Weighted, Delegation, UnbondingEntry

LEMMA ListSum ==
  ASSUME NEW T, Weighted(T), NEW s \in Seq(T)
  PROVE  /\ SumAmounts(s) \in Nat
         /\ DOMAIN s = 1 .. Len(s) /\ Len(s) \in Nat
         /\ \A i \in DOMAIN s : s[i] \in T /\ s[i].amount \in Nat
<1> DEFINE f == [i \in DOMAIN s |-> s[i].amount]
<1>1. DOMAIN s = 1 .. Len(s) /\ Len(s) \in Nat
  OBVIOUS
<1>2. \A i \in DOMAIN s : s[i] \in T
  OBVIOUS
<1>3. \A i \in DOMAIN s : s[i].amount \in Nat
  BY <1>2 DEF Weighted
<1>4. DOMAIN f = DOMAIN s /\ \A i \in DOMAIN s : f[i] \in Nat
  BY <1>3
<1> HIDE DEF f
<1>5. SumFunction(f) \in Nat
  BY <1>1, <1>4, SequenceSum
<1> QED BY <1>1, <1>2, <1>3, <1>5 DEF SumAmounts, f

LEMMA EmptySum == SumAmounts(<< >>) = 0
<1> DEFINE f == [i \in DOMAIN << >> |-> << >>[i].amount]
<1>1. DOMAIN f = {}
  OBVIOUS
<1> HIDE DEF f
<1>2. SumFunction(f) = 0
  BY <1>1, SumEmpty DEF SumFunction
<1> QED BY <1>2 DEF SumAmounts, f

LEMMA AppendSum ==
  ASSUME NEW T, Weighted(T), NEW s \in Seq(T), NEW x \in T
  PROVE  Append(s, x) \in Seq(T) /\ SumAmounts(Append(s, x)) = SumAmounts(s) + x.amount
<1> DEFINE n == Len(s)
           t == Append(s, x)
           f == [i \in DOMAIN s |-> s[i].amount]
           g == [i \in DOMAIN t |-> t[i].amount]
<1>1. n \in Nat /\ DOMAIN s = 1 .. n
  OBVIOUS
<1>2. /\ t \in Seq(T) /\ DOMAIN t = 1 .. n + 1
      /\ \A i \in 1 .. n : t[i] = s[i] /\ t[n + 1] = x
      /\ t[n + 1] = x
  OBVIOUS
<1>3. \A i \in DOMAIN t : t[i].amount \in Nat
  BY <1>2, ListSum
<1>4. /\ DOMAIN f = 1 .. n /\ DOMAIN g = 1 .. n + 1 /\ g[n + 1] = x.amount
      /\ \A i \in 1 .. n + 1 : g[i] \in Nat
      /\ \A i \in 1 .. n : g[i] = f[i]
  <2> HIDE DEF t
  <2>1. n + 1 \in 1 .. n + 1 /\ \A i \in 1 .. n : i \in 1 .. n + 1
    BY <1>1
  <2> QED BY <1>1, <1>2, <1>3, <2>1
<1> HIDE DEF f, g, n
<1>5. SumFunction(g) = SumFunction(f) + g[n + 1]
  BY <1>1, <1>4, ListLast
<1> QED BY <1>2, <1>4, <1>5 DEF SumAmounts, f, g

LEMMA TailSum ==
  ASSUME NEW T, Weighted(T), NEW s \in Seq(T), s # << >>
  PROVE  /\ Head(s) \in T /\ Tail(s) \in Seq(T)
         /\ SumAmounts(s) = Head(s).amount + SumAmounts(Tail(s))
<1> DEFINE n == Len(s) - 1
           t == Tail(s)
           f == [i \in DOMAIN s |-> s[i].amount]
           g == [i \in DOMAIN t |-> t[i].amount]
<1>1. n \in Nat /\ DOMAIN s = 1 .. n + 1 /\ Head(s) = s[1] /\ s[1] \in T
  OBVIOUS
<1>2. t \in Seq(T) /\ DOMAIN t = 1 .. n /\ \A i \in 1 .. n : t[i] = s[i + 1]
  OBVIOUS
<1>3. \A i \in DOMAIN s : s[i].amount \in Nat
  BY ListSum
<1>4. /\ DOMAIN g = 1 .. n /\ DOMAIN f = 1 .. n + 1 /\ f[1] = Head(s).amount
      /\ \A i \in 1 .. n + 1 : f[i] \in Nat
      /\ \A i \in 1 .. n : g[i] = f[i + 1]
  <2> HIDE DEF t
  <2>1. 1 \in 1 .. n + 1 /\ \A i \in 1 .. n : i + 1 \in 1 .. n + 1
    BY <1>1
  <2> QED BY <1>1, <1>2, <1>3, <2>1
<1> HIDE DEF f, g, n
<1>5. SumFunctionOnSet(f, 1 .. n + 1) = f[1] + SumFunctionOnSet(g, 1 .. n)
  BY <1>1, <1>4, SumFirst
<1> QED BY <1>1, <1>2, <1>4, <1>5 DEF SumAmounts, SumFunction, f, g

(* The entries of a list at some of its places. *)
Step(q, I, g, n) == IF n \in I THEN Append(g[n - 1], q[n]) ELSE g[n - 1]
Choosing(g, q, I, m) == g = [n \in 0 .. m |-> IF n = 0 THEN << >> ELSE Step(q, I, g, n)]

LEMMA ChoosingExists == ASSUME NEW q, NEW I PROVE \A m \in Nat : \E g : Choosing(g, q, I, m)
<1> DEFINE P == {m \in Nat : \E g : Choosing(g, q, I, m)}
<1>1. ASSUME NEW m \in Nat, \A k \in 0 .. m - 1 : k \in P
      PROVE  m \in P
  <2>1. CASE m = 0
    <3> DEFINE g == [n \in 0 .. m |-> << >>]
    <3>1. \A n \in 0 .. m : n = 0
      BY <2>1
    <3>2. Choosing(g, q, I, m)
      BY <3>1 DEF Choosing
    <3> QED BY <3>2
  <2>2. CASE m # 0
    <3>1. m - 1 \in P /\ m - 1 \in Nat
      BY <1>1, <2>2
    <3>2. PICK g : Choosing(g, q, I, m - 1)
      BY <3>1
    <3> DEFINE h == [n \in 0 .. m |-> IF n = m THEN Step(q, I, g, m) ELSE g[n]]
    <3>3. /\ g[0] = << >>
          /\ \A n \in 1 .. m - 1 : g[n] = Step(q, I, g, n)
      BY <3>1, <3>2 DEF Choosing
    <3>4. ASSUME NEW n \in 0 .. m
          PROVE  h[n] = IF n = 0 THEN << >> ELSE Step(q, I, h, n)
      <4>1. CASE n = 0
        BY <2>2, <3>3, <4>1
      <4>2. CASE n \in 1 .. m
        <5>1. n - 1 \in 0 .. m /\ n - 1 # m
          BY <4>2
        <5>2. h[n - 1] = g[n - 1]
          BY <5>1
        <5>3. Step(q, I, h, n) = Step(q, I, g, n)
          BY <5>2 DEF Step
        <5>4. h[n] = Step(q, I, g, n)
          <6>1. CASE n = m
            BY <6>1
          <6>2. CASE n # m
            <7>1. n \in 1 .. m - 1
              BY <4>2, <6>2
            <7> QED BY <3>3, <6>2, <7>1
          <6> QED BY <6>1, <6>2
        <5> QED BY <4>2, <5>3, <5>4
      <4> QED BY <4>1, <4>2
    <3>5. h = [n \in 0 .. m |-> h[n]]
      OBVIOUS
    <3> HIDE DEF h
    <3>6. h = [n \in 0 .. m |-> IF n = 0 THEN << >> ELSE Step(q, I, h, n)]
      BY <3>4, <3>5
    <3>7. Choosing(h, q, I, m)
      BY <3>6 DEF Choosing
    <3> QED BY <3>7
  <2> QED BY <2>1, <2>2
<1> HIDE DEF P
<1>2. \A m \in Nat : m \in P
  BY <1>1, StrongInduction
<1> QED BY <1>2 DEF P

LEMMA ChosenIs ==
  ASSUME NEW q, Len(q) \in Nat, NEW I
  PROVE  \E g : /\ Chosen(q, I) = g[Len(q)] /\ g[0] = << >>
                /\ \A n \in 1 .. Len(q) : g[n] = Step(q, I, g, n)
<1> DEFINE g == CHOOSE h : Choosing(h, q, I, Len(q))
<1>1. Choosing(g, q, I, Len(q))
  BY ChoosingExists
<1>2. Chosen(q, I) = g[Len(q)]
  BY DEF Chosen, Choosing, Step
<1> HIDE DEF g
<1>3. g[0] = << >> /\ \A n \in 1 .. Len(q) : g[n] = Step(q, I, g, n)
  <2>1. 0 \in 0 .. Len(q) /\ \A n \in 1 .. Len(q) : n \in 0 .. Len(q) /\ n # 0
    OBVIOUS
  <2>2. \A n \in 0 .. Len(q) : g[n] = IF n = 0 THEN << >> ELSE Step(q, I, g, n)
    BY <1>1 DEF Choosing
  <2> QED BY <2>1, <2>2
<1> QED BY <1>2, <1>3

LEMMA ChosenSum ==
  ASSUME NEW T, Weighted(T), NEW q \in Seq(T), NEW I, NEW f, \A i \in DOMAIN q : f[i] = q[i].amount
  PROVE  /\ Chosen(q, I) \in Seq(T)
         /\ SumAmounts(Chosen(q, I)) = SumFunctionOnSet(f, I \cap DOMAIN q)
<1>1. DOMAIN q = 1 .. Len(q) /\ Len(q) \in Nat /\ \A i \in DOMAIN q : q[i] \in T /\ f[i] \in Nat
  BY ListSum
<1>2. PICK g : /\ Chosen(q, I) = g[Len(q)] /\ g[0] = << >>
               /\ \A n \in 1 .. Len(q) : g[n] = Step(q, I, g, n)
  BY <1>1, ChosenIs
<1> DEFINE R(n) == g[n] \in Seq(T) /\ SumAmounts(g[n]) = SumFunctionOnSet(f, I \cap (1 .. n))
           P == {n \in Nat : n <= Len(q) => R(n)}
<1>3. ASSUME NEW n \in Nat, \A k \in 0 .. n - 1 : k \in P
      PROVE  n \in P
  <2> SUFFICES ASSUME n <= Len(q) PROVE R(n)
    OBVIOUS
  <2>1. CASE n = 0
    <3> DEFINE A == I \cap (1 .. n)
    <3>1. A = {} /\ g[n] = << >>
      BY <1>2, <2>1
    <3> HIDE DEF A
    <3>2. SumFunctionOnSet(f, A) = 0
      BY <3>1, SumEmpty
    <3>3. g[n] \in Seq(T) /\ SumAmounts(g[n]) = 0
      BY <3>1, EmptySum
    <3> QED BY <3>2, <3>3 DEF A
  <2>2. CASE n # 0
    <3> DEFINE m == n - 1
    <3>1. m \in Nat /\ m \in 0 .. n - 1 /\ m <= Len(q) /\ n = m + 1 /\ n \in 1 .. Len(q)
      BY <1>1, <2>2
    <3>2. R(m)
      BY <1>3, <3>1
    <3>3. g[n] = IF n \in I THEN Append(g[m], q[n]) ELSE g[m]
      BY <1>2, <3>1 DEF Step
    <3>4. q[n] \in T /\ f[n] = q[n].amount
      BY <1>1, <3>1
    <3>5. 1 .. n = (1 .. m) \cup {n} /\ n \notin 1 .. m
      BY <3>1
    <3>6. CASE n \in I
      <4> DEFINE A == I \cap (1 .. n)
      <4>1. A \ {n} = I \cap (1 .. m) /\ n \in A
        BY <3>5, <3>6
      <4>2. IsFiniteSet(A)
        <5>1. IsFiniteSet(1 .. n) /\ A \subseteq 1 .. n
          BY FS_Interval
        <5> QED BY <5>1, FS_Subset
      <4>3. \A i \in A : f[i] \in Int
        BY <1>1
      <4> HIDE DEF A, m
      <4>4. SumFunctionOnSet(f, A) = f[n] + SumFunctionOnSet(f, A \ {n})
        BY <4>1, <4>2, <4>3, SumTake
      <4>5. g[n] \in Seq(T) /\ SumAmounts(g[n]) = SumAmounts(g[m]) + q[n].amount
        BY <3>2, <3>3, <3>4, <3>6, AppendSum
      <4>6. SumAmounts(g[m]) \in Nat /\ f[n] \in Nat
        BY <1>1, <3>1, <3>2, ListSum
      <4>7. SumAmounts(g[m]) = SumFunctionOnSet(f, A \ {n})
        BY <3>2, <4>1
      <4>8. SumAmounts(g[n]) = SumFunctionOnSet(f, A)
        BY <3>4, <4>4, <4>5, <4>6, <4>7
      <4> QED BY <4>5, <4>8 DEF A
    <3>7. CASE n \notin I
      <4>1. I \cap (1 .. n) = I \cap (1 .. m) /\ g[n] = g[m]
        BY <3>3, <3>5, <3>7
      <4> QED BY <3>2, <4>1
    <3> QED BY <3>6, <3>7
  <2> QED BY <2>1, <2>2
<1> HIDE DEF P
<1>4. \A n \in Nat : n \in P
  BY <1>3, StrongInduction
<1>5. R(Len(q))
  BY <1>1, <1>4 DEF P
<1> QED BY <1>1, <1>2, <1>5

(* What has matured and what has not add up to the queue. *)
LEMMA QueueSplits ==
  ASSUME NEW q \in Seq(UnbondingEntry)
  PROVE  /\ Matured(q) \in Seq(UnbondingEntry) /\ Pending(q) \in Seq(UnbondingEntry)
         /\ SumAmounts(Matured(q)) + SumAmounts(Pending(q)) = SumAmounts(q)
<1> DEFINE f == [i \in DOMAIN q |-> q[i].amount]
           A == {i \in DOMAIN q : IsMature(q[i])}
           B == {i \in DOMAIN q : ~IsMature(q[i])}
<1>1. DOMAIN q = 1 .. Len(q) /\ Len(q) \in Nat /\ \A i \in DOMAIN q : q[i].amount \in Nat
  BY Weights, ListSum
<1>2. /\ A \cap DOMAIN q = A /\ B \cap DOMAIN q = B /\ A \cap B = {} /\ A \cup B = DOMAIN q
      /\ DOMAIN f = DOMAIN q /\ \A i \in DOMAIN q : f[i] = q[i].amount
  OBVIOUS
<1>3. Matured(q) = Chosen(q, A) /\ Pending(q) = Chosen(q, B)
  BY DEF Matured, Pending
<1>4. SumAmounts(q) = SumFunctionOnSet(f, A \cup B)
  BY <1>2 DEF SumAmounts, SumFunction
<1> HIDE DEF f, A, B
<1>5. /\ Matured(q) \in Seq(UnbondingEntry) /\ SumAmounts(Matured(q)) = SumFunctionOnSet(f, A)
      /\ Pending(q) \in Seq(UnbondingEntry) /\ SumAmounts(Pending(q)) = SumFunctionOnSet(f, B)
  BY <1>2, <1>3, Weights, ChosenSum
<1>6. IsFiniteSet(A) /\ IsFiniteSet(B)
  <2>1. IsFiniteSet(DOMAIN q)
    BY <1>1, FS_Interval
  <2>2. A \subseteq DOMAIN q /\ B \subseteq DOMAIN q
    BY <1>2
  <2> QED BY <2>1, <2>2, FS_Subset
<1>7. \A i \in A \cup B : f[i] \in Int
  BY <1>1, <1>2
<1>8. SumFunctionOnSet(f, A \cup B) = SumFunctionOnSet(f, A) + SumFunctionOnSet(f, B)
  BY <1>2, <1>6, <1>7, SumDisjoint
<1> QED BY <1>4, <1>5, <1>8

LEMMA ProcessFacts ==
  ASSUME TypeInv, ProcessUnbondings
  PROVE  /\ unbonding \in Seq(UnbondingEntry) /\ matured = << >>
         /\ matured' \in Seq(UnbondingEntry) /\ unbonding' \in Seq(UnbondingEntry)
         /\ SumAmounts(matured') + SumAmounts(unbonding') = SumAmounts(unbonding)
         /\ producer = "unbond" /\ producer' = "pay"
         /\ UNCHANGED <<validators, delegations, total, history, bal, height, job,
                        lock, seenTotal, record, requests, gone>>
<1>1. unbonding \in Seq(UnbondingEntry) /\ (producer # "pay" => matured = << >>)
  BY DEF TypeInv, STypeOK, ProducerInv
<1>2. /\ matured' = Matured(unbonding) /\ unbonding' = Pending(unbonding)
      /\ producer = "unbond" /\ producer' = "pay"
      /\ UNCHANGED <<validators, delegations, total, history, bal, height, job,
                     lock, seenTotal, record, requests, gone>>
  BY DEF ProcessUnbondings
<1> QED BY <1>1, <1>2, QueueSplits

LEMMA CreditFacts ==
  ASSUME TypeInv, CreditMatured
  PROVE  /\ matured \in Seq(UnbondingEntry) /\ matured # << >> /\ producer = "pay"
         /\ Head(matured) \in UnbondingEntry /\ Head(matured).delegator \in Delegator
         /\ Head(matured).amount \in Nat
         /\ bal \in [Delegator -> Nat]
         /\ bal' = [bal EXCEPT ![Head(matured).delegator] =
                      bal[Head(matured).delegator] + Head(matured).amount]
         /\ matured' = Tail(matured) /\ matured' \in Seq(UnbondingEntry)
         /\ SumAmounts(matured) = Head(matured).amount + SumAmounts(matured')
         /\ UNCHANGED <<bookVars, height, job, lock, producer, seenTotal, record,
                        requests, gone>>
<1>1. matured \in Seq(UnbondingEntry) /\ bal \in [Delegator -> Nat]
  BY DEF TypeInv, STypeOK
<1>2. /\ producer = "pay" /\ matured # << >> /\ matured' = Tail(matured)
      /\ bal' = [bal EXCEPT ![Head(matured).delegator] =
                   bal[Head(matured).delegator] + Head(matured).amount]
      /\ UNCHANGED <<bookVars, height, job, lock, producer, seenTotal, record,
                     requests, gone>>
  BY DEF CreditMatured
<1>3. /\ Head(matured) \in UnbondingEntry /\ Tail(matured) \in Seq(UnbondingEntry)
      /\ SumAmounts(matured) = Head(matured).amount + SumAmounts(Tail(matured))
  BY <1>1, <1>2, TailSum, Weights
<1>4. Head(matured).delegator \in Delegator /\ Head(matured).amount \in Nat
  BY <1>3 DEF UnbondingEntry
<1> QED BY <1>1, <1>2, <1>3, <1>4

LEMMA ProducerTypes ==
  ASSUME TypeInv, BeginRewards \/ ProcessUnbondings \/ CreditMatured \/ EndBlock
  PROVE  TypeInv'
<1>1. CASE BeginRewards
  <2>1. /\ producer = "idle" /\ height < MaxHeight /\ height' = height + 1 /\ seenTotal' = total
        /\ producer' = IF total = 0 THEN "unbond" ELSE "rewards"
        /\ UNCHANGED <<bookVars, bal, job, lock, matured, record, requests, gone>>
    BY <1>1 DEF BeginRewards
  <2>2. LockInv' /\ ValidatorsInv'
    BY <2>1, ProducerStep DEF bookVars
  <2>3. height' \in 0 .. MaxHeight
    <3>1. height \in 0 .. MaxHeight
      BY DEF TypeInv, STypeOK
    <3> QED BY <2>1, <3>1, Numbers
  <2>4. STypeOK'
    BY <2>1, <2>3 DEF TypeInv, STypeOK, bookVars
  <2>5. ProducerInv'
    <3>1. total \in Nat /\ matured = << >>
      BY <2>1 DEF TypeInv, STypeOK, ProducerInv
    <3> QED BY <2>1, <3>1 DEF ProducerInv
  <2> QED BY <2>2, <2>4, <2>5 DEF TypeInv
<1>2. CASE ProcessUnbondings
  <2>1. /\ matured' \in Seq(UnbondingEntry) /\ unbonding' \in Seq(UnbondingEntry)
        /\ producer' = "pay"
        /\ UNCHANGED <<validators, delegations, total, history, bal, height, job,
                       lock, seenTotal, record, requests, gone>>
    BY <1>2, ProcessFacts
  <2>2. LockInv' /\ ValidatorsInv'
    BY <2>1, ProducerStep
  <2>3. STypeOK'
    BY <2>1 DEF TypeInv, STypeOK
  <2>4. ProducerInv'
    BY <2>1 DEF ProducerInv
  <2> QED BY <2>2, <2>3, <2>4 DEF TypeInv
<1>3. CASE CreditMatured
  <2> DEFINE d == Head(matured).delegator
             n == Head(matured).amount
  <2>1. /\ d \in Delegator /\ n \in Nat /\ bal \in [Delegator -> Nat]
        /\ bal' = [bal EXCEPT ![d] = bal[d] + n]
        /\ matured' \in Seq(UnbondingEntry) /\ producer = "pay"
        /\ UNCHANGED <<bookVars, height, job, lock, producer, seenTotal, record,
                       requests, gone>>
    BY <1>3, CreditFacts
  <2>2. LockInv' /\ ValidatorsInv'
    BY <2>1, ProducerStep DEF bookVars
  <2> HIDE DEF d, n
  <2>3. bal' \in [Delegator -> Nat]
    <3>1. bal[d] + n \in Nat
      BY <2>1
    <3> QED BY <2>1, <3>1
  <2>4. STypeOK'
    BY <2>1, <2>3 DEF TypeInv, STypeOK, bookVars
  <2>5. ProducerInv'
    BY <2>1 DEF ProducerInv
  <2> QED BY <2>2, <2>4, <2>5 DEF TypeInv
<1>4. CASE EndBlock
  <2>1. /\ matured = << >> /\ producer' = "idle"
        /\ UNCHANGED <<bookVars, bal, height, job, lock, seenTotal, matured, record,
                       requests, gone>>
    BY <1>4 DEF EndBlock
  <2>2. LockInv' /\ ValidatorsInv'
    BY <2>1, ProducerStep DEF bookVars
  <2>3. STypeOK'
    BY <2>1 DEF TypeInv, STypeOK, bookVars
  <2>4. ProducerInv'
    BY <2>1 DEF ProducerInv
  <2> QED BY <2>2, <2>3, <2>4 DEF TypeInv
<1> QED BY <1>1, <1>2, <1>3, <1>4

LEMMA InitType == Init => TypeInv
<1> SUFFICES ASSUME Init PROVE TypeInv
  OBVIOUS
<1>1. STypeOK
  <2>1. /\ bal \in [Delegator -> Nat] /\ job \in [Job -> Request \cup {Free}]
        /\ validators \in [Validator -> ValidatorStake \cup {NoValidator}]
        /\ delegations \in [Delegator -> Seq(Delegation)]
    BY Numbers DEF Init
  <2>2. unbonding \in Seq(UnbondingEntry) /\ matured \in Seq(UnbondingEntry)
    BY DEF Init
  <2>3. total \in Nat /\ height \in 0 .. MaxHeight /\ history \subseteq Validator
        /\ lock \in Job \cup {Free} /\ producer \in {"idle", "rewards", "unbond", "pay"}
        /\ seenTotal \in Nat /\ record \in [total: Nat, given: Nat]
        /\ requests \in 0 .. MaxRequests /\ gone \in Nat
    BY Numbers DEF Init
  <2> QED BY <2>1, <2>2, <2>3 DEF STypeOK
<1>2. LockInv /\ ValidatorsInv /\ ProducerInv
  BY DEF Init, LockInv, ValidatorsInv, ProducerInv, Holds
<1> QED BY <1>1, <1>2 DEF TypeInv

LEMMA StutterType == ASSUME TypeInv, UNCHANGED vars PROVE TypeInv'
<1>1. /\ bal' = bal /\ validators' = validators /\ delegations' = delegations
      /\ unbonding' = unbonding /\ total' = total /\ height' = height /\ history' = history
      /\ job' = job /\ lock' = lock /\ producer' = producer /\ seenTotal' = seenTotal
      /\ matured' = matured /\ record' = record /\ requests' = requests /\ gone' = gone
  BY DEF vars
<1>2. LockInv' /\ ValidatorsInv'
  BY <1>1, ProducerStep
<1>3. STypeOK' /\ ProducerInv'
  BY <1>1 DEF TypeInv, STypeOK, ProducerInv
<1> QED BY <1>2, <1>3 DEF TypeInv

LEMMA JobTypes == ASSUME TypeInv, NEW j \in Job, JobStep(j) PROVE TypeInv'
<1>1. CASE RegisterValidator(j) \/ LockForDelegation(j) \/ LockForSlash(j)
           \/ RefuseUndelegation(j) \/ RefuseDelegation(j)
  BY <1>1, QuietMove
<1>2. CASE InsertValidator(j) \/ InsertRegistered(j)
  BY <1>2, InsertType
<1>3. CASE ReadHeight(j) \/ Delegate(j) \/ ReduceDelegation(j) \/ ReduceValidator(j)
  BY <1>3, ReadHeightType, DelegateType, ReduceType, RelieveType
<1>4. CASE ReduceTotal(j) \/ QueueUnbonding(j)
  BY <1>4, TallyTypes
<1>5. CASE SlashStake(j) \/ SlashUnbonding(j) \/ ReleaseFromJail(j)
  BY <1>5, SlashType, CutType, ReleaseType
<1> QED BY <1>1, <1>2, <1>3, <1>4, <1>5 DEF JobStep

LEMMA TypeStep == TypeInv /\ [Next]_vars => TypeInv'
<1> SUFFICES ASSUME TypeInv, [Next]_vars PROVE TypeInv'
  OBVIOUS
<1>1. CASE NewRequest
  <2>1. PICK j \in Job : \E v \in Validator :
          \/ \E stake \in SelfStake, c \in Commission : CreateValidator(j, v, stake, c)
          \/ \E d \in Delegator, amt \in Amount :
               DeductForDelegation(j, d, v, amt) \/ Undelegate(j, d, v, amt)
          \/ \E p \in SlashPercent : Slash(j, v, p) \/ RecordBlockMissed(j, v, p)
          \/ Unjail(j, v)
          \/ WithdrawValidatorRewards(v)
          \/ \E d \in Delegator : WithdrawDelegatorRewards(d, v)
    BY <1>1 DEF NewRequest
  <2>2. PICK v \in Validator :
          \/ \E stake \in SelfStake, c \in Commission : CreateValidator(j, v, stake, c)
          \/ \E d \in Delegator, amt \in Amount :
               DeductForDelegation(j, d, v, amt) \/ Undelegate(j, d, v, amt)
          \/ \E p \in SlashPercent : Slash(j, v, p) \/ RecordBlockMissed(j, v, p)
          \/ Unjail(j, v)
          \/ WithdrawValidatorRewards(v)
          \/ \E d \in Delegator : WithdrawDelegatorRewards(d, v)
    BY <2>1
  <2>3. CASE \/ \E stake \in SelfStake, c \in Commission : CreateValidator(j, v, stake, c)
             \/ \E d \in Delegator, amt \in Amount :
                  DeductForDelegation(j, d, v, amt) \/ Undelegate(j, d, v, amt)
             \/ \E p \in SlashPercent : Slash(j, v, p)
             \/ Unjail(j, v)
    BY <2>3, Accepted
  <2>4. CASE \E p \in SlashPercent : RecordBlockMissed(j, v, p)
    BY <2>4, MissedType
  <2>5. CASE WithdrawValidatorRewards(v)
    BY <2>5, RewrittenType
  <2>6. CASE \E d \in Delegator : WithdrawDelegatorRewards(d, v)
    BY <2>6, WithdrawType
  <2> QED BY <2>2, <2>3, <2>4, <2>5, <2>6
<1>2. CASE \E j \in Job : JobStep(j)
  BY <1>2, JobTypes
<1>3. CASE Producer
  <2>1. CASE \E v \in Validator : RecordBlockSigned(v)
    BY <2>1, RewrittenType
  <2>2. CASE DistributeRewards
    BY <2>2, DistributeType
  <2>3. CASE BeginRewards \/ ProcessUnbondings \/ CreditMatured \/ EndBlock
    BY <2>3, ProducerTypes
  <2> QED BY <1>3, <2>1, <2>2, <2>3 DEF Producer
<1>4. CASE UNCHANGED vars
  BY <1>4, StutterType
<1> QED BY <1>1, <1>2, <1>3, <1>4 DEF Next

(* Every record stays well formed: a job carries what its operation needs, *)
(* no amount, stake or reward goes below zero, and a validator has an      *)
(* entry from its registration on (staking.rs).                            *)
THEOREM TypeCorrect == Spec => []STypeOK
<1>1. TypeInv => STypeOK
  BY DEF TypeInv
<1> QED BY <1>1, InitType, TypeStep, PTL DEF Spec

(* Only one request at a time is between taking the validators and giving  *)
(* them back, and the entry it is going to write is there, or still absent *)
(* if it registers a validator (create_validator, delegate,                *)
(* slash_validator, unjail_validator).  undelegate keeps no lock from one  *)
(* of its steps to the next and finds its entry because none is removed.   *)
THEOREM LockIsExclusive == Spec => [](LockInv /\ ValidatorsInv)
<1>1. TypeInv => LockInv /\ ValidatorsInv
  BY DEF TypeInv
<1> QED BY <1>1, InitType, TypeStep, PTL DEF Spec

-----------------------------------------------------------------------------
(* What requests carry.                                                    *)

Requested == {"register", "insert", "start", "locked", "timed"}
Withdrawn == {"reduced", "taken", "queue"}

(* The operations that carry an amount. *)
Paying == {"delegate", "undelegate"}

LEMMA CarriedType ==
  ASSUME NEW r \in Requests, NEW op \in Paying, NEW points
  PROVE  Carried(r, op, points) \in Nat
<1>0. op = "delegate" \/ op = "undelegate"
  BY DEF Paying
<1>1. CASE r # Free /\ r.op = op
  <2>1. r \in Request
    BY <1>1 DEF Requests
  <2>2. r \in Delegating \/ r \in Undelegating
    BY <1>0, <1>1, <2>1, RequestFields
  <2>3. r.amount \in Nat
    BY <2>2, Numbers DEF Delegating, Undelegating
  <2> QED BY <2>3 DEF Carried
<1>2. CASE ~(r # Free /\ r.op = op)
  BY <1>2 DEF Carried
<1> QED BY <1>1, <1>2

LEMMA LeavingType ==
  ASSUME NEW r \in Requests, NEW v
  PROVE  Leaving(r, v) \in Nat
BY CarriedType DEF Leaving, Paying

(* Both requests carry the same. *)
SameFlow(r, q) ==
  /\ Carried(r, "delegate", Requested) = Carried(q, "delegate", Requested)
  /\ Carried(r, "undelegate", Withdrawn) = Carried(q, "undelegate", Withdrawn)
  /\ Carried(r, "undelegate", {"taken"}) = Carried(q, "undelegate", {"taken"})
  /\ \A v \in Validator : Leaving(r, v) = Leaving(q, v)

Idle(r) ==
  r # Free => r.op # "delegate" /\ (r.op = "undelegate" => r.at \in {"start", "timed"})

LEMMA NothingCarried ==
  ASSUME NEW r, Idle(r)
  PROVE  /\ Carried(r, "delegate", Requested) = 0
         /\ Carried(r, "undelegate", Withdrawn) = 0
         /\ Carried(r, "undelegate", {"taken"}) = 0
         /\ \A v \in Validator : Leaving(r, v) = 0
BY DEF Idle, Carried, Leaving, Withdrawn

LEMMA IdleFlow == ASSUME NEW r, NEW q, Idle(r), Idle(q) PROVE SameFlow(r, q)
BY NothingCarried DEF SameFlow

LEMMA DelegateFlow ==
  ASSUME NEW r, NEW q, r # Free, q # Free, r.op = "delegate", q.op = "delegate",
         r.at \in Requested, q.at \in Requested, r.amount = q.amount
  PROVE  SameFlow(r, q)
BY DEF SameFlow, Carried, Leaving

(* Of the requests, that of j becomes r. *)
Becomes(old, new, j, r) ==
  \A k \in Job : old[k] \in Requests /\ new[k] = IF k = j THEN r ELSE old[k]

LEMMA JobBecomes ==
  ASSUME TypeInv, NEW j \in Job, NEW r, job' = [job EXCEPT ![j] = r]
  PROVE  Becomes(job, job', j, r) /\ job[j] \in Requests
BY DEF TypeInv, STypeOK, Requests, Becomes

(* A sum over the requests when one of them goes on. *)
LEMMA FlowSum ==
  ASSUME NEW f, NEW g, DOMAIN f = Job, DOMAIN g = Job, NEW j \in Job,
         \A k \in Job : f[k] \in Nat /\ g[k] \in Nat,
         \A k \in Job \ {j} : g[k] = f[k]
  PROVE  /\ SumFunction(f) \in Nat
         /\ SumFunction(g) = SumFunction(f) + g[j] - f[j]
<1>1. IsFiniteSet(Job)
  BY Finite
<1>2. \A k \in Job : f[k] \in Int /\ g[k] \in Int
  OBVIOUS
<1>3. SumFunctionOnSet(g, Job) = SumFunctionOnSet(f, Job) + g[j] - f[j]
  BY <1>1, <1>2, SumUpdate
<1>4. SumFunctionOnSet(f, Job) \in Nat
  BY <1>1, SumNat
<1> QED BY <1>3, <1>4 DEF SumFunction

FlowOf(q, op, points) == SumFunction([k \in Job |-> Carried(q[k], op, points)])
LeavingOf(q, v) == SumFunction([k \in Job |-> Leaving(q[k], v)])

LEMMA CarriedSum ==
  ASSUME NEW old, NEW new, NEW j \in Job, NEW r \in Requests, Becomes(old, new, j, r),
         NEW op \in Paying, NEW points
  PROVE  /\ FlowOf(old, op, points) \in Nat
         /\ FlowOf(new, op, points) =
              FlowOf(old, op, points) + Carried(r, op, points) - Carried(old[j], op, points)
<1> DEFINE f == [k \in Job |-> Carried(old[k], op, points)]
           g == [k \in Job |-> Carried(new[k], op, points)]
<1>1. \A k \in Job : f[k] \in Nat /\ g[k] \in Nat
  BY CarriedType DEF Becomes
<1>2. /\ DOMAIN f = Job /\ DOMAIN g = Job /\ \A k \in Job \ {j} : g[k] = f[k]
      /\ g[j] = Carried(r, op, points) /\ f[j] = Carried(old[j], op, points)
  BY DEF Becomes
<1> HIDE DEF f, g
<1>3. SumFunction(f) \in Nat /\ SumFunction(g) = SumFunction(f) + g[j] - f[j]
  BY <1>1, <1>2, FlowSum
<1> QED BY <1>2, <1>3 DEF FlowOf, f, g

LEMMA LeavingSum ==
  ASSUME NEW old, NEW new, NEW j \in Job, NEW r \in Requests, Becomes(old, new, j, r), NEW v
  PROVE  /\ LeavingOf(old, v) \in Nat /\ Leaving(old[j], v) <= LeavingOf(old, v)
         /\ LeavingOf(new, v) = LeavingOf(old, v) + Leaving(r, v) - Leaving(old[j], v)
<1> DEFINE f == [k \in Job |-> Leaving(old[k], v)]
           g == [k \in Job |-> Leaving(new[k], v)]
<1>1. \A k \in Job : f[k] \in Nat /\ g[k] \in Nat
  BY LeavingType DEF Becomes
<1>2. /\ DOMAIN f = Job /\ DOMAIN g = Job /\ \A k \in Job \ {j} : g[k] = f[k]
      /\ g[j] = Leaving(r, v) /\ f[j] = Leaving(old[j], v)
  BY DEF Becomes
<1> HIDE DEF f, g
<1>3. SumFunction(f) \in Nat /\ SumFunction(g) = SumFunction(f) + g[j] - f[j]
  BY <1>1, <1>2, FlowSum
<1>4. f[j] <= SumFunction(f)
  <2>1. IsFiniteSet(Job)
    BY Finite
  <2>2. \A k \in Job : f[k] \in Int
    BY <1>1
  <2>3. SumFunctionOnSet(f, Job) = f[j] + SumFunctionOnSet(f, Job \ {j})
    BY <2>1, <2>2, SumTake
  <2>4. SumFunctionOnSet(f, Job \ {j}) \in Nat
    <3>1. IsFiniteSet(Job \ {j})
      BY <2>1, FS_RemoveElement
    <3>2. \A k \in Job \ {j} : f[k] \in Nat
      BY <1>1
    <3> QED BY <3>1, <3>2, SumNat
  <2>5. f[j] \in Nat
    BY <1>1
  <2> QED BY <1>2, <2>3, <2>4, <2>5 DEF SumFunction
<1> QED BY <1>2, <1>3, <1>4 DEF LeavingOf, f, g

(* The slash of r has cut the stake of a validator and not its queue. *)
Cuts(r) == r # Free /\ r.op = "slash" /\ r.at = "queue"

(* A request goes on without anything moving. *)
Quiet(j) ==
  \/ \E v \in Validator :
       \/ \E stake \in SelfStake, c \in Commission : CreateValidator(j, v, stake, c)
       \/ \E d \in Delegator, amt \in Amount : Undelegate(j, d, v, amt)
       \/ \E p \in SlashPercent : Slash(j, v, p)
       \/ Unjail(j, v)
  \/ ReadHeight(j) \/ RegisterValidator(j) \/ LockForDelegation(j) \/ LockForSlash(j)
  \/ RefuseUndelegation(j)

LEMMA IdleFree == Idle(Free) /\ ~Cuts(Free) /\ Free \in Requests
BY DEF Idle, Cuts, Requests

LEMMA QuietFlow ==
  ASSUME TypeInv, NEW j \in Job, Quiet(j)
  PROVE  /\ \E r \in Requests : job' = [job EXCEPT ![j] = r] /\ SameFlow(r, job[j])
         /\ ~Cuts(job[j]) /\ UNCHANGED <<bookVars, producerVars, bal, gone>>
<1> DEFINE q == job[j]
           Goal == \E r \in Requests : job' = [job EXCEPT ![j] = r] /\ SameFlow(r, q)
<1>1. ASSUME NEW v \in Validator, NEW stake \in SelfStake, NEW c \in Commission,
             CreateValidator(j, v, stake, c)
      PROVE  Goal /\ ~Cuts(q) /\ UNCHANGED <<bookVars, producerVars, bal, gone>>
  <2> DEFINE r == [op |-> "create", at |-> "locked", validator |-> v,
                   stake |-> stake, commission |-> c, height |-> 0]
  <2>1. Accept(j, r) /\ UNCHANGED <<bookVars, producerVars, bal, gone>>
    BY <1>1 DEF CreateValidator
  <2>2. r \in Requests /\ Idle(r)
    BY Numbers DEF Creating, Request, Requests, Idle
  <2> HIDE DEF r
  <2>3. job' = [job EXCEPT ![j] = r] /\ q = Free
    BY <2>1, MayAccept
  <2> QED BY <2>1, <2>2, <2>3, IdleFlow, IdleFree
<1>2. ASSUME NEW v \in Validator, NEW d \in Delegator, NEW amt \in Amount, Undelegate(j, d, v, amt)
      PROVE  Goal /\ ~Cuts(q) /\ UNCHANGED <<bookVars, producerVars, bal, gone>>
  <2> DEFINE r == [op |-> "undelegate", at |-> "start", validator |-> v,
                   delegator |-> d, amount |-> amt, height |-> 0]
  <2>1. Accept(j, r) /\ UNCHANGED <<bookVars, producerVars, bal, gone>>
    BY <1>2 DEF Undelegate
  <2>2. r \in Requests /\ Idle(r)
    BY DEF Undelegating, Request, Requests, Idle
  <2> HIDE DEF r
  <2>3. job' = [job EXCEPT ![j] = r] /\ q = Free
    BY <2>1, MayAccept
  <2> QED BY <2>1, <2>2, <2>3, IdleFlow, IdleFree
<1>3. ASSUME NEW v \in Validator, NEW p \in SlashPercent, Slash(j, v, p)
      PROVE  Goal /\ ~Cuts(q) /\ UNCHANGED <<bookVars, producerVars, bal, gone>>
  <2> DEFINE r == [op |-> "slash", at |-> "start", validator |-> v,
                   percent |-> p, height |-> 0]
  <2>1. Accept(j, r) /\ UNCHANGED <<bookVars, producerVars, bal, gone>>
    BY <1>3 DEF Slash
  <2>2. r \in Requests /\ Idle(r)
    BY DEF Slashing, Request, Requests, Idle
  <2> HIDE DEF r
  <2>3. job' = [job EXCEPT ![j] = r] /\ q = Free
    BY <2>1, MayAccept
  <2> QED BY <2>1, <2>2, <2>3, IdleFlow, IdleFree
<1>4. ASSUME NEW v \in Validator, Unjail(j, v)
      PROVE  Goal /\ ~Cuts(q) /\ UNCHANGED <<bookVars, producerVars, bal, gone>>
  <2> DEFINE r == [op |-> "unjail", at |-> "locked", validator |-> v, height |-> 0]
  <2>1. Accept(j, r) /\ UNCHANGED <<bookVars, producerVars, bal, gone>>
    BY <1>4 DEF Unjail
  <2>2. r \in Requests /\ Idle(r)
    BY DEF Unjailing, Request, Requests, Idle
  <2> HIDE DEF r
  <2>3. job' = [job EXCEPT ![j] = r] /\ q = Free
    BY <2>1, MayAccept
  <2> QED BY <2>1, <2>2, <2>3, IdleFlow, IdleFree
<1>5. ASSUME ReadHeight(j)
      PROVE  Goal /\ ~Cuts(q) /\ UNCHANGED <<bookVars, producerVars, bal, gone>>
  <2> DEFINE r == [q EXCEPT !.at = "timed", !.height = height]
  <2>1. q \in Request /\ job \in [Job -> Request \cup {Free}] /\ height \in Nat
    BY <1>5, RequestOf, Numbers DEF ReadHeight, TypeInv, STypeOK
  <2>2. /\ q.at = IF q.op = "undelegate" THEN "start" ELSE "locked"
        /\ UNCHANGED <<bookVars, producerVars, bal, gone>>
    BY <1>5 DEF ReadHeight
  <2>3. job' = [job EXCEPT ![j] = r]
    BY <1>5, <2>1 DEF ReadHeight
  <2>4. CASE q.op = "delegate"
    <3>1. q \in Delegating
      BY <2>1, <2>4, RequestFields
    <3>2. r \in Delegating /\ r.amount = q.amount /\ r.at = "timed" /\ r.op = "delegate"
      BY <2>1, <2>4, <3>1 DEF Delegating
    <3>3. q.at \in Requested /\ r.at \in Requested /\ ~Cuts(q)
      BY <2>2, <2>4, <3>2 DEF Requested, Cuts
    <3>4. r \in Request /\ r # Free /\ q # Free
      BY <2>1, <3>2, RequestFields DEF Request
    <3> HIDE DEF r, q
    <3>5. SameFlow(r, q)
      BY <2>4, <3>2, <3>3, <3>4, DelegateFlow
    <3> QED BY <2>2, <2>3, <3>3, <3>4, <3>5 DEF Requests
  <2>5. CASE q.op # "delegate"
    <3>1. r \in Request /\ r.op = q.op /\ r.at = "timed"
      <4>1. CASE q.op = "create"
        BY <2>1, <4>1, RequestFields DEF Creating, Request
      <4>2. CASE q.op = "slash"
        BY <2>1, <4>2, RequestFields DEF Slashing, Request
      <4>3. CASE q.op = "unjail"
        BY <2>1, <4>3, RequestFields DEF Unjailing, Request
      <4>4. CASE q.op = "undelegate"
        BY <2>1, <4>4, RequestFields DEF Undelegating, Request
      <4> QED BY <2>1, <2>5, <4>1, <4>2, <4>3, <4>4, RequestFields
    <3> HIDE DEF r, q
    <3>2. Idle(r) /\ Idle(q) /\ ~Cuts(q)
      BY <2>2, <2>5, <3>1 DEF Idle, Cuts
    <3> QED BY <2>2, <2>3, <3>1, <3>2, IdleFlow DEF Requests
  <2> QED BY <2>4, <2>5
<1>6. ASSUME RegisterValidator(j) \/ LockForDelegation(j)
      PROVE  Goal /\ ~Cuts(q) /\ UNCHANGED <<bookVars, producerVars, bal, gone>>
  <2>1. PICK to \in {"start", "insert", "locked"} : GoTo(j, to)
    BY <1>6 DEF RegisterValidator, LockForDelegation
  <2> DEFINE r == [q EXCEPT !.at = to]
  <2>2. PICK at \in {"register", "start"} : At(j, "delegate", at)
    BY <1>6 DEF RegisterValidator, LockForDelegation
  <2>3. q \in Request /\ q # Free /\ q.op = "delegate" /\ q.at = at /\ job' = [job EXCEPT ![j] = r]
    BY <2>1, <2>2, WentTo DEF At
  <2>4. r \in Delegating /\ r.op = "delegate" /\ r.at = to /\ r.amount = q.amount
    BY <2>3, RequestMoves
  <2>5. UNCHANGED <<bookVars, producerVars, bal, gone>>
    BY <1>6 DEF RegisterValidator, LockForDelegation
  <2>6. r \in Request /\ r # Free
    BY <2>4, RequestFields DEF Request
  <2> HIDE DEF r, q
  <2>7. SameFlow(r, q) /\ ~Cuts(q)
    BY <2>3, <2>4, <2>6, DelegateFlow DEF Requested, Cuts
  <2> QED BY <2>3, <2>5, <2>6, <2>7 DEF Requests
<1>7. ASSUME LockForSlash(j)
      PROVE  Goal /\ ~Cuts(q) /\ UNCHANGED <<bookVars, producerVars, bal, gone>>
  <2> DEFINE r == [q EXCEPT !.at = "locked"]
  <2>1. At(j, "slash", "start") /\ GoTo(j, "locked") /\ UNCHANGED <<bookVars, producerVars, bal, gone>>
    BY <1>7 DEF LockForSlash
  <2>2. q \in Request /\ q.op = "slash" /\ q.at = "start" /\ job' = [job EXCEPT ![j] = r]
    BY <2>1, WentTo
  <2>3. r \in Slashing /\ r.op = "slash"
    BY <2>2, RequestMoves
  <2> HIDE DEF r, q
  <2>4. r \in Requests /\ Idle(r) /\ Idle(q) /\ ~Cuts(q)
    BY <2>2, <2>3 DEF Request, Requests, Idle, Cuts
  <2> QED BY <2>1, <2>2, <2>4, IdleFlow
<1>8. ASSUME RefuseUndelegation(j)
      PROVE  Goal /\ ~Cuts(q) /\ UNCHANGED <<bookVars, producerVars, bal, gone>>
  <2>1. /\ At(j, "undelegate", "timed") /\ Return(j)
        /\ UNCHANGED <<bookVars, producerVars, bal, gone>>
    BY <1>8 DEF RefuseUndelegation
  <2>2. job' = [job EXCEPT ![j] = Free] /\ q.op = "undelegate" /\ q.at = "timed"
    BY <2>1, Returned DEF At
  <2> HIDE DEF q
  <2>3. Idle(q) /\ ~Cuts(q)
    BY <2>2 DEF Idle, Cuts
  <2> QED BY <2>1, <2>2, <2>3, IdleFlow, IdleFree
<1> QED BY <1>1, <1>2, <1>3, <1>4, <1>5, <1>6, <1>7, <1>8 DEF Quiet

(* The requests add up to the same when one goes on and carries the same. *)
LEMMA SameCarried ==
  ASSUME NEW old, NEW new, NEW j \in Job, NEW r \in Requests, Becomes(old, new, j, r),
         SameFlow(r, old[j])
  PROVE  /\ FlowOf(new, "delegate", Requested) = FlowOf(old, "delegate", Requested)
         /\ FlowOf(new, "undelegate", Withdrawn) = FlowOf(old, "undelegate", Withdrawn)
         /\ FlowOf(new, "undelegate", {"taken"}) = FlowOf(old, "undelegate", {"taken"})
         /\ \A v \in Validator : LeavingOf(new, v) = LeavingOf(old, v)
<1>1. ASSUME NEW op \in Paying, NEW points, Carried(r, op, points) = Carried(old[j], op, points)
      PROVE  FlowOf(new, op, points) = FlowOf(old, op, points)
  <2>1. Carried(r, op, points) \in Nat
    BY CarriedType
  <2>2. /\ FlowOf(old, op, points) \in Nat
        /\ FlowOf(new, op, points) =
             FlowOf(old, op, points) + Carried(r, op, points) - Carried(old[j], op, points)
    BY CarriedSum
  <2> QED BY <1>1, <2>1, <2>2
<1>2. ASSUME NEW v \in Validator PROVE LeavingOf(new, v) = LeavingOf(old, v)
  <2>1. Leaving(r, v) \in Nat /\ Leaving(r, v) = Leaving(old[j], v)
    BY LeavingType DEF SameFlow
  <2>2. /\ LeavingOf(old, v) \in Nat
        /\ LeavingOf(new, v) = LeavingOf(old, v) + Leaving(r, v) - Leaving(old[j], v)
    BY LeavingSum
  <2> QED BY <2>1, <2>2
<1> QED BY <1>1, <1>2 DEF SameFlow, Paying

-----------------------------------------------------------------------------
(* Every token is somewhere.                                               *)

Placed(D) == SumFunction([d \in Delegator |-> SumAmounts(D[d])])
Tokens ==
  SumFunction(bal) + Placed(delegations) + SumAmounts(unbonding) + SumAmounts(matured)
  + FlowOf(job, "delegate", Requested) + FlowOf(job, "undelegate", Withdrawn) + gone

LEMMA TokensAre == TokensAccountedFor <=> Tokens = SumFunction(Funds)
BY DEF TokensAccountedFor, Tokens, Placed, FlowOf, InFlight, Requested, Withdrawn

(* A sum over the accounts when one of them changes. *)
LEMMA AccountSum ==
  ASSUME NEW f, NEW g, DOMAIN f = Delegator, DOMAIN g = Delegator, NEW a \in Delegator,
         \A k \in Delegator : f[k] \in Nat /\ g[k] \in Nat,
         \A k \in Delegator \ {a} : g[k] = f[k]
  PROVE  /\ SumFunction(f) \in Nat
         /\ SumFunction(g) = SumFunction(f) + g[a] - f[a]
<1>1. IsFiniteSet(Delegator)
  BY Finite
<1>2. \A k \in Delegator : f[k] \in Int /\ g[k] \in Int
  OBVIOUS
<1>3. SumFunctionOnSet(g, Delegator) = SumFunctionOnSet(f, Delegator) + g[a] - f[a]
  BY <1>1, <1>2, SumUpdate
<1>4. SumFunctionOnSet(f, Delegator) \in Nat
  BY <1>1, SumNat
<1> QED BY <1>3, <1>4 DEF SumFunction

LEMMA BalanceSum ==
  ASSUME NEW old \in [Delegator -> Nat], NEW new, NEW d \in Delegator, NEW n \in Nat,
         new = [old EXCEPT ![d] = n]
  PROVE  SumFunction(old) \in Nat /\ SumFunction(new) = SumFunction(old) + n - old[d]
<1>1. /\ DOMAIN old = Delegator /\ DOMAIN new = Delegator /\ new[d] = n
      /\ \A k \in Delegator : old[k] \in Nat /\ new[k] \in Nat
      /\ \A k \in Delegator \ {d} : new[k] = old[k]
  OBVIOUS
<1> QED BY <1>1, AccountSum

LEMMA PlacedSum ==
  ASSUME NEW old \in [Delegator -> Seq(Delegation)], NEW new, NEW d \in Delegator,
         NEW s \in Seq(Delegation), new = [old EXCEPT ![d] = s]
  PROVE  /\ Placed(old) \in Nat
         /\ Placed(new) = Placed(old) + SumAmounts(s) - SumAmounts(old[d])
<1> DEFINE f == [k \in Delegator |-> SumAmounts(old[k])]
           g == [k \in Delegator |-> SumAmounts(new[k])]
<1>1. \A k \in Delegator : old[k] \in Seq(Delegation) /\ new[k] \in Seq(Delegation)
  OBVIOUS
<1>2. \A k \in Delegator : f[k] \in Nat /\ g[k] \in Nat
  BY <1>1, ListSum, Weights
<1>3. /\ DOMAIN f = Delegator /\ DOMAIN g = Delegator
      /\ \A k \in Delegator \ {d} : g[k] = f[k]
      /\ g[d] = SumAmounts(s) /\ f[d] = SumAmounts(old[d])
  OBVIOUS
<1> HIDE DEF f, g
<1>4. SumFunction(f) \in Nat /\ SumFunction(g) = SumFunction(f) + g[d] - f[d]
  BY <1>2, <1>3, AccountSum
<1> QED BY <1>3, <1>4 DEF Placed, f, g

(* Lists with the same amounts. *)
LEMMA SameAmounts ==
  ASSUME NEW s \in Seq(Delegation), NEW t \in Seq(Delegation), DOMAIN t = DOMAIN s,
         \A i \in DOMAIN s : t[i].amount = s[i].amount
  PROVE  SumAmounts(t) = SumAmounts(s)
<1>1. [i \in DOMAIN t |-> t[i].amount] = [i \in DOMAIN s |-> s[i].amount]
  OBVIOUS
<1> QED BY <1>1 DEF SumAmounts

LEMMA PlacedSame ==
  ASSUME NEW old \in [Delegator -> Seq(Delegation)], NEW new \in [Delegator -> Seq(Delegation)],
         \A d \in Delegator :
           /\ DOMAIN new[d] = DOMAIN old[d]
           /\ \A i \in DOMAIN old[d] : new[d][i].amount = old[d][i].amount
  PROVE  Placed(new) = Placed(old)
<1>1. ASSUME NEW d \in Delegator PROVE SumAmounts(new[d]) = SumAmounts(old[d])
  <2>1. old[d] \in Seq(Delegation) /\ new[d] \in Seq(Delegation)
    OBVIOUS
  <2>2. DOMAIN new[d] = DOMAIN old[d]
    OBVIOUS
  <2>3. \A i \in DOMAIN old[d] : new[d][i].amount = old[d][i].amount
    OBVIOUS
  <2> QED BY <2>1, <2>2, <2>3, SameAmounts
<1>2. [d \in Delegator |-> SumAmounts(new[d])] = [d \in Delegator |-> SumAmounts(old[d])]
  BY <1>1
<1> QED BY <1>2 DEF Placed

LEMMA TokenTypes ==
  ASSUME TypeInv
  PROVE  /\ SumFunction(bal) \in Nat /\ Placed(delegations) \in Nat
         /\ SumAmounts(unbonding) \in Nat /\ SumAmounts(matured) \in Nat /\ gone \in Nat
         /\ FlowOf(job, "delegate", Requested) \in Nat
         /\ FlowOf(job, "undelegate", Withdrawn) \in Nat
<1>1. /\ bal \in [Delegator -> Nat] /\ delegations \in [Delegator -> Seq(Delegation)]
      /\ unbonding \in Seq(UnbondingEntry) /\ matured \in Seq(UnbondingEntry) /\ gone \in Nat
      /\ job \in [Job -> Requests]
  BY DEF TypeInv, STypeOK, Requests
<1>2. IsFiniteSet(Delegator) /\ IsFiniteSet(Job)
  BY Finite
<1>3. SumFunction(bal) \in Nat
  <2>1. DOMAIN bal = Delegator /\ \A d \in Delegator : bal[d] \in Nat
    BY <1>1
  <2> QED BY <1>2, <2>1, SumNat DEF SumFunction
<1>4. Placed(delegations) \in Nat
  <2> DEFINE f == [d \in Delegator |-> SumAmounts(delegations[d])]
  <2>1. \A d \in Delegator : delegations[d] \in Seq(Delegation)
    BY <1>1
  <2>2. DOMAIN f = Delegator /\ \A d \in Delegator : f[d] \in Nat
    BY <2>1, ListSum, Weights
  <2> HIDE DEF f
  <2>3. SumFunction(f) \in Nat
    BY <1>2, <2>2, SumNat DEF SumFunction
  <2> QED BY <2>3 DEF Placed, f
<1>5. SumAmounts(unbonding) \in Nat /\ SumAmounts(matured) \in Nat
  BY <1>1, ListSum, Weights
<1>6. ASSUME NEW op \in Paying, NEW points PROVE FlowOf(job, op, points) \in Nat
  <2> DEFINE f == [k \in Job |-> Carried(job[k], op, points)]
  <2>1. \A k \in Job : job[k] \in Requests
    BY <1>1
  <2>2. DOMAIN f = Job /\ \A k \in Job : f[k] \in Nat
    BY <2>1, CarriedType
  <2> HIDE DEF f
  <2>3. SumFunction(f) \in Nat
    BY <1>2, <2>2, SumNat DEF SumFunction
  <2> QED BY <2>3 DEF FlowOf, f
<1> QED BY <1>1, <1>3, <1>4, <1>5, <1>6 DEF Paying

LEMMA CutSum ==
  ASSUME NEW q \in Seq(UnbondingEntry), NEW r \in Slashing
  PROVE  /\ SumFunction(CutOf(q, r)) \in Nat /\ SumAmounts(CutQueue(q, r)) \in Nat
         /\ SumAmounts(q) = SumAmounts(CutQueue(q, r)) + SumFunction(CutOf(q, r))
<1> DEFINE f == [i \in DOMAIN CutQueue(q, r) |-> CutQueue(q, r)[i].amount]
           g == CutOf(q, r)
           h == [i \in DOMAIN q |-> q[i].amount]
<1>1. /\ g \in [DOMAIN q -> Nat]
      /\ CutQueue(q, r) \in Seq(UnbondingEntry) /\ DOMAIN CutQueue(q, r) = DOMAIN q
      /\ \A i \in DOMAIN q : /\ q[i].amount \in Nat
                             /\ CutQueue(q, r)[i].amount = q[i].amount - g[i]
  BY CutsType
<1>2. DOMAIN q = 1 .. Len(q) /\ Len(q) \in Nat
  OBVIOUS
<1>3. IsFiniteSet(DOMAIN q)
  BY <1>2, FS_Interval
<1>4. SumAmounts(CutQueue(q, r)) \in Nat
  BY <1>1, ListSum, Weights
<1>5. DOMAIN f = DOMAIN q /\ DOMAIN g = DOMAIN q /\ DOMAIN h = DOMAIN q
  BY <1>1
<1>6. ASSUME NEW i \in DOMAIN q
      PROVE  f[i] \in Int /\ g[i] \in Int /\ h[i] = f[i] + g[i]
  <2>1. h[i] = q[i].amount /\ f[i] = CutQueue(q, r)[i].amount
    BY <1>1
  <2>2. g[i] \in Nat /\ q[i].amount \in Nat /\ CutQueue(q, r)[i].amount = q[i].amount - g[i]
    BY <1>1
  <2> HIDE DEF f, g, h
  <2> QED BY <2>1, <2>2
<1>7. SumFunction(g) \in Nat
  BY <1>1, <1>2, SequenceSum
<1> HIDE DEF f, g, h
<1>8. SumFunctionOnSet(h, DOMAIN q) = SumFunctionOnSet(f, DOMAIN q) + SumFunctionOnSet(g, DOMAIN q)
  BY <1>3, <1>6, SumPlus
<1> QED BY <1>4, <1>5, <1>7, <1>8 DEF SumAmounts, SumFunction, f, g, h

(* The job of a request that is under way. *)
LEMMA FlowStep ==
  ASSUME TypeInv, NEW j \in Job, NEW r \in Requests, job' = [job EXCEPT ![j] = r]
  PROVE  /\ FlowOf(job, "delegate", Requested)' =
              FlowOf(job, "delegate", Requested)
              + Carried(r, "delegate", Requested) - Carried(job[j], "delegate", Requested)
         /\ FlowOf(job, "undelegate", Withdrawn)' =
              FlowOf(job, "undelegate", Withdrawn)
              + Carried(r, "undelegate", Withdrawn) - Carried(job[j], "undelegate", Withdrawn)
<1>1. Becomes(job, job', j, r)
  BY JobBecomes
<1>2. "delegate" \in Paying /\ "undelegate" \in Paying
  BY DEF Paying
<1>3. /\ FlowOf(job, "delegate", Requested)' = FlowOf(job', "delegate", Requested)
      /\ FlowOf(job, "undelegate", Withdrawn)' = FlowOf(job', "undelegate", Withdrawn)
  BY DEF FlowOf, Requested, Withdrawn
<1>4. FlowOf(job', "delegate", Requested) =
        FlowOf(job, "delegate", Requested)
        + Carried(r, "delegate", Requested) - Carried(job[j], "delegate", Requested)
  BY <1>1, <1>2, CarriedSum
<1>5. FlowOf(job', "undelegate", Withdrawn) =
        FlowOf(job, "undelegate", Withdrawn)
        + Carried(r, "undelegate", Withdrawn) - Carried(job[j], "undelegate", Withdrawn)
  BY <1>1, <1>2, CarriedSum
<1> QED BY <1>3, <1>4, <1>5

LEMMA SameTokens ==
  ASSUME TypeInv, NEW j \in Job, NEW r \in Requests, job' = [job EXCEPT ![j] = r],
         SameFlow(r, job[j]), UNCHANGED <<bal, delegations, unbonding, matured, gone>>
  PROVE  Tokens' = Tokens
<1>1. Becomes(job, job', j, r)
  BY JobBecomes
<1>2. /\ FlowOf(job', "delegate", Requested) = FlowOf(job, "delegate", Requested)
      /\ FlowOf(job', "undelegate", Withdrawn) = FlowOf(job, "undelegate", Withdrawn)
  BY <1>1, SameCarried
<1>3. /\ FlowOf(job, "delegate", Requested)' = FlowOf(job', "delegate", Requested)
      /\ FlowOf(job, "undelegate", Withdrawn)' = FlowOf(job', "undelegate", Withdrawn)
  BY DEF FlowOf, Requested, Withdrawn
<1>4. /\ SumFunction(bal)' = SumFunction(bal) /\ Placed(delegations)' = Placed(delegations)
      /\ SumAmounts(unbonding)' = SumAmounts(unbonding)
      /\ SumAmounts(matured)' = SumAmounts(matured) /\ gone' = gone
  BY DEF Placed, SumAmounts
<1> QED BY <1>2, <1>3, <1>4 DEF Tokens

(* What a request carries at one of its points. *)
LEMMA CarriedAt ==
  ASSUME NEW r, r # Free
  PROVE  /\ Carried(r, "delegate", Requested) =
              IF r.op = "delegate" /\ r.at \in Requested THEN r.amount ELSE 0
         /\ Carried(r, "undelegate", Withdrawn) =
              IF r.op = "undelegate" /\ r.at \in Withdrawn THEN r.amount ELSE 0
BY DEF Carried

LEMMA MoneyMoves ==
  ASSUME TypeInv, NEW j \in Job,
         \/ \E d \in Delegator, v \in Validator, amt \in Amount : DeductForDelegation(j, d, v, amt)
         \/ RefuseDelegation(j) \/ Delegate(j) \/ ReduceDelegation(j) \/ QueueUnbonding(j)
         \/ SlashUnbonding(j)
  PROVE  Tokens' = Tokens
<1> DEFINE q == job[j]
           B == SumFunction(bal)
           P == Placed(delegations)
           U == SumAmounts(unbonding)
           M == SumAmounts(matured)
           F == FlowOf(job, "delegate", Requested)
           G == FlowOf(job, "undelegate", Withdrawn)
<1>0. /\ B \in Nat /\ P \in Nat /\ U \in Nat /\ M \in Nat /\ gone \in Nat
      /\ F \in Nat /\ G \in Nat
  BY TokenTypes
<1>a. Tokens = B + P + U + M + F + G + gone /\ Tokens' = B' + P' + U' + M' + F' + G' + gone'
  BY DEF Tokens
<1>b. /\ bal' = bal => B' = B
      /\ delegations' = delegations => P' = P
      /\ unbonding' = unbonding => U' = U
      /\ matured' = matured => M' = M
  BY DEF Placed, SumAmounts
<1>c. /\ bal \in [Delegator -> Nat] /\ delegations \in [Delegator -> Seq(Delegation)]
      /\ unbonding \in Seq(UnbondingEntry)
  BY DEF TypeInv, STypeOK
<1>d. /\ Carried(Free, "delegate", Requested) = 0 /\ Carried(Free, "undelegate", Withdrawn) = 0
      /\ Free \in Requests
  BY IdleFree, NothingCarried
<1>1. ASSUME NEW d \in Delegator, NEW v \in Validator, NEW amt \in Amount,
             DeductForDelegation(j, d, v, amt)
      PROVE  Tokens' = Tokens
  <2> DEFINE r == [op |-> "delegate", validator |-> v, delegator |-> d,
                   amount |-> amt, height |-> 0,
                   at |-> IF v \in DOMAIN ConsensusStake THEN "register" ELSE "start"]
  <2>1. r \in Delegating /\ r \in Requests /\ r.amount = amt
        /\ r.op = "delegate" /\ r.at \in Requested
    BY DEF Delegating, Request, Requests, Requested
  <2>2. /\ Accept(j, r) /\ bal[d] >= amt /\ bal' = [bal EXCEPT ![d] = bal[d] - amt]
        /\ UNCHANGED <<bookVars, producerVars, height, gone, lock>>
    BY <1>1 DEF DeductForDelegation
  <2> HIDE DEF r
  <2>3. r # Free /\ amt \in Nat
    BY <2>1, RequestFields, Numbers DEF Request
  <2>4. job' = [job EXCEPT ![j] = r] /\ q = Free
    BY <2>2, MayAccept
  <2>5. F' = F + amt /\ G' = G
    <3>1. Carried(r, "delegate", Requested) = amt /\ Carried(r, "undelegate", Withdrawn) = 0
      BY <2>1, <2>3, CarriedAt
    <3>2. /\ F' = F + Carried(r, "delegate", Requested) - Carried(q, "delegate", Requested)
          /\ G' = G + Carried(r, "undelegate", Withdrawn) - Carried(q, "undelegate", Withdrawn)
      BY <2>1, <2>4, FlowStep
    <3> HIDE DEF F, G, q
    <3> QED BY <1>0, <1>d, <2>3, <2>4, <3>1, <3>2
  <2>6. B' = B - amt
    <3>1. bal[d] - amt \in Nat /\ bal[d] \in Nat
      BY <1>c, <2>2, <2>3
    <3>2. SumFunction(bal') = SumFunction(bal) + (bal[d] - amt) - bal[d]
      BY <1>c, <2>2, <3>1, BalanceSum
    <3> QED BY <1>0, <2>3, <3>1, <3>2
  <2>7. P' = P /\ U' = U /\ M' = M /\ gone' = gone
    BY <1>b, <2>2 DEF bookVars, producerVars
  <2> HIDE DEF B, P, U, M, F, G
  <2> QED BY <1>0, <1>a, <2>3, <2>5, <2>6, <2>7
<1>2. ASSUME RefuseDelegation(j) PROVE Tokens' = Tokens
  <2>1. /\ At(j, "delegate", "start") /\ Return(j) /\ gone' = gone + q.amount
        /\ UNCHANGED <<bookVars, producerVars, bal>>
    BY <1>2 DEF RefuseDelegation
  <2>2. q \in Delegating /\ q # Free /\ q.op = "delegate" /\ q.at = "start"
    BY <2>1, RequestOf, RequestFields DEF At
  <2>3. q.amount \in Nat
    BY <2>2, Numbers DEF Delegating
  <2>4. job' = [job EXCEPT ![j] = Free]
    BY <2>1, Returned
  <2>5. F' = F - q.amount /\ G' = G
    <3>1. Carried(q, "delegate", Requested) = q.amount /\ Carried(q, "undelegate", Withdrawn) = 0
      BY <2>2, CarriedAt DEF Requested
    <3>2. /\ F' = F + Carried(Free, "delegate", Requested) - Carried(q, "delegate", Requested)
          /\ G' = G + Carried(Free, "undelegate", Withdrawn) - Carried(q, "undelegate", Withdrawn)
      BY <1>d, <2>4, FlowStep
    <3> HIDE DEF F, G, q
    <3> QED BY <1>0, <1>d, <2>3, <3>1, <3>2
  <2>6. B' = B /\ P' = P /\ U' = U /\ M' = M
    BY <1>b, <2>1 DEF bookVars, producerVars
  <2> HIDE DEF B, P, U, M, F, G, q
  <2> QED BY <1>0, <1>a, <2>1, <2>3, <2>5, <2>6
<1>3. ASSUME Delegate(j) PROVE Tokens' = Tokens
  <2> DEFINE s == delegations[q.delegator]
             x == NewDelegation(q)
  <2>1. /\ q \in Request /\ q # Free /\ q.op = "delegate" /\ q.at = "timed"
        /\ q.delegator \in Delegator /\ q.amount \in Nat /\ x \in Delegation
        /\ delegations' = [delegations EXCEPT ![q.delegator] = Append(s, x)]
        /\ job' = [job EXCEPT ![j] = Free]
        /\ UNCHANGED <<unbonding, producerVars, bal, gone>>
    BY <1>3, DelegateFacts
  <2>2. x.amount = q.amount
    BY DEF NewDelegation
  <2>3. s \in Seq(Delegation)
    BY <1>c, <2>1
  <2>4. F' = F - q.amount /\ G' = G
    <3>1. Carried(q, "delegate", Requested) = q.amount /\ Carried(q, "undelegate", Withdrawn) = 0
      BY <2>1, CarriedAt DEF Requested
    <3>2. /\ F' = F + Carried(Free, "delegate", Requested) - Carried(q, "delegate", Requested)
          /\ G' = G + Carried(Free, "undelegate", Withdrawn) - Carried(q, "undelegate", Withdrawn)
      BY <1>d, <2>1, FlowStep
    <3> HIDE DEF F, G, q
    <3> QED BY <1>0, <1>d, <2>1, <3>1, <3>2
  <2>5. P' = P + q.amount
    <3> HIDE DEF q, x, s
    <3>1. Append(s, x) \in Seq(Delegation) /\ SumAmounts(Append(s, x)) = SumAmounts(s) + q.amount
      BY <2>1, <2>2, <2>3, AppendSum, Weights
    <3>2. Placed(delegations') = Placed(delegations) + SumAmounts(Append(s, x)) - SumAmounts(s)
      BY <1>c, <2>1, <3>1, PlacedSum DEF s
    <3>3. SumAmounts(s) \in Nat
      BY <2>3, ListSum, Weights
    <3>4. Placed(delegations') = Placed(delegations) + q.amount
      BY <1>0, <2>1, <3>1, <3>2, <3>3
    <3> QED BY <3>4 DEF Placed
  <2>6. B' = B /\ U' = U /\ M' = M /\ gone' = gone
    BY <1>b, <2>1 DEF producerVars
  <2>n. q.amount \in Nat
    BY <2>1
  <2> HIDE DEF B, P, U, M, F, G, q
  <2> QED BY <1>0, <1>a, <2>n, <2>4, <2>5, <2>6
<1>4. ASSUME ReduceDelegation(j) PROVE Tokens' = Tokens
  <2> DEFINE d == q.delegator
             i == FirstDelegation(d, q.validator)
             s == delegations[d]
             t == Reduced(s, i, q.amount)
             r == [q EXCEPT !.at = "reduced"]
  <2>1. /\ q \in Request /\ q.op = "undelegate" /\ q.at = "timed" /\ d \in Delegator
        /\ q.amount \in Nat /\ i \in Own(d, q.validator) /\ s \in Seq(Delegation)
        /\ s[i].amount >= q.amount /\ delegations' = [delegations EXCEPT ![d] = t]
        /\ job' = [job EXCEPT ![j] = r]
        /\ UNCHANGED <<unbonding, producerVars, bal, gone>>
    BY <1>4, ReduceFacts
  <2>2. i \in DOMAIN s
    BY <2>1 DEF Own
  <2>3. r \in Undelegating /\ r.op = "undelegate" /\ r.at = "reduced" /\ r.amount = q.amount
    BY <2>1, RequestMoves
  <2>4. r \in Request /\ r # Free /\ q # Free
    BY <2>1, <2>3, RequestFields DEF Request
  <2>5. F' = F /\ G' = G + q.amount
    <3> HIDE DEF r
    <3>1. Carried(r, "delegate", Requested) = 0 /\ Carried(r, "undelegate", Withdrawn) = q.amount
      BY <2>3, <2>4, CarriedAt DEF Withdrawn
    <3>2. Carried(q, "delegate", Requested) = 0 /\ Carried(q, "undelegate", Withdrawn) = 0
      BY <2>1, <2>4, CarriedAt DEF Withdrawn
    <3>3. /\ F' = F + Carried(r, "delegate", Requested) - Carried(q, "delegate", Requested)
          /\ G' = G + Carried(r, "undelegate", Withdrawn) - Carried(q, "undelegate", Withdrawn)
      BY <2>1, <2>4, FlowStep DEF Requests
    <3> HIDE DEF F, G, q
    <3> QED BY <1>0, <2>1, <3>1, <3>2, <3>3
  <2>6. P' = P - q.amount
    <3> HIDE DEF d, i, s, t, q
    <3>1. /\ t \in Seq(Delegation) /\ DOMAIN t = DOMAIN s /\ t[i].amount = s[i].amount - q.amount
          /\ \A k \in DOMAIN s \ {i} : t[k] = s[k]
      BY <2>1, <2>2, ReducedList DEF t
    <3>2. SumAmounts(t) = SumAmounts(s) - q.amount
      <4> DEFINE f == [k \in DOMAIN s |-> s[k].amount]
                 g == [k \in DOMAIN t |-> t[k].amount]
      <4>1. /\ DOMAIN s = 1 .. Len(s) /\ Len(s) \in Nat
            /\ \A k \in DOMAIN s : s[k].amount \in Nat
            /\ \A k \in DOMAIN t : t[k].amount \in Nat
        BY <2>1, <3>1, ListSum, Weights
      <4>2. /\ DOMAIN f = DOMAIN s /\ DOMAIN g = DOMAIN s
            /\ \A k \in DOMAIN s \ {i} : g[k] = f[k]
            /\ g[i] = s[i].amount - q.amount /\ f[i] = s[i].amount
        BY <2>2, <3>1
      <4>3. \A k \in DOMAIN s : f[k] \in Int /\ g[k] \in Int
        BY <3>1, <4>1
      <4>4. IsFiniteSet(DOMAIN s)
        <5>1. IsFiniteSet(1 .. Len(s))
          BY <4>1, FS_Interval
        <5> QED BY <4>1, <5>1
      <4> HIDE DEF f, g
      <4>5. SumFunctionOnSet(g, DOMAIN s) = SumFunctionOnSet(f, DOMAIN s) + g[i] - f[i]
        BY <2>2, <4>2, <4>3, <4>4, SumUpdate
      <4>6. SumFunctionOnSet(f, DOMAIN s) \in Int
        BY <4>3, <4>4, SumInt
      <4>7. s[i].amount \in Nat
        BY <2>2, <4>1
      <4>8. SumFunctionOnSet(g, DOMAIN s) = SumFunctionOnSet(f, DOMAIN s) - q.amount
        BY <2>1, <4>2, <4>5, <4>6, <4>7
      <4> QED BY <4>2, <4>8 DEF SumAmounts, SumFunction, f, g
    <3>3. Placed(delegations') = Placed(delegations) + SumAmounts(t) - SumAmounts(s)
      BY <1>c, <2>1, <3>1, PlacedSum DEF s
    <3>4. SumAmounts(s) \in Nat
      BY <2>1, ListSum, Weights
    <3>5. Placed(delegations') = Placed(delegations) - q.amount
      BY <1>0, <2>1, <3>2, <3>3, <3>4
    <3> QED BY <3>5 DEF Placed
  <2>7. B' = B /\ U' = U /\ M' = M /\ gone' = gone
    BY <1>b, <2>1 DEF producerVars
  <2>n. q.amount \in Nat
    BY <2>1
  <2> HIDE DEF B, P, U, M, F, G, q
  <2> QED BY <1>0, <1>a, <2>n, <2>5, <2>6, <2>7
<1>5. ASSUME QueueUnbonding(j) PROVE Tokens' = Tokens
  <2> DEFINE u == [delegator |-> q.delegator, validator |-> q.validator,
                   amount |-> q.amount, completion |-> q.height + UnbondingBlocks]
  <2>1. /\ q \in Request /\ q.op = "undelegate" /\ q.at = "queue"
        /\ q.amount \in Nat /\ u \in UnbondingEntry /\ unbonding' = Append(unbonding, u)
        /\ job' = [job EXCEPT ![j] = Free]
        /\ UNCHANGED <<delegations, producerVars, bal, gone>>
    BY <1>5, QueueFacts
  <2>2. u.amount = q.amount /\ q # Free
    BY <2>1, RequestFields
  <2>3. G' = G - q.amount /\ F' = F
    <3>1. Carried(q, "delegate", Requested) = 0 /\ Carried(q, "undelegate", Withdrawn) = q.amount
      BY <2>1, <2>2, CarriedAt DEF Withdrawn
    <3>2. /\ F' = F + Carried(Free, "delegate", Requested) - Carried(q, "delegate", Requested)
          /\ G' = G + Carried(Free, "undelegate", Withdrawn) - Carried(q, "undelegate", Withdrawn)
      BY <1>d, <2>1, FlowStep
    <3> HIDE DEF F, G, q
    <3> QED BY <1>0, <1>d, <2>1, <3>1, <3>2
  <2>4. U' = U + q.amount
    <3> HIDE DEF u, q
    <3>1. SumAmounts(Append(unbonding, u)) = SumAmounts(unbonding) + q.amount
      BY <1>c, <2>1, <2>2, AppendSum, Weights
    <3> QED BY <2>1, <3>1 DEF SumAmounts
  <2>5. B' = B /\ P' = P /\ M' = M /\ gone' = gone
    BY <1>b, <2>1 DEF producerVars
  <2>n. q.amount \in Nat
    BY <2>1
  <2> HIDE DEF B, P, U, M, F, G, q
  <2> QED BY <1>0, <1>a, <2>n, <2>3, <2>4, <2>5
<1>6. ASSUME SlashUnbonding(j) PROVE Tokens' = Tokens
  <2> DEFINE c == SumFunction(CutOf(unbonding, q))
  <2>1. /\ q \in Slashing /\ q \in Request /\ q.op = "slash"
        /\ unbonding' = CutQueue(unbonding, q) /\ gone' = gone + c
        /\ job' = [job EXCEPT ![j] = Free]
        /\ UNCHANGED <<delegations, producerVars, bal>>
    BY <1>6, CutFacts
  <2>2. /\ c \in Nat /\ SumAmounts(CutQueue(unbonding, q)) \in Nat
        /\ SumAmounts(unbonding) = SumAmounts(CutQueue(unbonding, q)) + c
    BY <1>c, <2>1, CutSum
  <2>3. U' = SumAmounts(CutQueue(unbonding, q))
    BY <2>1 DEF SumAmounts
  <2>4. F' = F /\ G' = G
    <3>1. Carried(q, "delegate", Requested) = 0 /\ Carried(q, "undelegate", Withdrawn) = 0
      BY <2>1, NothingCarried DEF Idle
    <3>2. /\ F' = F + Carried(Free, "delegate", Requested) - Carried(q, "delegate", Requested)
          /\ G' = G + Carried(Free, "undelegate", Withdrawn) - Carried(q, "undelegate", Withdrawn)
      BY <1>d, <2>1, FlowStep
    <3> HIDE DEF F, G, q
    <3> QED BY <1>0, <1>d, <3>1, <3>2
  <2>5. B' = B /\ P' = P /\ M' = M
    BY <1>b, <2>1 DEF producerVars
  <2> HIDE DEF B, P, M, F, G, q, c
  <2>6. U = SumAmounts(unbonding)
    OBVIOUS
  <2> HIDE DEF U
  <2> QED BY <1>0, <1>a, <2>1, <2>2, <2>3, <2>4, <2>5, <2>6
<1> QED BY <1>1, <1>2, <1>3, <1>4, <1>5, <1>6

(* Steps on an entry: nothing of an account moves. *)
LEMMA EntryFlow ==
  ASSUME TypeInv, NEW j \in Job,
         InsertValidator(j) \/ InsertRegistered(j) \/ SlashStake(j) \/ ReleaseFromJail(j)
  PROVE  /\ \E r \in Requests : job' = [job EXCEPT ![j] = r] /\ SameFlow(r, job[j])
         /\ ~Cuts(job[j]) /\ UNCHANGED <<bal, delegations, unbonding, history, producerVars, gone>>
<1> DEFINE q == job[j]
           Goal == /\ \E r \in Requests : job' = [job EXCEPT ![j] = r] /\ SameFlow(r, q)
                   /\ ~Cuts(q)
                   /\ UNCHANGED <<bal, delegations, unbonding, history, producerVars, gone>>
<1>1. ASSUME InsertValidator(j) \/ InsertRegistered(j) PROVE Goal
  <2>1. /\ q \in Request /\ q # Free
        /\ UNCHANGED <<bal, delegations, unbonding, history, producerVars, gone>>
        /\ \/ q.op = "create" /\ job' = [job EXCEPT ![j] = Free]
           \/ /\ q.op = "delegate" /\ q.at = "insert"
              /\ job' = [job EXCEPT ![j] = [q EXCEPT !.at = "start"]]
    BY <1>1, InsertFacts, RequestFields
  <2>2. CASE q.op = "create" /\ job' = [job EXCEPT ![j] = Free]
    <3> HIDE DEF q
    <3>1. Idle(q) /\ ~Cuts(q)
      BY <2>2 DEF Idle, Cuts
    <3>2. SameFlow(Free, q)
      BY <3>1, IdleFree, IdleFlow
    <3> QED BY <2>1, <2>2, <3>1, <3>2, IdleFree
  <2>3. CASE /\ q.op = "delegate" /\ q.at = "insert"
             /\ job' = [job EXCEPT ![j] = [q EXCEPT !.at = "start"]]
    <3> DEFINE r == [q EXCEPT !.at = "start"]
    <3>1. r \in Delegating /\ r.op = "delegate" /\ r.at = "start" /\ r.amount = q.amount
      BY <2>1, <2>3, RequestMoves
    <3>2. r \in Request /\ r # Free
      BY <3>1, RequestFields DEF Request
    <3> HIDE DEF r, q
    <3>3. SameFlow(r, q) /\ ~Cuts(q)
      BY <2>1, <2>3, <3>1, <3>2, DelegateFlow DEF Requested, Cuts
    <3> QED BY <2>1, <2>3, <3>2, <3>3 DEF Requests, r
  <2> QED BY <2>1, <2>2, <2>3
<1>2. ASSUME SlashStake(j) PROVE Goal
  <2> DEFINE r == [q EXCEPT !.at = "queue"]
  <2>1. /\ q \in Request /\ q.op = "slash" /\ q.at = "timed" /\ job' = [job EXCEPT ![j] = r]
        /\ UNCHANGED <<bal, delegations, unbonding, history, producerVars, gone>>
    BY <1>2, SlashFacts
  <2>2. r \in Slashing /\ r.op = "slash"
    BY <2>1, RequestMoves
  <2> HIDE DEF r, q
  <2>3. r \in Requests /\ Idle(r) /\ Idle(q) /\ ~Cuts(q)
    BY <2>1, <2>2 DEF Request, Requests, Idle, Cuts
  <2> QED BY <2>1, <2>3, IdleFlow
<1>3. ASSUME ReleaseFromJail(j) PROVE Goal
  <2>1. /\ q.op = "unjail" /\ job' = [job EXCEPT ![j] = Free]
        /\ UNCHANGED <<bal, delegations, unbonding, history, producerVars, gone>>
    BY <1>3, ReleaseFacts
  <2> HIDE DEF q
  <2>2. Idle(q) /\ ~Cuts(q)
    BY <2>1 DEF Idle, Cuts
  <2> QED BY <2>1, <2>2, IdleFree, IdleFlow
<1> QED BY <1>1, <1>2, <1>3

(* undelegate between its first and its last step. *)
LEMMA RelieveFlow ==
  ASSUME TypeInv, NEW j \in Job, ReduceValidator(j) \/ ReduceTotal(j)
  PROVE  Tokens' = Tokens
<1> DEFINE q == job[j]
<1>1. PICK to \in {"taken", "queue"} :
        /\ q \in Request /\ q.op = "undelegate" /\ q.at \in {"reduced", "taken"}
        /\ job' = [job EXCEPT ![j] = [q EXCEPT !.at = to]]
        /\ UNCHANGED <<bal, delegations, unbonding, producerVars, gone>>
  BY RelieveFacts, TotalFacts
<1> DEFINE r == [q EXCEPT !.at = to]
<1>2. r \in Undelegating /\ r.op = "undelegate" /\ r.at = to /\ r.amount = q.amount
  BY <1>1, RequestMoves
<1>3. r \in Requests /\ r # Free /\ q # Free
  BY <1>1, <1>2, RequestFields DEF Request, Requests
<1>4. q.amount \in Nat
  <2>1. q \in Undelegating
    BY <1>1, RequestFields
  <2> QED BY <2>1, Numbers DEF Undelegating
<1>5. job' = [job EXCEPT ![j] = r]
  BY <1>1
<1> HIDE DEF q, r
<1>6. /\ Carried(r, "delegate", Requested) = 0 /\ Carried(r, "undelegate", Withdrawn) = q.amount
      /\ Carried(q, "delegate", Requested) = 0 /\ Carried(q, "undelegate", Withdrawn) = q.amount
  BY <1>1, <1>2, <1>3, CarriedAt DEF Withdrawn
<1> DEFINE F == FlowOf(job, "delegate", Requested)
           G == FlowOf(job, "undelegate", Withdrawn)
<1>7. /\ F' = F + Carried(r, "delegate", Requested) - Carried(q, "delegate", Requested)
      /\ G' = G + Carried(r, "undelegate", Withdrawn) - Carried(q, "undelegate", Withdrawn)
  BY <1>3, <1>5, FlowStep DEF q
<1>8. F \in Nat /\ G \in Nat
  BY TokenTypes
<1>9. F' = F /\ G' = G
  <2> HIDE DEF F, G
  <2> QED BY <1>4, <1>6, <1>7, <1>8
<1>10. /\ SumFunction(bal)' = SumFunction(bal) /\ Placed(delegations)' = Placed(delegations)
       /\ SumAmounts(unbonding)' = SumAmounts(unbonding)
       /\ SumAmounts(matured)' = SumAmounts(matured) /\ gone' = gone
  BY <1>1 DEF Placed, SumAmounts, producerVars
<1> QED BY <1>9, <1>10 DEF Tokens

(* No request goes on, the queue stays as it is. *)
LEMMA NoRequest ==
  ASSUME TypeInv, UNCHANGED <<job, bal, unbonding, matured, gone>>,
         Placed(delegations)' = Placed(delegations)
  PROVE  Tokens' = Tokens
BY DEF Tokens, SumAmounts, FlowOf

LEMMA SamePlaces ==
  ASSUME TypeInv, delegations' \in [Delegator -> Seq(Delegation)],
         \A d \in Delegator :
           /\ DOMAIN delegations'[d] = DOMAIN delegations[d]
           /\ \A i \in DOMAIN delegations[d] : delegations'[d][i].amount = delegations[d][i].amount
  PROVE  Placed(delegations)' = Placed(delegations)
<1>1. delegations \in [Delegator -> Seq(Delegation)]
  BY DEF TypeInv, STypeOK
<1>2. Placed(delegations') = Placed(delegations)
  BY <1>1, PlacedSame
<1> QED BY <1>2 DEF Placed

LEMMA MissedFlow ==
  ASSUME TypeInv, NEW v \in Validator, NEW j \in Job, NEW p \in SlashPercent,
         RecordBlockMissed(j, v, p)
  PROVE  \/ job' = job
         \/ \E r \in Requests : /\ job' = [job EXCEPT ![j] = r] /\ SameFlow(r, job[j])
                                /\ ~Cuts(job[j])
<1> DEFINE r == [op |-> "slash", at |-> "start", validator |-> v,
                 percent |-> p, height |-> 0]
<1>1. job' = job \/ Accept(j, r)
  BY DEF RecordBlockMissed
<1>2. r \in Requests /\ Idle(r)
  BY DEF Slashing, Request, Requests, Idle
<1> HIDE DEF r
<1>3. Accept(j, r) => job' = [job EXCEPT ![j] = r] /\ job[j] = Free
  BY MayAccept
<1> QED BY <1>1, <1>2, <1>3, IdleFlow, IdleFree

LEMMA ProducerTokens == ASSUME TypeInv, Producer PROVE Tokens' = Tokens
<1>0. /\ SumFunction(bal) \in Nat /\ Placed(delegations) \in Nat
      /\ SumAmounts(unbonding) \in Nat /\ SumAmounts(matured) \in Nat /\ gone \in Nat
      /\ FlowOf(job, "delegate", Requested) \in Nat
      /\ FlowOf(job, "undelegate", Withdrawn) \in Nat
  BY TokenTypes
<1>1. CASE \E v \in Validator : RecordBlockSigned(v)
  <2>1. UNCHANGED <<job, bal, delegations, unbonding, matured, gone>>
    BY <1>1 DEF RecordBlockSigned, producerVars
  <2> QED BY <2>1, NoRequest DEF Placed
<1>2. CASE BeginRewards \/ EndBlock
  <2>1. UNCHANGED <<job, bal, delegations, unbonding, matured, gone>>
    BY <1>2 DEF BeginRewards, EndBlock, bookVars
  <2> QED BY <2>1, NoRequest DEF Placed
<1>3. CASE DistributeRewards
  <2>1. UNCHANGED <<job, bal, unbonding, matured, gone>>
    BY <1>3, DistributeFacts
  <2>2. Placed(delegations)' = Placed(delegations)
    BY <1>3, DistributeFacts, SamePlaces
  <2> QED BY <2>1, <2>2, NoRequest
<1>4. CASE ProcessUnbondings
  <2>1. /\ matured = << >> /\ UNCHANGED <<job, bal, delegations, gone>>
        /\ matured' \in Seq(UnbondingEntry) /\ unbonding' \in Seq(UnbondingEntry)
        /\ SumAmounts(matured') + SumAmounts(unbonding') = SumAmounts(unbonding)
    BY <1>4, ProcessFacts
  <2>2. SumAmounts(matured) = 0
    BY <2>1, EmptySum
  <2>3. SumAmounts(matured') \in Nat /\ SumAmounts(unbonding') \in Nat
    BY <2>1, ListSum, Weights
  <2>4. /\ SumFunction(bal)' = SumFunction(bal) /\ Placed(delegations)' = Placed(delegations)
        /\ FlowOf(job, "delegate", Requested)' = FlowOf(job, "delegate", Requested)
        /\ FlowOf(job, "undelegate", Withdrawn)' = FlowOf(job, "undelegate", Withdrawn)
        /\ gone' = gone
    BY <2>1 DEF Placed, FlowOf
  <2>5. SumAmounts(matured)' = SumAmounts(matured') /\ SumAmounts(unbonding)' = SumAmounts(unbonding')
    BY DEF SumAmounts
  <2> QED BY <1>0, <2>1, <2>2, <2>3, <2>4, <2>5 DEF Tokens
<1>5. CASE CreditMatured
  <2> DEFINE u == Head(matured)
  <2>1. /\ u.delegator \in Delegator /\ u.amount \in Nat /\ bal \in [Delegator -> Nat]
        /\ bal' = [bal EXCEPT ![u.delegator] = bal[u.delegator] + u.amount]
        /\ matured' \in Seq(UnbondingEntry)
        /\ SumAmounts(matured) = u.amount + SumAmounts(matured')
        /\ UNCHANGED <<bookVars, job, gone>>
    BY <1>5, CreditFacts
  <2> HIDE DEF u
  <2>2. SumAmounts(matured') \in Nat
    BY <2>1, ListSum, Weights
  <2>3. SumFunction(bal') = SumFunction(bal) + u.amount
    <3>1. bal[u.delegator] \in Nat /\ bal[u.delegator] + u.amount \in Nat
      BY <2>1
    <3>2. SumFunction(bal') =
            SumFunction(bal) + (bal[u.delegator] + u.amount) - bal[u.delegator]
      BY <2>1, <3>1, BalanceSum
    <3>3. u.amount \in Nat
      BY <2>1
    <3> QED BY <1>0, <3>1, <3>2, <3>3
  <2>4. /\ Placed(delegations)' = Placed(delegations)
        /\ SumAmounts(unbonding)' = SumAmounts(unbonding)
        /\ FlowOf(job, "delegate", Requested)' = FlowOf(job, "delegate", Requested)
        /\ FlowOf(job, "undelegate", Withdrawn)' = FlowOf(job, "undelegate", Withdrawn)
        /\ gone' = gone
    BY <2>1 DEF Placed, FlowOf, bookVars, SumAmounts
  <2>5. SumAmounts(matured)' = SumAmounts(matured')
    BY DEF SumAmounts
  <2>6. u.amount \in Nat /\ SumAmounts(matured) = u.amount + SumAmounts(matured')
    BY <2>1
  <2> QED BY <1>0, <2>2, <2>3, <2>4, <2>5, <2>6 DEF Tokens
<1> QED BY <1>1, <1>2, <1>3, <1>4, <1>5 DEF Producer

LEMMA RequestTokens == ASSUME TypeInv, NewRequest PROVE Tokens' = Tokens
<1>1. PICK j \in Job : \E v \in Validator :
        \/ \E stake \in SelfStake, c \in Commission : CreateValidator(j, v, stake, c)
        \/ \E d \in Delegator, amt \in Amount :
             DeductForDelegation(j, d, v, amt) \/ Undelegate(j, d, v, amt)
        \/ \E p \in SlashPercent : Slash(j, v, p) \/ RecordBlockMissed(j, v, p)
        \/ Unjail(j, v)
        \/ WithdrawValidatorRewards(v)
        \/ \E d \in Delegator : WithdrawDelegatorRewards(d, v)
  BY DEF NewRequest
<1>2. CASE Quiet(j)
  <2>1. UNCHANGED <<bal, delegations, unbonding, matured, gone>>
    BY <1>2, QuietFlow DEF bookVars, producerVars
  <2> QED BY <1>2, <2>1, QuietFlow, SameTokens
<1>3. CASE \E d \in Delegator, v \in Validator, amt \in Amount : DeductForDelegation(j, d, v, amt)
  BY <1>3, MoneyMoves
<1>4. ASSUME NEW v \in Validator, NEW p \in SlashPercent, RecordBlockMissed(j, v, p)
      PROVE  Tokens' = Tokens
  <2>1. UNCHANGED <<bal, delegations, unbonding, matured, gone>>
    BY <1>4 DEF RecordBlockMissed, producerVars
  <2>2. CASE job' = job
    BY <2>1, <2>2, NoRequest DEF Placed
  <2>3. CASE \E r \in Requests : job' = [job EXCEPT ![j] = r] /\ SameFlow(r, job[j])
    BY <2>1, <2>3, SameTokens
  <2> QED BY <1>4, <2>2, <2>3, MissedFlow
<1>5. ASSUME NEW v \in Validator, WithdrawValidatorRewards(v) PROVE Tokens' = Tokens
  <2>1. UNCHANGED <<job, bal, delegations, unbonding, matured, gone>>
    BY <1>5 DEF WithdrawValidatorRewards, producerVars
  <2> QED BY <2>1, NoRequest DEF Placed
<1>6. ASSUME NEW v \in Validator, NEW d \in Delegator, WithdrawDelegatorRewards(d, v)
      PROVE  Tokens' = Tokens
  <2>1. UNCHANGED <<job, bal, unbonding, matured, gone>>
    BY <1>6 DEF WithdrawDelegatorRewards, producerVars
  <2>2. Placed(delegations)' = Placed(delegations)
    BY <1>6, WithdrawFacts, SamePlaces
  <2> QED BY <2>1, <2>2, NoRequest
<1>7. CASE \E v \in Validator :
             \/ \E stake \in SelfStake, c \in Commission : CreateValidator(j, v, stake, c)
             \/ \E d \in Delegator, amt \in Amount : Undelegate(j, d, v, amt)
             \/ \E p \in SlashPercent : Slash(j, v, p)
             \/ Unjail(j, v)
  BY <1>2, <1>7 DEF Quiet
<1> QED BY <1>1, <1>3, <1>4, <1>5, <1>6, <1>7

LEMMA JobTokens == ASSUME TypeInv, NEW j \in Job, JobStep(j) PROVE Tokens' = Tokens
<1>1. CASE Quiet(j)
  <2>1. UNCHANGED <<bal, delegations, unbonding, matured, gone>>
    BY <1>1, QuietFlow DEF bookVars, producerVars
  <2> QED BY <1>1, <2>1, QuietFlow, SameTokens
<1>2. CASE \/ RefuseDelegation(j) \/ Delegate(j) \/ ReduceDelegation(j) \/ QueueUnbonding(j)
           \/ SlashUnbonding(j)
  BY <1>2, MoneyMoves
<1>3. CASE InsertValidator(j) \/ InsertRegistered(j) \/ SlashStake(j) \/ ReleaseFromJail(j)
  <2>1. UNCHANGED <<bal, delegations, unbonding, matured, gone>>
    BY <1>3, EntryFlow DEF producerVars
  <2> QED BY <1>3, <2>1, EntryFlow, SameTokens
<1>4. CASE ReduceValidator(j) \/ ReduceTotal(j)
  BY <1>4, RelieveFlow
<1> QED BY <1>1, <1>2, <1>3, <1>4 DEF JobStep, Quiet

LEMMA TokensKept == TypeInv /\ [Next]_vars => Tokens' = Tokens
<1> SUFFICES ASSUME TypeInv, [Next]_vars PROVE Tokens' = Tokens
  OBVIOUS
<1>1. CASE UNCHANGED vars
  BY <1>1 DEF vars, Tokens, Placed, SumAmounts, FlowOf
<1> QED BY <1>1, RequestTokens, JobTokens, ProducerTokens DEF Next

LEMMA InitTokens == Init => Tokens = SumFunction(Funds)
<1> SUFFICES ASSUME Init PROVE Tokens = SumFunction(Funds)
  OBVIOUS
<1>0. TypeInv
  BY InitType
<1>1. /\ bal = Funds /\ delegations = [d \in Delegator |-> << >>] /\ unbonding = << >>
      /\ matured = << >> /\ job = [j \in Job |-> Free] /\ gone = 0
  BY DEF Init
<1>2. SumAmounts(unbonding) = 0 /\ SumAmounts(matured) = 0
  BY <1>1, EmptySum
<1>3. Placed(delegations) = 0
  <2> DEFINE f == [d \in Delegator |-> SumAmounts(delegations[d])]
  <2>1. DOMAIN f = Delegator /\ \A d \in Delegator : f[d] = 0
    BY <1>1, EmptySum
  <2>2. IsFiniteSet(Delegator)
    BY Finite
  <2> HIDE DEF f
  <2>3. SumFunction(f) = 0
    BY <2>1, <2>2, SumZero DEF SumFunction
  <2> QED BY <2>3 DEF Placed, f
<1>4. ASSUME NEW op, NEW points PROVE FlowOf(job, op, points) = 0
  <2> DEFINE f == [k \in Job |-> Carried(job[k], op, points)]
  <2>1. DOMAIN f = Job /\ \A k \in Job : f[k] = 0
    BY <1>1 DEF Carried
  <2>2. IsFiniteSet(Job)
    BY Finite
  <2> HIDE DEF f
  <2>3. SumFunction(f) = 0
    BY <2>1, <2>2, SumZero DEF SumFunction
  <2> QED BY <2>3 DEF FlowOf, f
<1>5. SumFunction(bal) \in Nat
  BY <1>0, TokenTypes
<1> QED BY <1>1, <1>2, <1>3, <1>4, <1>5 DEF Tokens

(* Tokens of accounts are neither made nor lost by requests that run at    *)
(* the same time: each is in a balance, delegated, unbonding or carried by *)
(* exactly one request (handle_delegate, undelegate, process_unbondings).  *)
THEOREM EveryTokenSomewhere == Spec => []TokensAccountedFor
<1> DEFINE Inv == TypeInv /\ Tokens = SumFunction(Funds)
<1>1. Init => Inv
  BY InitType, InitTokens
<1>2. Inv /\ [Next]_vars => Inv'
  <2> SUFFICES ASSUME Inv, [Next]_vars PROVE Inv'
    OBVIOUS
  <2>1. TypeInv' /\ Tokens' = Tokens
    BY TypeStep, TokensKept
  <2> QED BY <2>1
<1>3. Inv => TokensAccountedFor
  BY TokensAre
<1> QED BY <1>1, <1>2, <1>3, PTL DEF Spec

-----------------------------------------------------------------------------
(* Stakes and delegations.                                                 *)

(* What one delegation gives to v, and what all of them do.                *)
ShareFor(x, v) == IF x.validator = v THEN x.amount ELSE 0
GivenBy(D, v) == SumFunction([d \in Delegator |-> AmountTo(D[d], v)])

LEMMA ShareForType ==
  ASSUME NEW x \in Delegation, NEW v
  PROVE  ShareFor(x, v) \in Nat
BY DEF ShareFor, Delegation

LEMMA AmountToType ==
  ASSUME NEW s \in Seq(Delegation), NEW v
  PROVE  /\ AmountTo(s, v) \in Nat
         /\ DOMAIN s = 1 .. Len(s) /\ Len(s) \in Nat
         /\ \A i \in DOMAIN s : s[i] \in Delegation /\ ShareFor(s[i], v) \in Nat
<1> DEFINE f == [i \in DOMAIN s |-> ShareFor(s[i], v)]
<1>1. DOMAIN s = 1 .. Len(s) /\ Len(s) \in Nat
  OBVIOUS
<1>2. \A i \in DOMAIN s : s[i] \in Delegation
  OBVIOUS
<1>3. \A i \in DOMAIN s : ShareFor(s[i], v) \in Nat
  BY <1>2, ShareForType
<1>4. DOMAIN f = DOMAIN s /\ \A i \in DOMAIN s : f[i] \in Nat
  BY <1>3
<1> HIDE DEF f
<1>5. SumFunction(f) \in Nat
  BY <1>1, <1>4, SequenceSum
<1> QED BY <1>1, <1>2, <1>3, <1>5 DEF AmountTo, f, ShareFor

LEMMA AmountToAppend ==
  ASSUME NEW s \in Seq(Delegation), NEW x \in Delegation, NEW v
  PROVE  AmountTo(Append(s, x), v) = AmountTo(s, v) + ShareFor(x, v)
<1> DEFINE n == Len(s)
           t == Append(s, x)
           f == [i \in DOMAIN s |-> ShareFor(s[i], v)]
           g == [i \in DOMAIN t |-> ShareFor(t[i], v)]
<1>1. n \in Nat /\ DOMAIN s = 1 .. n
  OBVIOUS
<1>2. /\ t \in Seq(Delegation) /\ DOMAIN t = 1 .. n + 1
      /\ \A i \in 1 .. n : t[i] = s[i]
      /\ t[n + 1] = x
  OBVIOUS
<1>3. \A i \in DOMAIN t : ShareFor(t[i], v) \in Nat
  BY <1>2, AmountToType
<1>4. /\ DOMAIN f = 1 .. n /\ DOMAIN g = 1 .. n + 1 /\ g[n + 1] = ShareFor(x, v)
      /\ \A i \in 1 .. n + 1 : g[i] \in Nat
      /\ \A i \in 1 .. n : g[i] = f[i]
  <2> HIDE DEF t
  <2>1. n + 1 \in 1 .. n + 1 /\ \A i \in 1 .. n : i \in 1 .. n + 1
    BY <1>1
  <2> QED BY <1>1, <1>2, <1>3, <2>1
<1> HIDE DEF f, g, n
<1>5. SumFunction(g) = SumFunction(f) + g[n + 1]
  BY <1>1, <1>4, ListLast
<1>6. AmountTo(t, v) = SumFunction(g) /\ AmountTo(s, v) = SumFunction(f)
  BY DEF AmountTo, ShareFor, f, g
<1> QED BY <1>4, <1>5, <1>6

(* One delegation of a list is reduced. *)
LEMMA AmountToReduced ==
  ASSUME NEW s \in Seq(Delegation), NEW i \in DOMAIN s, NEW amt \in Nat, s[i].amount >= amt, NEW v
  PROVE  AmountTo(Reduced(s, i, amt), v) =
           AmountTo(s, v) - (IF s[i].validator = v THEN amt ELSE 0)
<1> DEFINE t == Reduced(s, i, amt)
           f == [k \in DOMAIN s |-> ShareFor(s[k], v)]
           g == [k \in DOMAIN t |-> ShareFor(t[k], v)]
           less == IF s[i].validator = v THEN amt ELSE 0
<1>1. /\ t \in Seq(Delegation) /\ DOMAIN t = DOMAIN s /\ t[i].amount = s[i].amount - amt
      /\ \A k \in DOMAIN s \ {i} : t[k] = s[k]
      /\ t[i].validator = s[i].validator
  BY ReducedList
<1> HIDE DEF t
<1>2. /\ DOMAIN s = 1 .. Len(s) /\ Len(s) \in Nat
      /\ \A k \in DOMAIN s : s[k] \in Delegation /\ ShareFor(s[k], v) \in Nat
      /\ \A k \in DOMAIN s : ShareFor(t[k], v) \in Nat
  BY <1>1, AmountToType
<1>3. ShareFor(t[i], v) = ShareFor(s[i], v) - less
  <2>1. s[i].amount \in Nat
    BY <1>2 DEF Delegation
  <2> QED BY <1>1, <2>1 DEF ShareFor
<1>4. /\ DOMAIN f = DOMAIN s /\ DOMAIN g = DOMAIN s
      /\ \A k \in DOMAIN s \ {i} : g[k] = f[k]
      /\ g[i] = f[i] - less
      /\ \A k \in DOMAIN s : f[k] \in Int /\ g[k] \in Int
  BY <1>1, <1>2, <1>3
<1>5. IsFiniteSet(DOMAIN s)
  <2>1. IsFiniteSet(1 .. Len(s))
    BY <1>2, FS_Interval
  <2> QED BY <1>2, <2>1
<1>n. less \in Nat
  OBVIOUS
<1> HIDE DEF f, g, less
<1>6. SumFunctionOnSet(g, DOMAIN s) = SumFunctionOnSet(f, DOMAIN s) + g[i] - f[i]
  BY <1>4, <1>5, SumUpdate
<1>7. SumFunctionOnSet(f, DOMAIN s) \in Int
  BY <1>4, <1>5, SumInt
<1>8. SumFunctionOnSet(g, DOMAIN s) = SumFunctionOnSet(f, DOMAIN s) - less
  BY <1>n, <1>4, <1>6, <1>7
<1>9. AmountTo(t, v) = SumFunction(g) /\ AmountTo(s, v) = SumFunction(f)
  BY DEF AmountTo, ShareFor, f, g
<1>10. AmountTo(t, v) = AmountTo(s, v) - less
  BY <1>4, <1>8, <1>9 DEF SumFunction
<1> QED BY <1>10 DEF t, less

(* Of the lists of delegations, that of d becomes s. *)
ListBecomes(old, new, d, s) ==
  \A k \in Delegator : /\ old[k] \in Seq(Delegation) /\ new[k] \in Seq(Delegation)
                       /\ new[k] = IF k = d THEN s ELSE old[k]

LEMMA DelegationsBecome ==
  ASSUME TypeInv, NEW d \in Delegator, NEW s \in Seq(Delegation),
         delegations' = [delegations EXCEPT ![d] = s]
  PROVE  ListBecomes(delegations, delegations', d, s)
<1>1. delegations \in [Delegator -> Seq(Delegation)]
  BY DEF TypeInv, STypeOK
<1> QED BY <1>1 DEF ListBecomes

LEMMA GivenSum ==
  ASSUME NEW old, NEW new, NEW d \in Delegator, NEW s, ListBecomes(old, new, d, s), NEW v
  PROVE  /\ GivenBy(old, v) \in Nat
         /\ GivenBy(new, v) = GivenBy(old, v) + AmountTo(s, v) - AmountTo(old[d], v)
<1> DEFINE f == [k \in Delegator |-> AmountTo(old[k], v)]
           g == [k \in Delegator |-> AmountTo(new[k], v)]
<1>1. \A k \in Delegator : old[k] \in Seq(Delegation) /\ new[k] \in Seq(Delegation)
  BY DEF ListBecomes
<1>2. \A k \in Delegator : f[k] \in Nat /\ g[k] \in Nat
  BY <1>1, AmountToType
<1>3. /\ DOMAIN f = Delegator /\ DOMAIN g = Delegator
      /\ \A k \in Delegator \ {d} : g[k] = f[k]
      /\ g[d] = AmountTo(s, v) /\ f[d] = AmountTo(old[d], v)
  BY DEF ListBecomes
<1> HIDE DEF f, g
<1>4. SumFunction(f) \in Nat /\ SumFunction(g) = SumFunction(f) + g[d] - f[d]
  BY <1>2, <1>3, AccountSum
<1> QED BY <1>3, <1>4 DEF GivenBy, f, g

LEMMA GivenByType ==
  ASSUME NEW D \in [Delegator -> Seq(Delegation)], NEW v
  PROVE  GivenBy(D, v) \in Nat
<1> DEFINE f == [d \in Delegator |-> AmountTo(D[d], v)]
<1>1. \A d \in Delegator : D[d] \in Seq(Delegation)
  OBVIOUS
<1>2. DOMAIN f = Delegator /\ \A d \in Delegator : f[d] \in Nat
  BY <1>1, AmountToType
<1>3. IsFiniteSet(Delegator)
  BY Finite
<1> HIDE DEF f
<1>4. SumFunction(f) \in Nat
  BY <1>2, <1>3, SumNat DEF SumFunction
<1> QED BY <1>4 DEF GivenBy, f

(* Delegations whose rewards are rewritten give the same. *)
LEMMA GivenSame ==
  ASSUME NEW old \in [Delegator -> Seq(Delegation)], NEW new \in [Delegator -> Seq(Delegation)],
         \A d \in Delegator :
           /\ DOMAIN new[d] = DOMAIN old[d]
           /\ \A i \in DOMAIN old[d] : /\ new[d][i].validator = old[d][i].validator
                                       /\ new[d][i].amount = old[d][i].amount,
         NEW v
  PROVE  GivenBy(new, v) = GivenBy(old, v)
<1>1. ASSUME NEW d \in Delegator PROVE AmountTo(new[d], v) = AmountTo(old[d], v)
  <2>1. [i \in DOMAIN new[d] |-> IF new[d][i].validator = v THEN new[d][i].amount ELSE 0]
        = [i \in DOMAIN old[d] |-> IF old[d][i].validator = v THEN old[d][i].amount ELSE 0]
    OBVIOUS
  <2> QED BY <2>1 DEF AmountTo
<1>2. [d \in Delegator |-> AmountTo(new[d], v)] = [d \in Delegator |-> AmountTo(old[d], v)]
  BY <1>1
<1> QED BY <1>2 DEF GivenBy

(* What an entry says is delegated and bonded. *)
HeldBy(e) == IF e = NoValidator THEN 0 ELSE e.delegated
BondedBy(e) == IF e = NoValidator THEN 0 ELSE e.total
Balanced(e) == e.total = e.self + e.delegated
TotalOf(vs) == SumFunction([v \in Validator |-> BondedBy(vs[v])])

DelegatedInv ==
  \A v \in Validator : HeldBy(validators[v]) = GivenBy(delegations, v) + LeavingOf(job, v)
UnslashedInv ==
  \A v \in Validator : validators[v] # NoValidator /\ v \notin Punished => Balanced(validators[v])
TotalInv == total <= TotalOf(validators) + FlowOf(job, "undelegate", {"taken"})
StakesInv == DelegatedInv /\ UnslashedInv /\ TotalInv

LEMMA TotalOfType ==
  ASSUME NEW vs \in [Validator -> MaybeEntry]
  PROVE  TotalOf(vs) \in Nat
<1> DEFINE f == [v \in Validator |-> BondedBy(vs[v])]
<1>1. \A v \in Validator : vs[v] \in MaybeEntry
  OBVIOUS
<1>2. \A v \in Validator : BondedBy(vs[v]) \in Nat
  BY <1>1, EntryFields DEF BondedBy, MaybeEntry
<1>3. DOMAIN f = Validator /\ \A v \in Validator : f[v] \in Nat
  BY <1>2
<1>4. IsFiniteSet(Validator)
  BY Finite
<1> HIDE DEF f
<1>5. SumFunction(f) \in Nat
  BY <1>3, <1>4, SumNat DEF SumFunction
<1> QED BY <1>5 DEF TotalOf, f

(* A sum over the validators when one of them changes. *)
LEMMA ValidatorSum ==
  ASSUME NEW f, NEW g, DOMAIN f = Validator, DOMAIN g = Validator, NEW v \in Validator,
         \A k \in Validator : f[k] \in Nat /\ g[k] \in Nat,
         \A k \in Validator \ {v} : g[k] = f[k]
  PROVE  /\ SumFunction(f) \in Nat
         /\ SumFunction(g) = SumFunction(f) + g[v] - f[v]
<1>1. IsFiniteSet(Validator)
  BY Finite
<1>2. \A k \in Validator : f[k] \in Int /\ g[k] \in Int
  OBVIOUS
<1>3. SumFunctionOnSet(g, Validator) = SumFunctionOnSet(f, Validator) + g[v] - f[v]
  BY <1>1, <1>2, SumUpdate
<1>4. SumFunctionOnSet(f, Validator) \in Nat
  BY <1>1, SumNat
<1> QED BY <1>3, <1>4 DEF SumFunction

LEMMA TotalSum ==
  ASSUME NEW vs \in [Validator -> MaybeEntry], NEW v \in Validator, NEW e \in ValidatorStake,
         NEW new, new = [vs EXCEPT ![v] = e]
  PROVE  /\ TotalOf(vs) \in Nat /\ TotalOf(new) \in Nat
         /\ TotalOf(new) = TotalOf(vs) + e.total - BondedBy(vs[v])
<1> DEFINE f == [w \in Validator |-> BondedBy(vs[w])]
           g == [w \in Validator |-> BondedBy(new[w])]
<1>1. new \in [Validator -> MaybeEntry] /\ \A w \in Validator : new[w] = IF w = v THEN e ELSE vs[w]
  BY EntryWritten
<1>2. \A w \in Validator : vs[w] \in MaybeEntry /\ new[w] \in MaybeEntry
  BY <1>1
<1>3. \A w \in Validator : BondedBy(vs[w]) \in Nat /\ BondedBy(new[w]) \in Nat
  BY <1>2, EntryFields DEF BondedBy, MaybeEntry
<1>4. e # NoValidator
  BY EntryFields
<1>5. /\ DOMAIN f = Validator /\ DOMAIN g = Validator
      /\ \A w \in Validator : f[w] \in Nat /\ g[w] \in Nat
      /\ \A w \in Validator \ {v} : g[w] = f[w]
      /\ g[v] = e.total /\ f[v] = BondedBy(vs[v])
  BY <1>1, <1>3, <1>4 DEF BondedBy
<1> HIDE DEF f, g
<1>7. SumFunction(g) = SumFunction(f) + g[v] - f[v]
  BY <1>5, ValidatorSum
<1>8. TotalOf(vs) = SumFunction(f) /\ TotalOf(new) = SumFunction(g)
  BY DEF TotalOf, f, g
<1>9. TotalOf(vs) \in Nat /\ TotalOf(new) \in Nat
  BY <1>1, TotalOfType
<1> QED BY <1>5, <1>7, <1>8, <1>9

LEMMA TotalIs ==
  ASSUME NEW vs \in [Validator -> MaybeEntry]
  PROVE  TotalOf(vs) =
           SumFunction([v \in {w \in Validator : vs[w] # NoValidator} |-> vs[v].total])
<1> DEFINE R == {w \in Validator : vs[w] # NoValidator}
           f == [v \in R |-> vs[v].total]
           g == [v \in Validator |-> BondedBy(vs[v])]
<1>1. \A v \in R : vs[v] \in ValidatorStake
  BY DEF MaybeEntry
<1>2. \A v \in R : f[v] \in Int /\ g[v] = f[v]
  BY <1>1, EntryFields DEF BondedBy
<1>3. \A v \in Validator \ R : g[v] = 0
  BY DEF BondedBy
<1>4. DOMAIN f = R /\ DOMAIN g = Validator /\ R \in SUBSET Validator /\ IsFiniteSet(Validator)
  BY Finite
<1> HIDE DEF R, f, g
<1>5. SumFunctionOnSet(g, Validator) = SumFunctionOnSet(f, R)
  BY <1>2, <1>3, <1>4, SumOnSubset
<1>6. SumFunction(g) = SumFunction(f)
  BY <1>4, <1>5 DEF SumFunction
<1> QED BY <1>6 DEF TotalOf, f, g, R

(* A slash that has begun is seen from the entry it cuts on. *)
LEMMA PunishedKept ==
  ASSUME TypeInv, NEW j \in Job, NEW r, job' = [job EXCEPT ![j] = r],
         history \subseteq history', Cuts(job[j]) => job[j].validator \in history'
  PROVE  Punished \subseteq Punished'
<1>1. job \in [Job -> Requests]
  BY DEF TypeInv, STypeOK, Requests
<1>2. \A i \in Job : i # j => job'[i] = job[i]
  BY <1>1
<1> SUFFICES ASSUME NEW v \in Punished, v \notin history PROVE v \in Punished'
  BY DEF Punished
<1>3. PICK i \in Job : Cuts(job[i]) /\ job[i].validator = v
  BY DEF Punished, At, Cuts
<1>4. CASE i = j
  BY <1>3, <1>4 DEF Punished
<1>5. CASE i # j
  <2>1. Cuts(job'[i]) /\ job'[i].validator = v
    BY <1>2, <1>3, <1>5
  <2> QED BY <2>1 DEF Punished, At, Cuts
<1> QED BY <1>4, <1>5

LEMMA PunishedStays ==
  ASSUME job' = job, history' = history
  PROVE  Punished \subseteq Punished'
BY DEF Punished, At

(* Both requests have taken the same off entries and totals. *)
SameTaken(r, q) ==
  /\ Carried(r, "undelegate", {"taken"}) = Carried(q, "undelegate", {"taken"})
  /\ \A v \in Validator : Leaving(r, v) = Leaving(q, v)

Taken(q) == FlowOf(q, "undelegate", {"taken"})

LEMMA TakenStep ==
  ASSUME TypeInv, NEW j \in Job, NEW r \in Requests, job' = [job EXCEPT ![j] = r]
  PROVE  /\ Taken(job) \in Nat
         /\ Taken(job') = Taken(job) + Carried(r, "undelegate", {"taken"})
                          - Carried(job[j], "undelegate", {"taken"})
         /\ \A v \in Validator :
              /\ LeavingOf(job, v) \in Nat /\ Leaving(job[j], v) <= LeavingOf(job, v)
              /\ LeavingOf(job', v) = LeavingOf(job, v) + Leaving(r, v) - Leaving(job[j], v)
<1>1. Becomes(job, job', j, r)
  BY JobBecomes
<1>2. "undelegate" \in Paying
  BY DEF Paying
<1>3. /\ Taken(job) \in Nat
      /\ Taken(job') = Taken(job) + Carried(r, "undelegate", {"taken"})
                       - Carried(job[j], "undelegate", {"taken"})
  BY <1>1, <1>2, CarriedSum DEF Taken
<1>4. \A v \in Validator :
        /\ LeavingOf(job, v) \in Nat /\ Leaving(job[j], v) <= LeavingOf(job, v)
        /\ LeavingOf(job', v) = LeavingOf(job, v) + Leaving(r, v) - Leaving(job[j], v)
  BY <1>1, LeavingSum
<1> QED BY <1>3, <1>4

LEMMA TakenSame ==
  ASSUME TypeInv, NEW j \in Job, NEW r \in Requests, job' = [job EXCEPT ![j] = r],
         SameTaken(r, job[j])
  PROVE  /\ Taken(job') = Taken(job)
         /\ \A v \in Validator : LeavingOf(job', v) = LeavingOf(job, v)
<1>1. "undelegate" \in Paying
  BY DEF Paying
<1>2. Carried(r, "undelegate", {"taken"}) \in Nat
  BY <1>1, CarriedType
<1>3. /\ Taken(job) \in Nat
      /\ Taken(job') = Taken(job) + Carried(r, "undelegate", {"taken"})
                       - Carried(job[j], "undelegate", {"taken"})
  BY TakenStep
<1>4. ASSUME NEW v \in Validator PROVE LeavingOf(job', v) = LeavingOf(job, v)
  <2>1. /\ LeavingOf(job, v) \in Nat
        /\ LeavingOf(job', v) = LeavingOf(job, v) + Leaving(r, v) - Leaving(job[j], v)
    BY TakenStep
  <2>2. Leaving(r, v) = Leaving(job[j], v) /\ Leaving(r, v) \in Nat
    BY LeavingType DEF SameTaken
  <2> QED BY <2>1, <2>2
<1>5. Carried(r, "undelegate", {"taken"}) = Carried(job[j], "undelegate", {"taken"})
  BY DEF SameTaken
<1>6. Taken(job') = Taken(job)
  BY <1>2, <1>3, <1>5
<1> QED BY <1>4, <1>6

(* The invariant over a step, with the primes inside. *)
LEMMA StakesStep ==
  ASSUME \A v \in Validator :
           HeldBy(validators'[v]) = GivenBy(delegations', v) + LeavingOf(job', v),
         \A v \in Validator :
           validators'[v] # NoValidator /\ v \notin Punished' => Balanced(validators'[v]),
         total' <= TotalOf(validators') + Taken(job')
  PROVE  StakesInv'
<1>1. \A v \in Validator : /\ GivenBy(delegations, v)' = GivenBy(delegations', v)
                           /\ LeavingOf(job, v)' = LeavingOf(job', v)
                           /\ HeldBy(validators[v])' = HeldBy(validators'[v])
                           /\ Balanced(validators[v])' <=> Balanced(validators'[v])
  BY DEF GivenBy, AmountTo, LeavingOf, Leaving, Carried, HeldBy, Balanced
<1>2. /\ TotalOf(validators)' = TotalOf(validators')
      /\ FlowOf(job, "undelegate", {"taken"})' = Taken(job')
  BY DEF TotalOf, BondedBy, Taken, FlowOf, Carried
<1>3. DelegatedInv'
  BY <1>1 DEF DelegatedInv
<1>4. UnslashedInv'
  BY <1>1 DEF UnslashedInv
<1>5. TotalInv'
  BY <1>2 DEF TotalInv
<1> QED BY <1>3, <1>4, <1>5 DEF StakesInv

LEMMA StakesAre ==
  ASSUME TypeInv, StakesInv
  PROVE  /\ total \in Nat /\ total <= TotalOf(validators) + Taken(job)
         /\ validators \in [Validator -> MaybeEntry]
         /\ delegations \in [Delegator -> Seq(Delegation)]
         /\ \A v \in Validator :
              /\ HeldBy(validators[v]) = GivenBy(delegations, v) + LeavingOf(job, v)
              /\ GivenBy(delegations, v) \in Nat
              /\ validators[v] # NoValidator /\ v \notin Punished => Balanced(validators[v])
<1>1. total \in Nat /\ validators \in [Validator -> MaybeEntry]
      /\ delegations \in [Delegator -> Seq(Delegation)]
  BY DEF TypeInv, STypeOK, MaybeEntry
<1>2. \A v \in Validator : GivenBy(delegations, v) \in Nat
  BY <1>1, GivenByType
<1> QED BY <1>1, <1>2 DEF StakesInv, DelegatedInv, UnslashedInv, TotalInv, Taken

SameEntry(e, f) ==
  (e = NoValidator <=> f = NoValidator) /\ (f # NoValidator => SameStake(e, f))

(* No stake changes, no delegation and nothing that an undelegation took. *)
LEMMA NothingStaked ==
  ASSUME TypeInv, StakesInv, Punished \subseteq Punished', total' = total,
         DOMAIN validators' = Validator,
         \A v \in Validator : /\ SameEntry(validators'[v], validators[v])
                              /\ GivenBy(delegations', v) = GivenBy(delegations, v)
                              /\ LeavingOf(job', v) = LeavingOf(job, v),
         Taken(job') = Taken(job)
  PROVE  StakesInv'
<1>1. \A v \in Validator : /\ HeldBy(validators'[v]) = HeldBy(validators[v])
                           /\ BondedBy(validators'[v]) = BondedBy(validators[v])
                           /\ validators[v] # NoValidator /\ Balanced(validators[v])
                                => Balanced(validators'[v])
                           /\ validators'[v] # NoValidator => validators[v] # NoValidator
  BY DEF SameEntry, SameStake, HeldBy, BondedBy, Balanced
<1>2. TotalOf(validators') = TotalOf(validators)
  <2>1. [v \in Validator |-> BondedBy(validators'[v])] = [v \in Validator |-> BondedBy(validators[v])]
    BY <1>1
  <2> QED BY <2>1 DEF TotalOf
<1>3. \A v \in Validator :
        HeldBy(validators'[v]) = GivenBy(delegations', v) + LeavingOf(job', v)
  BY <1>1, StakesAre
<1>4. \A v \in Validator :
        validators'[v] # NoValidator /\ v \notin Punished' => Balanced(validators'[v])
  BY <1>1, StakesAre
<1>5. total' <= TotalOf(validators') + Taken(job')
  BY <1>2, StakesAre
<1> QED BY <1>3, <1>4, <1>5, StakesStep

(* One entry is written, with the delegations of d. *)
LEMMA EntrySame ==
  ASSUME TypeInv, NEW v \in Validator, NEW e \in ValidatorStake, SameEntry(e, validators[v]),
         validators' = [validators EXCEPT ![v] = e]
  PROVE  /\ DOMAIN validators' = Validator
         /\ \A w \in Validator : SameEntry(validators'[w], validators[w])
<1>1. validators \in [Validator -> MaybeEntry]
  BY DEF TypeInv, STypeOK, MaybeEntry
<1>2. /\ validators' \in [Validator -> MaybeEntry]
      /\ \A w \in Validator : validators'[w] = IF w = v THEN e ELSE validators[w]
  BY <1>1, EntryWritten
<1> QED BY <1>2 DEF SameEntry, SameStake

LEMMA EntriesStay ==
  ASSUME TypeInv, validators' = validators
  PROVE  /\ DOMAIN validators' = Validator
         /\ \A w \in Validator : SameEntry(validators'[w], validators[w])
BY DEF TypeInv, STypeOK, SameEntry, SameStake

LEMMA GivenStays ==
  ASSUME TypeInv, delegations' \in [Delegator -> Seq(Delegation)],
         \A d \in Delegator :
           /\ DOMAIN delegations'[d] = DOMAIN delegations[d]
           /\ \A i \in DOMAIN delegations[d] :
                /\ delegations'[d][i].validator = delegations[d][i].validator
                /\ delegations'[d][i].amount = delegations[d][i].amount
  PROVE  \A v \in Validator : GivenBy(delegations', v) = GivenBy(delegations, v)
<1>1. delegations \in [Delegator -> Seq(Delegation)]
  BY DEF TypeInv, STypeOK
<1> QED BY <1>1, GivenSame

(* A request goes on and takes nothing off a stake. *)
LEMMA RequestStakes ==
  ASSUME TypeInv, StakesInv, NEW j \in Job, NEW r \in Requests, job' = [job EXCEPT ![j] = r],
         SameTaken(r, job[j]), Cuts(job[j]) => job[j].validator \in history',
         history \subseteq history',
         UNCHANGED <<validators, delegations, total>>
  PROVE  StakesInv'
<1>1. Punished \subseteq Punished'
  BY PunishedKept
<1>2. Taken(job') = Taken(job) /\ \A v \in Validator : LeavingOf(job', v) = LeavingOf(job, v)
  BY TakenSame
<1>3. \A v \in Validator : GivenBy(delegations', v) = GivenBy(delegations, v)
  OBVIOUS
<1>4. /\ DOMAIN validators' = Validator
      /\ \A v \in Validator : SameEntry(validators'[v], validators[v])
  BY EntriesStay
<1>5. total' = total
  OBVIOUS
<1> HIDE DEF TypeInv, StakesInv, Punished
<1> QED BY <1>1, <1>2, <1>3, <1>4, <1>5, NothingStaked

LEMMA SameFlowTaken == ASSUME NEW r, NEW q, SameFlow(r, q) PROVE SameTaken(r, q)
BY DEF SameFlow, SameTaken

(* What an undelegation carries at each of its points. *)
LEMMA TakenAt ==
  ASSUME NEW r, r # Free
  PROVE  /\ Carried(r, "undelegate", {"taken"}) =
              IF r.op = "undelegate" /\ r.at = "taken" THEN r.amount ELSE 0
         /\ \A v : Leaving(r, v) =
              IF r.op = "undelegate" /\ r.at = "reduced" /\ r.validator = v THEN r.amount ELSE 0
BY DEF Carried, Leaving

LEMMA TakenFree ==
  /\ Carried(Free, "undelegate", {"taken"}) = 0
  /\ \A v : Leaving(Free, v) = 0
BY DEF Carried, Leaving

(* Steps that carry tokens past the stakes. *)
LEMMA StakesPassed ==
  ASSUME TypeInv, StakesInv, NEW j \in Job,
         \/ \E d \in Delegator, v \in Validator, amt \in Amount : DeductForDelegation(j, d, v, amt)
         \/ RefuseDelegation(j) \/ QueueUnbonding(j) \/ SlashUnbonding(j)
  PROVE  StakesInv'
<1> DEFINE q == job[j]
<1>1. ASSUME NEW d \in Delegator, NEW v \in Validator, NEW amt \in Amount,
             DeductForDelegation(j, d, v, amt)
      PROVE  StakesInv'
  <2> DEFINE r == [op |-> "delegate", validator |-> v, delegator |-> d,
                   amount |-> amt, height |-> 0,
                   at |-> IF v \in DOMAIN ConsensusStake THEN "register" ELSE "start"]
  <2>1. r \in Requests /\ r.op = "delegate" /\ r # Free
    BY RequestFields DEF Delegating, Request, Requests
  <2>2. Accept(j, r) /\ UNCHANGED <<validators, delegations, total, history>>
    BY <1>1 DEF DeductForDelegation, bookVars
  <2> HIDE DEF r
  <2>3. job' = [job EXCEPT ![j] = r] /\ q = Free
    BY <2>2, MayAccept
  <2>4. SameTaken(r, q) /\ ~Cuts(q)
    BY <2>1, <2>3, TakenAt, TakenFree DEF SameTaken, Cuts
  <2> QED BY <2>1, <2>2, <2>3, <2>4, RequestStakes
<1>2. ASSUME RefuseDelegation(j) PROVE StakesInv'
  <2>1. /\ At(j, "delegate", "start") /\ Return(j)
        /\ UNCHANGED <<validators, delegations, total, history>>
    BY <1>2 DEF RefuseDelegation, bookVars
  <2>2. q # Free /\ q.op = "delegate" /\ job' = [job EXCEPT ![j] = Free]
    BY <2>1, Returned DEF At
  <2>3. SameTaken(Free, q) /\ ~Cuts(q)
    BY <2>2, TakenAt, TakenFree DEF SameTaken, Cuts
  <2> QED BY <2>1, <2>2, <2>3, RequestStakes, IdleFree
<1>3. ASSUME QueueUnbonding(j) PROVE StakesInv'
  <2>1. /\ q \in Request /\ q.op = "undelegate" /\ q.at = "queue" /\ job' = [job EXCEPT ![j] = Free]
        /\ UNCHANGED <<validators, delegations, total, history>>
    BY <1>3, QueueFacts
  <2>2. SameTaken(Free, q) /\ ~Cuts(q)
    BY <2>1, TakenAt, TakenFree, RequestFields DEF SameTaken, Cuts
  <2> QED BY <2>1, <2>2, RequestStakes, IdleFree
<1>4. ASSUME SlashUnbonding(j) PROVE StakesInv'
  <2>1. /\ q \in Request /\ q.op = "slash" /\ job' = [job EXCEPT ![j] = Free]
        /\ history' = history \cup {q.validator}
        /\ UNCHANGED <<validators, delegations, total>>
    BY <1>4, CutFacts
  <2>2. SameTaken(Free, q)
    BY <2>1, TakenAt, TakenFree, RequestFields DEF SameTaken
  <2> QED BY <2>1, <2>2, RequestStakes, IdleFree
<1> QED BY <1>1, <1>2, <1>3, <1>4

(* unjail_validator *)
LEMMA ReleaseStakes ==
  ASSUME TypeInv, StakesInv, NEW j \in Job, ReleaseFromJail(j)
  PROVE  StakesInv'
<1> DEFINE v == job[j].validator
<1>1. /\ v \in Validator /\ validators[v] \in ValidatorStake
      /\ UNCHANGED <<delegations, total, history>>
  BY ReleaseFacts
<1>2. PICK e \in ValidatorStake :
        /\ validators' = [validators EXCEPT ![v] = e] /\ e.self = validators[v].self
        /\ e.delegated = validators[v].delegated /\ e.total = validators[v].total
  BY ReleaseFacts
<1>3. SameEntry(e, validators[v])
  BY <1>1, <1>2, EntryFields DEF SameEntry, SameStake
<1>4. /\ DOMAIN validators' = Validator
      /\ \A w \in Validator : SameEntry(validators'[w], validators[w])
  BY <1>1, <1>2, <1>3, EntrySame
<1>5. PICK r \in Requests : job' = [job EXCEPT ![j] = r] /\ SameFlow(r, job[j])
  BY EntryFlow
<1>6. ~Cuts(job[j])
  BY EntryFlow
<1>7. Punished \subseteq Punished'
  BY <1>1, <1>5, <1>6, PunishedKept
<1>8. Taken(job') = Taken(job) /\ \A w \in Validator : LeavingOf(job', w) = LeavingOf(job, w)
  BY <1>5, SameFlowTaken, TakenSame
<1>9. total' = total /\ \A w \in Validator : GivenBy(delegations', w) = GivenBy(delegations, w)
  BY <1>1
<1> HIDE DEF TypeInv, StakesInv, Punished, v
<1> QED BY <1>4, <1>7, <1>8, <1>9, NothingStaked

(* create_validator, by itself or for handle_delegate. *)
LEMMA InsertStakes ==
  ASSUME TypeInv, StakesInv, NEW j \in Job, InsertValidator(j) \/ InsertRegistered(j)
  PROVE  StakesInv'
<1> DEFINE v == job[j].validator
<1>1. PICK e \in ValidatorStake :
        /\ validators' = [validators EXCEPT ![v] = e]
        /\ e.delegated = 0 /\ e.total = e.self /\ total' = total + e.total
        /\ job[j] \in Request /\ validators[v] = NoValidator
        /\ UNCHANGED <<delegations, history>>
  BY InsertFacts
<1>2. v \in Validator
  BY <1>1, RequestFields
<1>3. PICK r \in Requests : job' = [job EXCEPT ![j] = r] /\ SameFlow(r, job[j])
  BY EntryFlow
<1>4. Punished \subseteq Punished'
  <2>1. ~Cuts(job[j])
    BY EntryFlow
  <2> QED BY <1>1, <1>3, <2>1, PunishedKept
<1>5. Taken(job') = Taken(job) /\ \A w \in Validator : LeavingOf(job', w) = LeavingOf(job, w)
  BY <1>3, SameFlowTaken, TakenSame
<1>6. Taken(job) \in Nat
  BY <1>3, TakenStep
<1>7. validators \in [Validator -> MaybeEntry] /\ total \in Nat
      /\ total <= TotalOf(validators) + Taken(job)
  BY StakesAre
<1>8. \A w \in Validator : validators'[w] = IF w = v THEN e ELSE validators[w]
  BY <1>1, <1>2, <1>7, EntryWritten
<1>9. e # NoValidator /\ e.total \in Nat /\ e.self \in Nat /\ e.delegated = 0 /\ e.total = e.self
  BY <1>1, EntryFields
<1>10. \A w \in Validator :
         HeldBy(validators'[w]) = GivenBy(delegations', w) + LeavingOf(job', w)
  <2>1. \A w \in Validator : HeldBy(validators'[w]) = HeldBy(validators[w])
    BY <1>1, <1>8, <1>9 DEF HeldBy
  <2>2. delegations' = delegations
    BY <1>1
  <2> QED BY <1>5, <2>1, <2>2, StakesAre
<1>11. \A w \in Validator :
         validators'[w] # NoValidator /\ w \notin Punished' => Balanced(validators'[w])
  <2>1. Balanced(e)
    BY <1>9 DEF Balanced
  <2> QED BY <1>4, <1>8, <2>1, StakesAre
<1>12. total' <= TotalOf(validators') + Taken(job')
  <2>1. /\ TotalOf(validators) \in Nat
        /\ TotalOf(validators') = TotalOf(validators) + e.total - BondedBy(validators[v])
    BY <1>1, <1>2, <1>7, TotalSum
  <2>2. BondedBy(validators[v]) = 0 /\ total' = total + e.total
    BY <1>1 DEF BondedBy
  <2> HIDE DEF v
  <2> QED BY <1>5, <1>6, <1>7, <1>9, <2>1, <2>2
<1> QED BY <1>10, <1>11, <1>12, StakesStep

(* delegate: the entry and the delegations gain the same. *)
LEMMA DelegateStakes ==
  ASSUME TypeInv, StakesInv, NEW j \in Job, Delegate(j)
  PROVE  StakesInv'
<1> DEFINE q == job[j]
           v == q.validator
           amt == q.amount
           e == Raised(validators[v], amt)
           d == q.delegator
           x == NewDelegation(q)
           s == delegations[d]
<1>1. /\ q # Free /\ q.op = "delegate" /\ v \in Validator /\ d \in Delegator /\ amt \in Nat
      /\ validators[v] \in ValidatorStake /\ x \in Delegation
      /\ validators' = [validators EXCEPT ![v] = e]
      /\ delegations' = [delegations EXCEPT ![d] = Append(s, x)]
      /\ total' = total + amt /\ job' = [job EXCEPT ![j] = Free] /\ history' = history
  BY DelegateFacts
<1>2. /\ e \in ValidatorStake /\ e.self = validators[v].self
      /\ e.delegated = validators[v].delegated + amt /\ e.total = validators[v].total + amt
  BY <1>1, RaisedEntry
<1>3. x.validator = v /\ x.amount = amt
  BY DEF NewDelegation
<1> HIDE DEF v, amt, e, d, x, s
<1>4. SameTaken(Free, q) /\ ~Cuts(q)
  BY <1>1, TakenAt, TakenFree DEF SameTaken, Cuts
<1>5. /\ Taken(job') = Taken(job) /\ \A w \in Validator : LeavingOf(job', w) = LeavingOf(job, w)
      /\ Taken(job) \in Nat /\ \A w \in Validator : LeavingOf(job, w) \in Nat
  BY <1>1, <1>4, IdleFree, TakenSame, TakenStep
<1>6. Punished \subseteq Punished'
  BY <1>1, <1>4, PunishedKept
<1>7. /\ validators \in [Validator -> MaybeEntry] /\ delegations \in [Delegator -> Seq(Delegation)]
      /\ total \in Nat /\ total <= TotalOf(validators) + Taken(job)
  BY StakesAre
<1>8. \A w \in Validator : validators'[w] = IF w = v THEN e ELSE validators[w]
  BY <1>1, <1>2, <1>7, EntryWritten
<1>9. /\ e # NoValidator /\ validators[v] # NoValidator
      /\ validators[v].self \in Nat /\ validators[v].delegated \in Nat /\ validators[v].total \in Nat
  BY <1>1, <1>2, EntryFields
<1>10. ASSUME NEW w \in Validator
       PROVE  HeldBy(validators'[w]) = GivenBy(delegations', w) + LeavingOf(job', w)
  <2> DEFINE n == ShareFor(x, w)
  <2>1. s \in Seq(Delegation)
    BY <1>1, <1>7 DEF s
  <2>2. n \in Nat /\ n = IF w = v THEN amt ELSE 0
    BY <1>1, <1>3 DEF ShareFor
  <2> HIDE DEF n
  <2>3. AmountTo(Append(s, x), w) = AmountTo(s, w) + n /\ AmountTo(s, w) \in Nat
    BY <1>1, <2>1, AmountToAppend, AmountToType DEF n
  <2>4. Append(s, x) \in Seq(Delegation)
    BY <1>1, <2>1
  <2>5. /\ GivenBy(delegations', w) =
             GivenBy(delegations, w) + AmountTo(Append(s, x), w) - AmountTo(s, w)
        /\ GivenBy(delegations, w) \in Nat
    <3>1. ListBecomes(delegations, delegations', d, Append(s, x))
      BY <1>1, <2>4, DelegationsBecome
    <3> QED BY <1>1, <3>1, GivenSum DEF s
  <2>6. GivenBy(delegations', w) = GivenBy(delegations, w) + n
    BY <2>2, <2>3, <2>5
  <2>7. HeldBy(validators'[w]) = HeldBy(validators[w]) + n /\ HeldBy(validators[w]) \in Int
    <3>1. CASE w = v
      BY <1>1, <1>2, <1>8, <1>9, <2>2, <3>1 DEF HeldBy
    <3>2. CASE w # v
      <4>1. HeldBy(validators[w]) \in Int
        BY <1>7, EntryFields DEF HeldBy, MaybeEntry
      <4> QED BY <1>8, <2>2, <3>2, <4>1
    <3> QED BY <3>1, <3>2
  <2>8. HeldBy(validators[w]) = GivenBy(delegations, w) + LeavingOf(job, w)
    BY StakesAre
  <2>9. LeavingOf(job', w) = LeavingOf(job, w) /\ LeavingOf(job, w) \in Nat
    BY <1>5
  <2> QED BY <2>2, <2>5, <2>6, <2>7, <2>8, <2>9
<1>11. \A w \in Validator :
         validators'[w] # NoValidator /\ w \notin Punished' => Balanced(validators'[w])
  <2>1. Balanced(validators[v]) => Balanced(e)
    BY <1>1, <1>2, <1>9 DEF Balanced
  <2> QED BY <1>6, <1>8, <1>9, <2>1, StakesAre
<1>12. total' <= TotalOf(validators') + Taken(job')
  <2>1. /\ TotalOf(validators) \in Nat
        /\ TotalOf(validators') = TotalOf(validators) + e.total - BondedBy(validators[v])
    BY <1>1, <1>2, <1>7, TotalSum
  <2>2. BondedBy(validators[v]) = validators[v].total
    BY <1>9 DEF BondedBy
  <2>3. total' = total + amt /\ amt \in Nat /\ e.total = validators[v].total + amt
    BY <1>1, <1>2
  <2>4. Taken(job') = Taken(job) /\ Taken(job) \in Nat
    BY <1>5
  <2> QED BY <1>7, <1>9, <2>1, <2>2, <2>3, <2>4
<1> QED BY <1>10, <1>11, <1>12, StakesStep

(* undelegate: first the delegation, *)
LEMMA ReduceStakes ==
  ASSUME TypeInv, StakesInv, NEW j \in Job, ReduceDelegation(j)
  PROVE  StakesInv'
<1> DEFINE q == job[j]
           v == q.validator
           amt == q.amount
           d == q.delegator
           i == FirstDelegation(d, v)
           s == delegations[d]
           t == Reduced(s, i, amt)
           r == [q EXCEPT !.at = "reduced"]
<1>1. /\ q \in Request /\ q.op = "undelegate" /\ q.at = "timed" /\ d \in Delegator
      /\ amt \in Nat /\ i \in Own(d, v) /\ s \in Seq(Delegation) /\ s[i].amount >= amt
      /\ delegations' = [delegations EXCEPT ![d] = t] /\ job' = [job EXCEPT ![j] = r]
      /\ UNCHANGED <<validators, total, history>>
  BY ReduceFacts
<1>2. i \in DOMAIN s /\ s[i].validator = v
  BY <1>1 DEF Own
<1>3. r \in Undelegating /\ r.op = "undelegate" /\ r.at = "reduced" /\ r.amount = amt
      /\ r.validator = v
  BY <1>1, RequestMoves
<1>4. r \in Requests /\ r # Free /\ q # Free
  BY <1>1, <1>3, RequestFields DEF Request, Requests
<1> HIDE DEF r, v, amt, d, i, s, t
<1>5. /\ Carried(r, "undelegate", {"taken"}) = 0 /\ Carried(q, "undelegate", {"taken"}) = 0
      /\ \A w : Leaving(q, w) = 0
      /\ \A w : Leaving(r, w) = IF w = v THEN amt ELSE 0
  BY <1>1, <1>3, <1>4, TakenAt
<1>6. ~Cuts(q)
  BY <1>1 DEF Cuts
<1>7. Punished \subseteq Punished'
  BY <1>1, <1>6, PunishedKept
<1>8. Taken(job') = Taken(job) /\ Taken(job) \in Nat
  <2>1. /\ Taken(job) \in Nat
        /\ Taken(job') = Taken(job) + Carried(r, "undelegate", {"taken"})
                         - Carried(q, "undelegate", {"taken"})
    BY <1>1, <1>4, TakenStep
  <2> QED BY <1>5, <2>1
<1>9. ASSUME NEW w \in Validator
      PROVE  HeldBy(validators'[w]) = GivenBy(delegations', w) + LeavingOf(job', w)
  <2> DEFINE n == IF w = v THEN amt ELSE 0
  <2>1. n \in Nat
    BY <1>1
  <2>2. t \in Seq(Delegation)
    BY <1>1, <1>2, ReducedList DEF t
  <2>3. AmountTo(t, w) = AmountTo(s, w) - n /\ AmountTo(s, w) \in Nat
    <3>1. AmountTo(t, w) = AmountTo(s, w) - (IF s[i].validator = w THEN amt ELSE 0)
      BY <1>1, <1>2, AmountToReduced DEF t
    <3>2. AmountTo(s, w) \in Nat
      BY <1>1, AmountToType
    <3> QED BY <1>2, <3>1, <3>2
  <2>4. /\ GivenBy(delegations', w) = GivenBy(delegations, w) + AmountTo(t, w) - AmountTo(s, w)
        /\ GivenBy(delegations, w) \in Nat
    <3>1. ListBecomes(delegations, delegations', d, t)
      BY <1>1, <2>2, DelegationsBecome
    <3> QED BY <1>1, <3>1, GivenSum DEF s
  <2>5. /\ LeavingOf(job, w) \in Nat
        /\ LeavingOf(job', w) = LeavingOf(job, w) + Leaving(r, w) - Leaving(q, w)
    BY <1>1, <1>4, TakenStep
  <2>6. Leaving(r, w) = n /\ Leaving(q, w) = 0
    BY <1>5
  <2>7. HeldBy(validators[w]) = GivenBy(delegations, w) + LeavingOf(job, w)
    BY StakesAre
  <2>8. validators' = validators
    BY <1>1
  <2> HIDE DEF n
  <2>9. GivenBy(delegations', w) + LeavingOf(job', w) = GivenBy(delegations, w) + LeavingOf(job, w)
    BY <2>1, <2>3, <2>4, <2>5, <2>6
  <2> QED BY <2>7, <2>8, <2>9
<1>10. \A w \in Validator :
         validators'[w] # NoValidator /\ w \notin Punished' => Balanced(validators'[w])
  <2>1. validators' = validators
    BY <1>1
  <2> QED BY <1>7, <2>1, StakesAre
<1>11. total' <= TotalOf(validators') + Taken(job')
  <2>1. validators' = validators /\ total' = total
    BY <1>1
  <2> QED BY <1>8, <2>1, StakesAre
<1> QED BY <1>9, <1>10, <1>11, StakesStep

(* then the entry, which holds as much as the undelegations on their way,  *)
LEMMA RelieveStakes ==
  ASSUME TypeInv, StakesInv, NEW j \in Job, ReduceValidator(j)
  PROVE  StakesInv'
<1> DEFINE q == job[j]
           v == q.validator
           amt == q.amount
           e == Relieved(validators[v], amt)
           r == [q EXCEPT !.at = "taken"]
<1>1. /\ q \in Request /\ q.op = "undelegate" /\ q.at = "reduced" /\ v \in Validator /\ amt \in Nat
      /\ validators[v] \in ValidatorStake /\ validators' = [validators EXCEPT ![v] = e]
      /\ job' = [job EXCEPT ![j] = r] /\ UNCHANGED <<delegations, total, history>>
  BY RelieveFacts
<1>2. r \in Undelegating /\ r.op = "undelegate" /\ r.at = "taken" /\ r.amount = amt
  BY <1>1, RequestMoves
<1>3. r \in Requests /\ r # Free /\ q # Free
  BY <1>1, <1>2, RequestFields DEF Request, Requests
<1>4. /\ e \in ValidatorStake /\ e.self = validators[v].self
      /\ e.delegated = Minus(validators[v].delegated, amt)
      /\ e.total = Minus(validators[v].total, amt)
  BY <1>1, RelievedEntry
<1> HIDE DEF r, v, amt, e
<1>5. /\ Carried(r, "undelegate", {"taken"}) = amt /\ Carried(q, "undelegate", {"taken"}) = 0
      /\ \A w : Leaving(r, w) = 0
      /\ \A w : Leaving(q, w) = IF w = v THEN amt ELSE 0
  BY <1>1, <1>2, <1>3, TakenAt DEF v, amt
<1>6. ~Cuts(q)
  BY <1>1 DEF Cuts
<1>7. Punished \subseteq Punished'
  BY <1>1, <1>6, PunishedKept
<1>8. Taken(job') = Taken(job) + amt /\ Taken(job) \in Nat
  <2>1. /\ Taken(job) \in Nat
        /\ Taken(job') = Taken(job) + Carried(r, "undelegate", {"taken"})
                         - Carried(q, "undelegate", {"taken"})
    BY <1>1, <1>3, TakenStep
  <2>2. amt \in Nat
    BY <1>1
  <2> QED BY <1>5, <2>1, <2>2
<1>9. ASSUME NEW w \in Validator
      PROVE  /\ LeavingOf(job', w) = LeavingOf(job, w) - (IF w = v THEN amt ELSE 0)
             /\ LeavingOf(job, w) \in Nat
             /\ (IF w = v THEN amt ELSE 0) <= LeavingOf(job, w)
  <2>1. /\ LeavingOf(job, w) \in Nat /\ Leaving(q, w) <= LeavingOf(job, w)
        /\ LeavingOf(job', w) = LeavingOf(job, w) + Leaving(r, w) - Leaving(q, w)
    BY <1>1, <1>3, TakenStep
  <2>2. Leaving(r, w) = 0 /\ Leaving(q, w) = IF w = v THEN amt ELSE 0
    BY <1>5
  <2>3. (IF w = v THEN amt ELSE 0) \in Nat
    BY <1>1
  <2> QED BY <2>1, <2>2, <2>3
<1>10. /\ e # NoValidator /\ validators[v] # NoValidator
       /\ validators[v].self \in Nat /\ validators[v].delegated \in Nat /\ validators[v].total \in Nat
       /\ validators \in [Validator -> MaybeEntry]
  BY <1>1, <1>4, StakesAre, EntryFields
<1>11. amt <= validators[v].delegated
  <2>1. HeldBy(validators[v]) = GivenBy(delegations, v) + LeavingOf(job, v)
        /\ GivenBy(delegations, v) \in Nat
    BY <1>1, StakesAre
  <2>2. HeldBy(validators[v]) = validators[v].delegated
    BY <1>10 DEF HeldBy
  <2>3. LeavingOf(job, v) \in Nat /\ amt <= LeavingOf(job, v) /\ amt \in Nat
    BY <1>1, <1>9
  <2> QED BY <1>10, <2>1, <2>2, <2>3
<1>12. e.delegated = validators[v].delegated - amt
  BY <1>1, <1>4, <1>10, <1>11, MinusType
<1>13. \A w \in Validator : validators'[w] = IF w = v THEN e ELSE validators[w]
  BY <1>1, <1>4, <1>10, EntryWritten
<1>14. ASSUME NEW w \in Validator
       PROVE  HeldBy(validators'[w]) = GivenBy(delegations', w) + LeavingOf(job', w)
  <2> DEFINE n == IF w = v THEN amt ELSE 0
  <2>1. n \in Nat
    BY <1>1
  <2>2. HeldBy(validators'[w]) = HeldBy(validators[w]) - n
    <3>1. CASE w = v
      BY <1>1, <1>10, <1>12, <1>13, <3>1 DEF HeldBy
    <3>2. CASE w # v
      <4>1. HeldBy(validators[w]) \in Int
        BY <1>10, EntryFields DEF HeldBy, MaybeEntry
      <4> QED BY <1>13, <3>2, <4>1
    <3> QED BY <3>1, <3>2
  <2>3. LeavingOf(job', w) = LeavingOf(job, w) - n /\ LeavingOf(job, w) \in Nat
    BY <1>9
  <2>4. HeldBy(validators[w]) = GivenBy(delegations, w) + LeavingOf(job, w)
        /\ GivenBy(delegations, w) \in Nat
    BY StakesAre
  <2>5. delegations' = delegations
    BY <1>1
  <2> HIDE DEF n
  <2> QED BY <2>1, <2>2, <2>3, <2>4, <2>5
<1>15. \A w \in Validator :
         validators'[w] # NoValidator /\ w \notin Punished' => Balanced(validators'[w])
  <2>1. ASSUME Balanced(validators[v]) PROVE Balanced(e)
    <3>1. validators[v].total = validators[v].self + validators[v].delegated /\ amt \in Nat
      BY <1>1, <2>1 DEF Balanced
    <3>2. amt <= validators[v].total
      BY <1>10, <1>11, <3>1
    <3>3. e.total = validators[v].total - amt
      BY <1>4, <1>10, <3>1, <3>2, MinusType
    <3> QED BY <1>4, <1>10, <1>12, <3>1, <3>3 DEF Balanced
  <2> QED BY <1>7, <1>10, <1>13, <2>1, StakesAre
<1>16. total' <= TotalOf(validators') + Taken(job')
  <2>1. /\ TotalOf(validators) \in Nat
        /\ TotalOf(validators') = TotalOf(validators) + e.total - BondedBy(validators[v])
    BY <1>1, <1>4, <1>10, TotalSum
  <2>2. BondedBy(validators[v]) = validators[v].total
    BY <1>10 DEF BondedBy
  <2>3. e.total \in Nat /\ e.total >= validators[v].total - amt /\ amt \in Nat
    BY <1>1, <1>4, <1>10 DEF Minus
  <2>4. total' = total
    BY <1>1
  <2>5. total \in Nat /\ total <= TotalOf(validators) + Taken(job)
    BY StakesAre
  <2> QED BY <1>8, <1>10, <2>1, <2>2, <2>3, <2>4, <2>5
<1> QED BY <1>14, <1>15, <1>16, StakesStep

(* and the total. *)
LEMMA TotalStakes ==
  ASSUME TypeInv, StakesInv, NEW j \in Job, ReduceTotal(j)
  PROVE  StakesInv'
<1> DEFINE q == job[j]
           amt == q.amount
           r == [q EXCEPT !.at = "queue"]
<1>1. /\ q \in Request /\ q.op = "undelegate" /\ q.at = "taken" /\ amt \in Nat
      /\ total' = Minus(total, amt) /\ job' = [job EXCEPT ![j] = r]
      /\ UNCHANGED <<validators, delegations, history>>
  BY TotalFacts
<1>2. r \in Undelegating /\ r.op = "undelegate" /\ r.at = "queue"
  BY <1>1, RequestMoves
<1>3. r \in Requests /\ r # Free /\ q # Free
  BY <1>1, <1>2, RequestFields DEF Request, Requests
<1> HIDE DEF r, amt
<1>4. /\ Carried(r, "undelegate", {"taken"}) = 0 /\ Carried(q, "undelegate", {"taken"}) = amt
      /\ (\A w : Leaving(r, w) = 0) /\ (\A w : Leaving(q, w) = 0)
  BY <1>1, <1>2, <1>3, TakenAt DEF amt
<1>5. ~Cuts(q)
  BY <1>1 DEF Cuts
<1>6. Punished \subseteq Punished'
  BY <1>1, <1>5, PunishedKept
<1>n. amt \in Nat
  BY <1>1
<1>7. Taken(job') = Taken(job) - amt /\ Taken(job) \in Nat
  <2>1. /\ Taken(job) \in Nat
        /\ Taken(job') = Taken(job) + Carried(r, "undelegate", {"taken"})
                         - Carried(q, "undelegate", {"taken"})
    BY <1>1, <1>3, TakenStep
  <2> QED BY <1>n, <1>4, <2>1
<1>8. Taken(job') \in Nat
  <2>1. "undelegate" \in Paying /\ \A k \in Job : job'[k] \in Requests
    BY <1>1, <1>3 DEF Paying, TypeInv, STypeOK, Requests
  <2>2. \A k \in Job : Carried(job'[k], "undelegate", {"taken"}) \in Nat
    BY <2>1, CarriedType
  <2> DEFINE f == [k \in Job |-> Carried(job'[k], "undelegate", {"taken"})]
  <2>3. DOMAIN f = Job /\ IsFiniteSet(Job) /\ \A k \in Job : f[k] \in Nat
    BY <2>2, Finite
  <2> HIDE DEF f
  <2>4. SumFunction(f) \in Nat
    BY <2>3, SumNat DEF SumFunction
  <2> QED BY <2>4 DEF Taken, FlowOf, f
<1>9. \A w \in Validator :
        HeldBy(validators'[w]) = GivenBy(delegations', w) + LeavingOf(job', w)
  <2> SUFFICES ASSUME NEW w \in Validator
               PROVE  HeldBy(validators'[w]) = GivenBy(delegations', w) + LeavingOf(job', w)
    OBVIOUS
  <2>1. /\ LeavingOf(job, w) \in Nat
        /\ LeavingOf(job', w) = LeavingOf(job, w) + Leaving(r, w) - Leaving(q, w)
    BY <1>1, <1>3, TakenStep
  <2>2. Leaving(r, w) = 0 /\ Leaving(q, w) = 0
    BY <1>4
  <2>3. LeavingOf(job', w) = LeavingOf(job, w)
    BY <2>1, <2>2
  <2>4. validators' = validators /\ delegations' = delegations
    BY <1>1
  <2> QED BY <2>3, <2>4, StakesAre
<1>10. \A w \in Validator :
         validators'[w] # NoValidator /\ w \notin Punished' => Balanced(validators'[w])
  <2>1. validators' = validators
    BY <1>1
  <2> QED BY <1>6, <2>1, StakesAre
<1>11. total' <= TotalOf(validators') + Taken(job')
  <2>1. validators' = validators /\ total' = Minus(total, amt)
    BY <1>1
  <2>2. total \in Nat /\ total <= TotalOf(validators) + Taken(job)
    BY StakesAre
  <2>3. TotalOf(validators) \in Nat
    BY StakesAre, TotalOfType
  <2> QED BY <1>n, <1>7, <1>8, <2>1, <2>2, <2>3 DEF Minus
<1> QED BY <1>9, <1>10, <1>11, StakesStep

(* slash_validator *)
LEMMA SlashStakes ==
  ASSUME TypeInv, StakesInv, NEW j \in Job, SlashStake(j)
  PROVE  StakesInv'
<1> DEFINE q == job[j]
           v == q.validator
           amt == Percent(validators[v].total, q.percent)
           e == Slashed(validators[v], amt, q.height + JailBlocks)
           r == [q EXCEPT !.at = "queue"]
<1>1. /\ q \in Request /\ q.op = "slash" /\ q.at = "timed" /\ v \in Validator /\ amt \in Nat
      /\ validators[v] \in ValidatorStake /\ q.height + JailBlocks \in Nat
      /\ amt <= validators[v].total
      /\ validators' = [validators EXCEPT ![v] = e] /\ job' = [job EXCEPT ![j] = r]
      /\ total' = Minus(total, amt) /\ UNCHANGED <<delegations, history>>
  BY SlashFacts
<1>2. /\ e \in ValidatorStake /\ e.total = Minus(validators[v].total, amt)
      /\ e.delegated = validators[v].delegated
  BY <1>1, SlashedEntry
<1>3. r \in Slashing /\ r.op = "slash" /\ r.at = "queue" /\ r.validator = v
  BY <1>1, RequestMoves
<1>4. r \in Requests /\ r # Free /\ q # Free
  BY <1>1, <1>3, RequestFields DEF Request, Requests
<1> HIDE DEF r, v, amt, e
<1>5. SameTaken(r, q) /\ ~Cuts(q) /\ Cuts(r)
  BY <1>1, <1>3, <1>4, TakenAt DEF SameTaken, Cuts
<1>6. Taken(job') = Taken(job) /\ \A w \in Validator : LeavingOf(job', w) = LeavingOf(job, w)
  BY <1>1, <1>4, <1>5, TakenSame
<1>7. Taken(job) \in Nat
  BY <1>1, <1>4, TakenStep
<1>8. Punished \subseteq Punished' /\ v \in Punished'
  <2>1. Punished \subseteq Punished'
    BY <1>1, <1>5, PunishedKept
  <2>2. job'[j] = r
    BY <1>1 DEF TypeInv, STypeOK
  <2> QED BY <1>3, <1>5, <2>1, <2>2 DEF Punished, At, Cuts
<1>9. /\ e # NoValidator /\ validators[v] # NoValidator
      /\ validators[v].delegated \in Nat /\ validators[v].total \in Nat
      /\ validators \in [Validator -> MaybeEntry]
  BY <1>1, <1>2, StakesAre, EntryFields
<1>10. \A w \in Validator : validators'[w] = IF w = v THEN e ELSE validators[w]
  BY <1>1, <1>2, <1>9, EntryWritten
<1>11. \A w \in Validator :
         HeldBy(validators'[w]) = GivenBy(delegations', w) + LeavingOf(job', w)
  <2>1. \A w \in Validator : HeldBy(validators'[w]) = HeldBy(validators[w])
    BY <1>2, <1>9, <1>10 DEF HeldBy
  <2>2. delegations' = delegations
    BY <1>1
  <2> QED BY <1>6, <2>1, <2>2, StakesAre
<1>12. \A w \in Validator :
         validators'[w] # NoValidator /\ w \notin Punished' => Balanced(validators'[w])
  BY <1>8, <1>10, StakesAre
<1>13. total' <= TotalOf(validators') + Taken(job')
  <2>1. /\ TotalOf(validators) \in Nat /\ TotalOf(validators') \in Nat
        /\ TotalOf(validators') = TotalOf(validators) + e.total - BondedBy(validators[v])
    BY <1>1, <1>2, <1>9, TotalSum
  <2>2. BondedBy(validators[v]) = validators[v].total
    BY <1>9 DEF BondedBy
  <2>3. e.total = validators[v].total - amt /\ amt \in Nat
    BY <1>1, <1>2, <1>9, MinusType
  <2>4. total' = Minus(total, amt)
    BY <1>1
  <2>5. total \in Nat /\ total <= TotalOf(validators) + Taken(job)
    BY StakesAre
  <2> QED BY <1>6, <1>7, <1>9, <2>1, <2>2, <2>3, <2>4, <2>5 DEF Minus
<1> QED BY <1>11, <1>12, <1>13, StakesStep

LEMMA ProducerStakes == ASSUME TypeInv, StakesInv, Producer PROVE StakesInv'
<1>1. CASE \E v \in Validator : RecordBlockSigned(v)
  <2>1. PICK v \in Validator : RecordBlockSigned(v)
    BY <1>1
  <2>2. job' = job
    BY <2>1 DEF RecordBlockSigned
  <2>3. PICK e \in ValidatorStake : /\ validators' = [validators EXCEPT ![v] = e]
                                    /\ SameStake(e, validators[v])
    BY <2>1, EntryRewritten
  <2>4. /\ validators[v] \in ValidatorStake
        /\ UNCHANGED <<delegations, total, history>>
    BY <2>1, EntryRewritten
  <2>5. SameEntry(e, validators[v])
    BY <2>3, <2>4, EntryFields DEF SameEntry
  <2>6. /\ DOMAIN validators' = Validator
        /\ \A w \in Validator : SameEntry(validators'[w], validators[w])
    BY <2>3, <2>5, EntrySame
  <2>7. Punished \subseteq Punished'
    BY <2>2, <2>4, PunishedStays
  <2>8. /\ total' = total /\ Taken(job') = Taken(job)
        /\ \A w \in Validator : /\ GivenBy(delegations', w) = GivenBy(delegations, w)
                                /\ LeavingOf(job', w) = LeavingOf(job, w)
    BY <2>2, <2>4
  <2> HIDE DEF TypeInv, StakesInv, Punished
  <2> QED BY <2>6, <2>7, <2>8, NothingStaked
<1>2. CASE DistributeRewards
  <2>1. /\ DOMAIN validators' = Validator /\ job' = job /\ history' = history /\ total' = total
        /\ \A v \in Validator : SameEntry(validators'[v], validators[v])
    BY <1>2, DistributeFacts DEF SameEntry
  <2>2. \A v \in Validator : GivenBy(delegations', v) = GivenBy(delegations, v)
    BY <1>2, DistributeFacts, GivenStays
  <2>3. Punished \subseteq Punished'
    BY <2>1, PunishedStays
  <2>4. /\ Taken(job') = Taken(job)
        /\ \A v \in Validator : LeavingOf(job', v) = LeavingOf(job, v)
    BY <2>1
  <2> HIDE DEF TypeInv, StakesInv, Punished
  <2> QED BY <2>1, <2>2, <2>3, <2>4, NothingStaked
<1>3. CASE BeginRewards \/ ProcessUnbondings \/ CreditMatured \/ EndBlock
  <2>1. validators' = validators /\ delegations' = delegations /\ total' = total
        /\ history' = history /\ job' = job
    BY <1>3 DEF BeginRewards, ProcessUnbondings, CreditMatured, EndBlock, bookVars
  <2>2. Punished \subseteq Punished'
    BY <2>1, PunishedStays
  <2>3. /\ DOMAIN validators' = Validator
        /\ \A v \in Validator : SameEntry(validators'[v], validators[v])
    BY <2>1, EntriesStay
  <2>4. /\ Taken(job') = Taken(job)
        /\ \A v \in Validator : /\ GivenBy(delegations', v) = GivenBy(delegations, v)
                                /\ LeavingOf(job', v) = LeavingOf(job, v)
    BY <2>1
  <2> HIDE DEF TypeInv, StakesInv, Punished
  <2> QED BY <2>1, <2>2, <2>3, <2>4, NothingStaked
<1> QED BY <1>1, <1>2, <1>3 DEF Producer

(* record_block_missed counts; only a slash that it starts takes anything. *)
LEMMA MissedStakes ==
  ASSUME TypeInv, StakesInv, NEW v \in Validator, NEW j \in Job, NEW p \in SlashPercent,
         RecordBlockMissed(j, v, p)
  PROVE  StakesInv'
<1>1. PICK e \in ValidatorStake : /\ validators' = [validators EXCEPT ![v] = e]
                                  /\ SameStake(e, validators[v])
  BY EntryRewritten
<1>2. validators[v] \in ValidatorStake /\ UNCHANGED <<delegations, total, history>>
  BY EntryRewritten
<1>3. SameEntry(e, validators[v])
  BY <1>1, <1>2, EntryFields DEF SameEntry
<1>4. /\ DOMAIN validators' = Validator
      /\ \A w \in Validator : SameEntry(validators'[w], validators[w])
  BY <1>1, <1>3, EntrySame
<1>5. /\ Punished \subseteq Punished' /\ Taken(job') = Taken(job)
      /\ \A w \in Validator : LeavingOf(job', w) = LeavingOf(job, w)
  <2>1. CASE job' = job
    BY <1>2, <2>1, PunishedStays
  <2>2. CASE \E r \in Requests : /\ job' = [job EXCEPT ![j] = r] /\ SameFlow(r, job[j])
                                 /\ ~Cuts(job[j])
    <3>1. PICK r \in Requests : /\ job' = [job EXCEPT ![j] = r] /\ SameFlow(r, job[j])
                                /\ ~Cuts(job[j])
      BY <2>2
    <3>2. Punished \subseteq Punished'
      BY <1>2, <3>1, PunishedKept
    <3>3. Taken(job') = Taken(job) /\ \A w \in Validator : LeavingOf(job', w) = LeavingOf(job, w)
      BY <3>1, SameFlowTaken, TakenSame
    <3> QED BY <3>2, <3>3
  <2> QED BY <2>1, <2>2, MissedFlow
<1>6. total' = total /\ \A w \in Validator : GivenBy(delegations', w) = GivenBy(delegations, w)
  BY <1>2
<1> HIDE DEF TypeInv, StakesInv, Punished
<1> QED BY <1>4, <1>5, <1>6, NothingStaked

LEMMA WithdrawStakes ==
  ASSUME TypeInv, StakesInv, NEW v \in Validator,
         WithdrawValidatorRewards(v) \/ \E d \in Delegator : WithdrawDelegatorRewards(d, v)
  PROVE  StakesInv'
<1>1. CASE WithdrawValidatorRewards(v)
  <2>1. PICK e \in ValidatorStake : /\ validators' = [validators EXCEPT ![v] = e]
                                    /\ SameStake(e, validators[v])
    BY <1>1, EntryRewritten
  <2>2. /\ validators[v] \in ValidatorStake /\ job' = job
        /\ UNCHANGED <<delegations, total, history>>
    BY <1>1, EntryRewritten DEF WithdrawValidatorRewards
  <2>3. SameEntry(e, validators[v])
    BY <2>1, <2>2, EntryFields DEF SameEntry
  <2>4. /\ DOMAIN validators' = Validator
        /\ \A w \in Validator : SameEntry(validators'[w], validators[w])
    BY <2>1, <2>3, EntrySame
  <2>5. Punished \subseteq Punished'
    BY <2>2, PunishedStays
  <2>6. /\ total' = total /\ Taken(job') = Taken(job)
        /\ \A w \in Validator : /\ GivenBy(delegations', w) = GivenBy(delegations, w)
                                /\ LeavingOf(job', w) = LeavingOf(job, w)
    BY <2>2
  <2> HIDE DEF TypeInv, StakesInv, Punished
  <2> QED BY <2>4, <2>5, <2>6, NothingStaked
<1>2. CASE \E d \in Delegator : WithdrawDelegatorRewards(d, v)
  <2>1. PICK d \in Delegator : WithdrawDelegatorRewards(d, v)
    BY <1>2
  <2>2. validators' = validators /\ total' = total /\ history' = history /\ job' = job
    BY <2>1, WithdrawFacts
  <2>3. \A w \in Validator : GivenBy(delegations', w) = GivenBy(delegations, w)
    BY <2>1, WithdrawFacts, GivenStays
  <2>4. Punished \subseteq Punished'
    BY <2>2, PunishedStays
  <2>5. /\ DOMAIN validators' = Validator
        /\ \A w \in Validator : SameEntry(validators'[w], validators[w])
    BY <2>2, EntriesStay
  <2>6. /\ Taken(job') = Taken(job)
        /\ \A w \in Validator : LeavingOf(job', w) = LeavingOf(job, w)
    BY <2>2
  <2> HIDE DEF TypeInv, StakesInv, Punished
  <2> QED BY <2>2, <2>3, <2>4, <2>5, <2>6, NothingStaked
<1> QED BY <1>1, <1>2

LEMMA QuietStakes ==
  ASSUME TypeInv, StakesInv, NEW j \in Job, Quiet(j)
  PROVE  StakesInv'
<1>1. PICK r \in Requests : job' = [job EXCEPT ![j] = r] /\ SameFlow(r, job[j])
  BY QuietFlow
<1>2. ~Cuts(job[j]) /\ UNCHANGED <<validators, delegations, total, history>>
  BY QuietFlow DEF bookVars
<1> QED BY <1>1, <1>2, SameFlowTaken, RequestStakes

LEMMA JobStakes == ASSUME TypeInv, StakesInv, NEW j \in Job, JobStep(j) PROVE StakesInv'
BY QuietStakes, StakesPassed, DelegateStakes, ReduceStakes, RelieveStakes, TotalStakes,
   SlashStakes, InsertStakes, ReleaseStakes
   DEF JobStep, Quiet

LEMMA NewRequestStakes == ASSUME TypeInv, StakesInv, NewRequest PROVE StakesInv'
<1>1. PICK j \in Job : \E v \in Validator :
        \/ \E stake \in SelfStake, c \in Commission : CreateValidator(j, v, stake, c)
        \/ \E d \in Delegator, amt \in Amount :
             DeductForDelegation(j, d, v, amt) \/ Undelegate(j, d, v, amt)
        \/ \E p \in SlashPercent : Slash(j, v, p) \/ RecordBlockMissed(j, v, p)
        \/ Unjail(j, v)
        \/ WithdrawValidatorRewards(v)
        \/ \E d \in Delegator : WithdrawDelegatorRewards(d, v)
  BY DEF NewRequest
<1>2. CASE \E v \in Validator :
             \/ \E stake \in SelfStake, c \in Commission : CreateValidator(j, v, stake, c)
             \/ \E d \in Delegator, amt \in Amount : Undelegate(j, d, v, amt)
             \/ \E p \in SlashPercent : Slash(j, v, p)
             \/ Unjail(j, v)
  BY <1>2, QuietStakes DEF Quiet
<1>3. CASE \E v \in Validator, d \in Delegator, amt \in Amount : DeductForDelegation(j, d, v, amt)
  BY <1>3, StakesPassed
<1>4. CASE \E v \in Validator, p \in SlashPercent : RecordBlockMissed(j, v, p)
  BY <1>4, MissedStakes
<1>5. CASE \E v \in Validator :
             WithdrawValidatorRewards(v) \/ \E d \in Delegator : WithdrawDelegatorRewards(d, v)
  BY <1>5, WithdrawStakes
<1> QED BY <1>1, <1>2, <1>3, <1>4, <1>5

LEMMA StakesKept == TypeInv /\ StakesInv /\ [Next]_vars => StakesInv'
<1> SUFFICES ASSUME TypeInv, StakesInv, [Next]_vars PROVE StakesInv'
  OBVIOUS
<1>1. CASE UNCHANGED vars
  <2>1. validators' = validators /\ delegations' = delegations /\ total' = total
        /\ history' = history /\ job' = job
    BY <1>1 DEF vars
  <2>2. Punished \subseteq Punished'
    BY <2>1, PunishedStays
  <2>3. /\ DOMAIN validators' = Validator
        /\ \A w \in Validator : SameEntry(validators'[w], validators[w])
    BY <2>1, EntriesStay
  <2>4. /\ Taken(job') = Taken(job)
        /\ \A w \in Validator : /\ GivenBy(delegations', w) = GivenBy(delegations, w)
                                /\ LeavingOf(job', w) = LeavingOf(job, w)
    BY <2>1
  <2> HIDE DEF TypeInv, StakesInv, Punished
  <2> QED BY <2>1, <2>2, <2>3, <2>4, NothingStaked
<1> QED BY <1>1, NewRequestStakes, JobStakes, ProducerStakes DEF Next

LEMMA InitStakes == Init => StakesInv
<1> SUFFICES ASSUME Init PROVE StakesInv
  OBVIOUS
<1>0. TypeInv
  BY InitType
<1>1. /\ delegations = [d \in Delegator |-> << >>] /\ validators = [v \in Validator |-> NoValidator]
      /\ job = [j \in Job |-> Free] /\ total = 0
  BY DEF Init
<1>2. ASSUME NEW v \in Validator PROVE GivenBy(delegations, v) = 0
  <2> DEFINE f == [d \in Delegator |-> AmountTo(delegations[d], v)]
  <2>1. AmountTo(<< >>, v) = 0
    <3> DEFINE g == [i \in DOMAIN << >> |-> IF << >>[i].validator = v THEN << >>[i].amount ELSE 0]
    <3>1. DOMAIN g = {}
      OBVIOUS
    <3> HIDE DEF g
    <3>2. SumFunction(g) = 0
      BY <3>1, SumEmpty DEF SumFunction
    <3> QED BY <3>2 DEF AmountTo, g
  <2>2. DOMAIN f = Delegator /\ \A d \in Delegator : f[d] = 0
    BY <1>1, <2>1
  <2>3. IsFiniteSet(Delegator)
    BY Finite
  <2> HIDE DEF f
  <2>4. SumFunction(f) = 0
    BY <2>2, <2>3, SumZero DEF SumFunction
  <2> QED BY <2>4 DEF GivenBy, f
<1>3. ASSUME NEW v \in Validator PROVE LeavingOf(job, v) = 0
  <2> DEFINE f == [k \in Job |-> Leaving(job[k], v)]
  <2>1. DOMAIN f = Job /\ \A k \in Job : f[k] = 0
    BY <1>1, TakenFree
  <2>2. IsFiniteSet(Job)
    BY Finite
  <2> HIDE DEF f
  <2>3. SumFunction(f) = 0
    BY <2>1, <2>2, SumZero DEF SumFunction
  <2> QED BY <2>3 DEF LeavingOf, f
<1>4. TotalOf(validators) \in Nat /\ FlowOf(job, "undelegate", {"taken"}) \in Nat
  <2>1. validators \in [Validator -> MaybeEntry]
    BY <1>0 DEF TypeInv, STypeOK, MaybeEntry
  <2>2. FlowOf(job, "undelegate", {"taken"}) \in Nat
    <3> DEFINE f == [k \in Job |-> Carried(job[k], "undelegate", {"taken"})]
    <3>1. DOMAIN f = Job /\ \A k \in Job : f[k] = 0
      BY <1>1, TakenFree
    <3>2. IsFiniteSet(Job)
      BY Finite
    <3> HIDE DEF f
    <3>3. SumFunction(f) = 0
      BY <3>1, <3>2, SumZero DEF SumFunction
    <3> QED BY <3>3 DEF FlowOf, f
  <2> QED BY <2>1, <2>2, TotalOfType
<1>5. DelegatedInv
  BY <1>1, <1>2, <1>3 DEF DelegatedInv, HeldBy
<1>6. UnslashedInv
  BY <1>1 DEF UnslashedInv
<1>7. TotalInv
  BY <1>1, <1>4 DEF TotalInv
<1> QED BY <1>5, <1>6, <1>7 DEF StakesInv

LEMMA StakesMean ==
  ASSUME TypeInv, StakesInv
  PROVE  StakeMatchesDelegations /\ TotalNeverOverstated
<1>1. StakeMatchesDelegations
  <2> SUFFICES ASSUME NEW v \in Validator, validators[v] # NoValidator
               PROVE  /\ validators[v].delegated = GivenBy(delegations, v) + LeavingOf(job, v)
                      /\ v \notin Punished => Balanced(validators[v])
    BY DEF StakeMatchesDelegations, Exists, DelegatedTo, GivenBy, LeavingOf, Balanced
  <2> QED BY StakesAre DEF HeldBy
<1>2. TotalNeverOverstated
  <2>1. validators \in [Validator -> MaybeEntry] /\ total <= TotalOf(validators) + Taken(job)
    BY StakesAre
  <2>2. TotalOfValidators = TotalOf(validators)
    BY <2>1, TotalIs DEF TotalOfValidators, Exists
  <2>3. InFlight("undelegate", {"taken"}) = Taken(job)
    BY DEF InFlight, Taken, FlowOf
  <2> QED BY <2>1, <2>2, <2>3 DEF TotalNeverOverstated
<1> QED BY <1>1, <1>2

(* The delegated stake of a validator is what its delegations add up to    *)
(* and what undelegations have taken off those but not yet off the stake,  *)
(* and an unslashed validator's total is the sum of its stakes: the two    *)
(* records that delegate and undelegate keep under different locks agree   *)
(* up to the requests between them (delegate, undelegate).                 *)
THEOREM StakesMatch == Spec => []StakeMatchesDelegations
<1>1. Init => TypeInv /\ StakesInv
  BY InitType, InitStakes
<1>2. TypeInv /\ StakesInv /\ [Next]_vars => TypeInv' /\ StakesInv'
  BY TypeStep, StakesKept
<1>3. TypeInv /\ StakesInv => StakeMatchesDelegations
  BY StakesMean
<1> QED BY <1>1, <1>2, <1>3, PTL DEF Spec

(* The total that rewards and the governance quorum are computed from is   *)
(* never more than the validators hold, with what an undelegation has      *)
(* taken off a validator and not off the total: delegate, undelegate,      *)
(* slash_validator and create_validator update the two under different     *)
(* locks, and every cut of the total is clipped at zero.                   *)
THEOREM TotalIsBacked == Spec => []TotalNeverOverstated
<1>1. Init => TypeInv /\ StakesInv
  BY InitType, InitStakes
<1>2. TypeInv /\ StakesInv /\ [Next]_vars => TypeInv' /\ StakesInv'
  BY TypeStep, StakesKept
<1>3. TypeInv /\ StakesInv => TotalNeverOverstated
  BY StakesMean
<1> QED BY <1>1, <1>2, <1>3, PTL DEF Spec

-----------------------------------------------------------------------------
(* Rewards.                                                                *)

LEMMA ProductMono ==
  ASSUME NEW a \in Nat, NEW b \in Nat, NEW c \in Nat, a <= b
  PROVE  a * c <= b * c
<1> DEFINE k == b - a
<1>1. k \in Nat /\ k * c \in Nat
  OBVIOUS
<1>2. k * c = b * c - a * c
  OBVIOUS
<1>3. a * c \in Nat /\ b * c \in Nat
  OBVIOUS
<1> HIDE DEF k
<1> QED BY <1>1, <1>2, <1>3

LEMMA ProductCancel ==
  ASSUME NEW u \in Nat, u > 0, NEW a \in Nat, NEW b \in Nat, u * a <= u * b
  PROVE  a <= b
<1> SUFFICES ASSUME b + 1 <= a PROVE FALSE
  OBVIOUS
<1>1. (b + 1) * u <= a * u
  BY ProductMono
<1>2. (b + 1) * u = u * b + u /\ a * u = u * a /\ u * a \in Nat /\ u * b \in Nat
  OBVIOUS
<1> QED BY <1>1, <1>2

(* What the delegations of a list to v are given, and all delegations.     *)
PayFor(x, v) == IF x.validator = v THEN DelegationReward(x) ELSE 0
PayTo(d, v) == SumFunction([i \in DOMAIN delegations[d] |-> PayFor(delegations[d][i], v)])
PaidBy(v) == SumFunction([d \in Delegator |-> PayTo(d, v)])

LEMMA PayForType ==
  ASSUME TypeInv, producer = "rewards", NEW x \in Delegation, NEW v \in Validator
  PROVE  /\ PayFor(x, v) \in Nat
         /\ Earns(v) /\ validators[v].delegated > 0
              => validators[v].delegated * PayFor(x, v) <= Pool(v) * ShareFor(x, v)
         /\ ~(Earns(v) /\ validators[v].delegated > 0) => PayFor(x, v) = 0
<1>1. PayFor(x, v) \in Nat
  BY DelegationRewardType DEF PayFor
<1>2. ASSUME Earns(v), validators[v].delegated > 0
      PROVE  validators[v].delegated * PayFor(x, v) <= Pool(v) * ShareFor(x, v)
  <2> DEFINE u == validators[v].delegated
             p == Pool(v)
  <2>1. u \in Nat /\ u > 0 /\ p \in Nat /\ x.amount \in Nat
    BY <1>2, SharesType, EntryFields DEF Delegation
  <2> HIDE DEF u, p
  <2>2. CASE x.validator = v
    <3>1. PayFor(x, v) = (x.amount * p) \div u /\ ShareFor(x, v) = x.amount
      BY <1>2, <2>2 DEF PayFor, ShareFor, DelegationReward, u, p
    <3>2. x.amount * p \in Nat /\ x.amount * p = p * x.amount
      BY <2>1
    <3>3. u * ((x.amount * p) \div u) <= x.amount * p
      BY <2>1, <3>2, Quotient
    <3>4. u * PayFor(x, v) <= p * ShareFor(x, v)
      BY <3>1, <3>2, <3>3
    <3> QED BY <3>4 DEF u, p
  <2>3. CASE x.validator # v
    <3>1. u * PayFor(x, v) <= p * ShareFor(x, v)
      BY <2>1, <2>3 DEF PayFor, ShareFor
    <3> QED BY <3>1 DEF u, p
  <2> QED BY <2>2, <2>3
<1>3. ASSUME ~(Earns(v) /\ validators[v].delegated > 0) PROVE PayFor(x, v) = 0
  BY <1>3 DEF PayFor, DelegationReward
<1> QED BY <1>1, <1>2, <1>3

LEMMA PayToType ==
  ASSUME TypeInv, producer = "rewards", NEW d \in Delegator, NEW v \in Validator
  PROVE  /\ PayTo(d, v) \in Nat /\ AmountTo(delegations[d], v) \in Nat
         /\ Earns(v) /\ validators[v].delegated > 0
              => validators[v].delegated * PayTo(d, v) <= Pool(v) * AmountTo(delegations[d], v)
         /\ ~(Earns(v) /\ validators[v].delegated > 0) => PayTo(d, v) = 0
<1> DEFINE s == delegations[d]
           f == [i \in DOMAIN s |-> PayFor(s[i], v)]
           g == [i \in DOMAIN s |-> ShareFor(s[i], v)]
           u == validators[v].delegated
           p == Pool(v)
<1>1. s \in Seq(Delegation)
  BY DEF TypeInv, STypeOK
<1> HIDE DEF s
<1>2. /\ DOMAIN s = 1 .. Len(s) /\ Len(s) \in Nat
      /\ \A i \in DOMAIN s : s[i] \in Delegation /\ ShareFor(s[i], v) \in Nat
      /\ AmountTo(s, v) \in Nat
  BY <1>1, AmountToType
<1>3. \A i \in DOMAIN s : /\ f[i] \in Nat /\ g[i] \in Nat
                          /\ f[i] = PayFor(s[i], v) /\ g[i] = ShareFor(s[i], v)
  BY <1>2, PayForType
<1>4. DOMAIN f = DOMAIN s /\ DOMAIN g = DOMAIN s /\ IsFiniteSet(DOMAIN s)
  <2>1. IsFiniteSet(1 .. Len(s))
    BY <1>2, FS_Interval
  <2> QED BY <1>2, <2>1
<1>5. PayTo(d, v) = SumFunction(f) /\ AmountTo(s, v) = SumFunction(g)
  BY DEF PayTo, AmountTo, ShareFor, s
<1> HIDE DEF f, g
<1>6. SumFunctionOnSet(f, DOMAIN s) \in Nat
  BY <1>3, <1>4, SumNat
<1>7. ASSUME Earns(v), u > 0 PROVE u * PayTo(d, v) <= p * AmountTo(s, v)
  <2>1. \A i \in DOMAIN s : u * PayFor(s[i], v) <= p * ShareFor(s[i], v)
    BY <1>2, <1>7, PayForType
  <2>2. u \in Int /\ p \in Int
    BY <1>7, SharesType, EntryFields
  <2> HIDE DEF u, p
  <2>3. \A i \in DOMAIN s : f[i] \in Int /\ g[i] \in Int /\ u * f[i] <= p * g[i]
    BY <1>3, <2>1
  <2>4. u * SumFunctionOnSet(f, DOMAIN s) <= p * SumFunctionOnSet(g, DOMAIN s)
    BY <1>4, <2>2, <2>3, SumScaled
  <2> QED BY <1>4, <1>5, <2>4 DEF SumFunction
<1>8. ASSUME ~(Earns(v) /\ u > 0) PROVE PayTo(d, v) = 0
  <2>1. \A i \in DOMAIN s : f[i] = 0
    BY <1>2, <1>3, <1>8, PayForType
  <2>2. SumFunctionOnSet(f, DOMAIN s) = 0
    BY <1>4, <2>1, SumZero
  <2> QED BY <1>4, <1>5, <2>2 DEF SumFunction
<1> QED BY <1>2, <1>4, <1>5, <1>6, <1>7, <1>8 DEF SumFunction, s

LEMMA LeavingOfType == ASSUME TypeInv, NEW v PROVE LeavingOf(job, v) \in Nat
<1> DEFINE f == [k \in Job |-> Leaving(job[k], v)]
<1>1. \A k \in Job : job[k] \in Requests
  BY DEF TypeInv, STypeOK, Requests
<1>2. DOMAIN f = Job /\ IsFiniteSet(Job) /\ \A k \in Job : f[k] \in Nat
  BY <1>1, LeavingType, Finite
<1> HIDE DEF f
<1>3. SumFunction(f) \in Nat
  BY <1>2, SumNat DEF SumFunction
<1> QED BY <1>3 DEF LeavingOf, f

(* The delegators of v are given no more than its pool for them. *)
LEMMA PoolSuffices ==
  ASSUME TypeInv, StakesInv, producer = "rewards", NEW v \in Validator
  PROVE  /\ PaidBy(v) \in Nat
         /\ Earns(v) => PaidBy(v) <= Pool(v)
         /\ ~Earns(v) => PaidBy(v) = 0
<1> DEFINE f == [d \in Delegator |-> PayTo(d, v)]
           g == [d \in Delegator |-> AmountTo(delegations[d], v)]
           u == validators[v].delegated
           p == Pool(v)
<1>1. \A d \in Delegator : f[d] \in Nat /\ g[d] \in Nat
                           /\ f[d] = PayTo(d, v) /\ g[d] = AmountTo(delegations[d], v)
  BY PayToType
<1>2. /\ DOMAIN f = Delegator /\ DOMAIN g = Delegator /\ IsFiniteSet(Delegator)
      /\ PaidBy(v) = SumFunction(f) /\ GivenBy(delegations, v) = SumFunction(g)
  BY Finite DEF PaidBy, GivenBy
<1> HIDE DEF f, g
<1>3. SumFunctionOnSet(f, Delegator) \in Nat /\ SumFunctionOnSet(g, Delegator) \in Nat
  BY <1>1, <1>2, SumNat
<1>4. PaidBy(v) \in Nat
  BY <1>2, <1>3 DEF SumFunction
<1>5. ASSUME ~(Earns(v) /\ u > 0) PROVE PaidBy(v) = 0
  <2>1. \A d \in Delegator : f[d] = 0
    BY <1>1, <1>5, PayToType
  <2>2. SumFunctionOnSet(f, Delegator) = 0
    BY <1>2, <2>1, SumZero
  <2> QED BY <1>2, <2>2 DEF SumFunction
<1>6. ASSUME Earns(v) PROVE p \in Nat /\ u \in Nat
  BY <1>6, SharesType, EntryFields
<1>7. ASSUME Earns(v), u > 0 PROVE PaidBy(v) <= p
  <2>1. \A d \in Delegator : u * PayTo(d, v) <= p * AmountTo(delegations[d], v)
    BY <1>7, PayToType
  <2>2. HeldBy(validators[v]) = u
    BY <1>7 DEF Earns, Exists, HeldBy
  <2>3. GivenBy(delegations, v) <= u /\ GivenBy(delegations, v) \in Nat /\ u \in Nat /\ p \in Nat
    <3>1. /\ HeldBy(validators[v]) = GivenBy(delegations, v) + LeavingOf(job, v)
          /\ GivenBy(delegations, v) \in Nat
      BY StakesAre
    <3>2. LeavingOf(job, v) \in Nat
      BY LeavingOfType
    <3>3. u \in Nat /\ p \in Nat
      BY <1>6, <1>7
    <3> HIDE DEF u, p
    <3> QED BY <2>2, <3>1, <3>2, <3>3
  <2>4. u > 0
    BY <1>7
  <2> HIDE DEF u, p
  <2>5. \A d \in Delegator : f[d] \in Int /\ g[d] \in Int /\ u * f[d] <= p * g[d]
    BY <1>1, <2>1
  <2>6. u * SumFunctionOnSet(f, Delegator) <= p * SumFunctionOnSet(g, Delegator)
    <3>1. u \in Int /\ p \in Int
      BY <2>3
    <3> QED BY <1>2, <2>5, <3>1, SumScaled
  <2>7. u * PaidBy(v) <= p * GivenBy(delegations, v)
    BY <1>2, <2>6 DEF SumFunction
  <2>8. GivenBy(delegations, v) * p <= u * p
    BY <2>3, ProductMono
  <2>9. u * PaidBy(v) <= u * p
    <3> DEFINE n == GivenBy(delegations, v)
    <3>1. n * p = p * n /\ n * p \in Nat /\ u * p \in Nat /\ u * PaidBy(v) \in Nat
      BY <1>4, <2>3
    <3> HIDE DEF n
    <3>2. u * PaidBy(v) <= p * n /\ n * p <= u * p
      BY <2>7, <2>8 DEF n
    <3> QED BY <3>1, <3>2
  <2> QED BY <1>4, <2>3, <2>4, <2>9, ProductCancel
<1>8. Earns(v) => PaidBy(v) <= p
  BY <1>5, <1>6, <1>7
<1>9. ~Earns(v) => PaidBy(v) = 0
  BY <1>5
<1> QED BY <1>4, <1>8, <1>9

(* A delegator is given what its delegations to each validator are, and    *)
(* all delegators what the delegators of each validator are.               *)
LEMMA GivenToIs ==
  ASSUME TypeInv, producer = "rewards", NEW d \in Delegator
  PROVE  GivenTo(d) = SumFunction([v \in Validator |-> PayTo(d, v)])
<1> DEFINE s == delegations[d]
           A == DOMAIN s
           F == [i \in A |-> [v \in Validator |-> PayFor(s[i], v)]]
           C == [v \in Validator |-> [i \in A |-> PayFor(s[i], v)]]
           f == [i \in A |-> DelegationReward(s[i])]
           g == [v \in Validator |-> PayTo(d, v)]
<1>1. s \in Seq(Delegation)
  BY DEF TypeInv, STypeOK
<1>2. GivenTo(d) = SumFunction(f) /\ DOMAIN f = A /\ DOMAIN g = Validator
  BY DEF GivenTo
<1>3. \A v \in Validator : g[v] = SumFunction([i \in A |-> PayFor(s[i], v)])
  BY DEF PayTo
<1> HIDE DEF s
<1>4. /\ IsFiniteSet(A) /\ IsFiniteSet(Validator)
      /\ \A i \in A : s[i] \in Delegation
  <2>1. A = 1 .. Len(s) /\ Len(s) \in Nat
    BY <1>1
  <2>2. IsFiniteSet(1 .. Len(s))
    BY <2>1, FS_Interval
  <2> QED BY <1>1, <2>1, <2>2, Finite
<1>5. ASSUME NEW i \in A
      PROVE  /\ \A v \in Validator : F[i][v] \in Nat /\ F[i][v] = PayFor(s[i], v)
             /\ f[i] = SumFunctionOnSet(F[i], Validator)
  <2>1. s[i] \in Delegation
    BY <1>4
  <2>2. \A v \in Validator : F[i][v] = PayFor(s[i], v) /\ PayFor(s[i], v) \in Nat
    BY <2>1, PayForType
  <2>3. /\ s[i].validator \in Validator
        /\ F[i][s[i].validator] = DelegationReward(s[i])
        /\ \A v \in Validator \ {s[i].validator} : F[i][v] = 0
    BY <2>1, <2>2 DEF PayFor, Delegation
  <2>4. f[i] = DelegationReward(s[i])
    OBVIOUS
  <2> HIDE DEF F, f, A
  <2>5. F[i][s[i].validator] \in Int
    BY <2>2, <2>3
  <2>6. SumFunctionOnSet(F[i], Validator) = F[i][s[i].validator]
    BY <1>4, <2>3, <2>5, SumOne
  <2> QED BY <2>2, <2>3, <2>4, <2>6
<1>6. \A v \in Validator : g[v] = SumFunctionOnSet(C[v], A)
  BY <1>3 DEF SumFunction
<1>7. /\ \A i \in A : \A v \in Validator : F[i][v] \in Int /\ C[v][i] = F[i][v]
      /\ \A i \in A : f[i] = SumFunctionOnSet(F[i], Validator)
  <2>1. \A i \in A : \A v \in Validator : C[v][i] = F[i][v]
    OBVIOUS
  <2> HIDE DEF A, F, f, C
  <2>2. \A i \in A : \A v \in Validator : F[i][v] \in Int
    BY <1>5
  <2>3. \A i \in A : f[i] = SumFunctionOnSet(F[i], Validator)
    BY <1>5
  <2> QED BY <2>1, <2>2, <2>3
<1> HIDE DEF A, F, C, f, g
<1>8. /\ Transposed(F, A, Validator, C)
      /\ RowSums(F, A, Validator, f) /\ RowSums(C, Validator, A, g)
  BY <1>6, <1>7 DEF Transposed, RowSums
<1>9. SumFunctionOnSet(f, A) = SumFunctionOnSet(g, Validator)
  BY <1>4, <1>8, SumSwap
<1> QED BY <1>2, <1>9 DEF SumFunction, g

LEMMA GivenToAll ==
  ASSUME TypeInv, producer = "rewards"
  PROVE  SumFunction([d \in Delegator |-> GivenTo(d)])
           = SumFunction([v \in Validator |-> PaidBy(v)])
<1> DEFINE F == [d \in Delegator |-> [v \in Validator |-> PayTo(d, v)]]
           C == [v \in Validator |-> [d \in Delegator |-> PayTo(d, v)]]
           f == [d \in Delegator |-> GivenTo(d)]
           g == [v \in Validator |-> PaidBy(v)]
<1>1. IsFiniteSet(Delegator) /\ IsFiniteSet(Validator)
  BY Finite
<1>2. \A d \in Delegator : \A v \in Validator : F[d][v] \in Int /\ C[v][d] = F[d][v]
  BY PayToType
<1>3. \A d \in Delegator : f[d] = SumFunctionOnSet(F[d], Validator)
  BY GivenToIs DEF SumFunction
<1>4. \A v \in Validator : g[v] = SumFunctionOnSet(C[v], Delegator)
  BY DEF PaidBy, SumFunction
<1>5. DOMAIN f = Delegator /\ DOMAIN g = Validator
  OBVIOUS
<1> HIDE DEF F, C, f, g
<1>6. /\ Transposed(F, Delegator, Validator, C)
      /\ RowSums(F, Delegator, Validator, f) /\ RowSums(C, Validator, Delegator, g)
  BY <1>2, <1>3, <1>4 DEF Transposed, RowSums
<1>7. SumFunctionOnSet(f, Delegator) = SumFunctionOnSet(g, Validator)
  BY <1>1, <1>6, SumSwap
<1> QED BY <1>5, <1>7 DEF SumFunction, f, g

(* What a block gives for the stake of v.                                  *)
RewardOf(v) == IF Earns(v) THEN ValidatorReward(v) ELSE 0
GivenFor(v) == RewardOf(v) + PaidBy(v)

LEMMA GivenForAll ==
  ASSUME TypeInv, StakesInv, producer = "rewards"
  PROVE  /\ \A v \in Validator : GivenFor(v) \in Nat
         /\ Given = SumFunction([v \in Validator |-> GivenFor(v)])
<1> DEFINE R == {w \in Validator : Earns(w)}
           e == [v \in R |-> ValidatorReward(v)]
           f == [v \in Validator |-> RewardOf(v)]
           g == [v \in Validator |-> PaidBy(v)]
           h == [v \in Validator |-> GivenFor(v)]
<1>1. \A v \in Validator : RewardOf(v) \in Nat /\ PaidBy(v) \in Nat
  BY SharesType, PoolSuffices DEF RewardOf
<1>2. \A v \in Validator : GivenFor(v) \in Nat
  BY <1>1 DEF GivenFor
<1>3. /\ \A v \in R : e[v] \in Int /\ f[v] = e[v]
      /\ \A v \in Validator \ R : f[v] = 0
  BY SharesType DEF RewardOf
<1>4. \A v \in Validator : /\ f[v] \in Int /\ g[v] \in Int
                           /\ h[v] = f[v] + g[v]
  BY <1>1 DEF GivenFor
<1>5. /\ Given = SumFunction(e) + SumFunction(g)
      /\ DOMAIN e = R /\ DOMAIN g = Validator /\ DOMAIN h = Validator
  BY GivenToAll DEF Given
<1>6. IsFiniteSet(Validator) /\ R \in SUBSET Validator
  BY Finite
<1> HIDE DEF R, e, f, g, h
<1>7. SumFunctionOnSet(f, Validator) = SumFunctionOnSet(e, R)
  BY <1>3, <1>6, SumOnSubset
<1>8. SumFunctionOnSet(h, Validator)
        = SumFunctionOnSet(f, Validator) + SumFunctionOnSet(g, Validator)
  BY <1>4, <1>6, SumPlus
<1>9. Given = SumFunction(h)
  BY <1>5, <1>7, <1>8 DEF SumFunction
<1> QED BY <1>2, <1>9 DEF h

(* Nobody was slashed: the delegated stake of v is part of its total, so   *)
(* that v and its delegators are given no more than the share of v.        *)
LEMMA ShareSuffices ==
  ASSUME TypeInv, StakesInv, producer = "rewards", Punished = {}, NEW v \in Validator
  PROVE  seenTotal * GivenFor(v) <= BlockReward * BondedBy(validators[v])
<1>1. CASE Earns(v)
  <2> DEFINE e == validators[v]
             t == e.total
             d == e.delegated
             b == BlockReward
             s == Share(v)
             ds == DelegatorShare(v)
             c == Cut(v)
             given == PaidBy(v)
  <2>1. /\ e \in ValidatorStake /\ e # NoValidator /\ t > 0
        /\ t \in Nat /\ d \in Nat /\ e.self \in Nat
        /\ s \in Nat /\ seenTotal * s <= t * b
        /\ ds \in Nat /\ t * ds <= d * s
        /\ c \in Nat /\ c <= ds /\ Pool(v) = ds - c
    BY <1>1, SharesType, EntryFields
  <2>2. b \in Nat /\ seenTotal \in Nat
    BY BlockRewardType
  <2>3. Balanced(e)
    BY <2>1, StakesAre
  <2>4. given \in Nat /\ given <= ds - c
    BY <1>1, <2>1, PoolSuffices
  <2>5. GivenFor(v) = Minus(s, ds) + c + given /\ BondedBy(validators[v]) = t
    BY <1>1, <2>1 DEF GivenFor, RewardOf, ValidatorReward, BondedBy
  <2>6. t = e.self + d
    BY <2>3 DEF Balanced
  <2> HIDE DEF e, t, d, b, s, ds, c, given
  <2>7. d <= t
    <3> DEFINE self == e.self
    <3>1. self \in Nat /\ t = self + d
      BY <2>1, <2>6
    <3> HIDE DEF self
    <3> QED BY <2>1, <3>1
  <2>8. d * s <= t * s
    BY <2>1, <2>7, ProductMono
  <2>9. t * ds <= t * s
    <3>1. t * ds \in Nat /\ d * s \in Nat /\ t * s \in Nat /\ t * ds <= d * s
      BY <2>1
    <3> QED BY <2>8, <3>1
  <2>10. ds <= s
    BY <2>1, <2>9, ProductCancel
  <2>11. Minus(s, ds) = s - ds
    BY <2>1, <2>10 DEF Minus
  <2>12. GivenFor(v) \in Nat /\ GivenFor(v) <= s
    <3>1. s \in Nat /\ ds \in Nat /\ c \in Nat
      BY <2>1
    <3> QED BY <2>4, <2>5, <2>10, <2>11, <3>1
  <2>13. GivenFor(v) * seenTotal <= s * seenTotal
    BY <2>1, <2>2, <2>12, ProductMono
  <2> DEFINE n == GivenFor(v)
             u == seenTotal
  <2>14. n \in Nat /\ u \in Nat /\ n * u <= s * u /\ u * s <= t * b
    BY <2>1, <2>2, <2>12, <2>13
  <2> HIDE DEF n, u
  <2>15. /\ n * u = u * n /\ s * u = u * s /\ t * b = b * t
         /\ u * n \in Nat /\ u * s \in Nat /\ b * t \in Nat
    BY <2>1, <2>2, <2>14
  <2>16. u * n <= b * t
    BY <2>14, <2>15
  <2> QED BY <2>5, <2>16 DEF n, u, b
<1>2. CASE ~Earns(v)
  <2>1. PaidBy(v) = 0 /\ RewardOf(v) = 0
    BY <1>2, PoolSuffices DEF RewardOf
  <2>2. BlockReward \in Nat /\ seenTotal \in Nat
    BY BlockRewardType
  <2>3. BondedBy(validators[v]) \in Nat
    <3>1. validators[v] \in MaybeEntry
      BY StakesAre
    <3> QED BY <3>1, EntryFields DEF BondedBy, MaybeEntry
  <2>4. GivenFor(v) = 0
    BY <2>1 DEF GivenFor
  <2> DEFINE b == BlockReward
             t == BondedBy(validators[v])
  <2>5. b \in Nat /\ t \in Nat
    BY <2>2, <2>3
  <2> HIDE DEF b, t
  <2>6. b * t \in Nat
    BY <2>5, ProductNat
  <2>7. seenTotal * 0 = 0 /\ 0 <= b * t
    BY <2>2, <2>6
  <2> QED BY <2>4, <2>7 DEF b, t
<1> QED BY <1>1, <1>2

LEMMA RewardsSuffice ==
  ASSUME TypeInv, StakesInv, producer = "rewards", Punished = {}
  PROVE  Given * seenTotal <= BlockReward * TotalOfValidators
<1> DEFINE f == [v \in Validator |-> GivenFor(v)]
           g == [v \in Validator |-> BondedBy(validators[v])]
           u == seenTotal
           p == BlockReward
<1>1. u \in Int /\ p \in Int
  BY BlockRewardType
<1>2. validators \in [Validator -> MaybeEntry]
  BY StakesAre
<1>3. \A v \in Validator : BondedBy(validators[v]) \in Nat
  <2>1. \A v \in Validator : validators[v] \in MaybeEntry
    BY <1>2
  <2> QED BY <2>1, EntryFields DEF BondedBy, MaybeEntry
<1>4. \A v \in Validator : f[v] \in Int /\ g[v] \in Int /\ u * f[v] <= p * g[v]
  BY <1>3, GivenForAll, ShareSuffices
<1>5. /\ Given = SumFunction(f) /\ TotalOfValidators = SumFunction(g)
      /\ DOMAIN f = Validator /\ DOMAIN g = Validator
  <2>1. TotalOfValidators = TotalOf(validators)
    BY <1>2, TotalIs DEF TotalOfValidators, Exists
  <2> QED BY <2>1, GivenForAll DEF TotalOf
<1>6. IsFiniteSet(Validator)
  BY Finite
<1>7. Given \in Nat
  BY GivenType
<1> HIDE DEF f, g, u, p
<1>8. u * SumFunctionOnSet(f, Validator) <= p * SumFunctionOnSet(g, Validator)
  BY <1>1, <1>4, <1>6, SumScaled
<1>9. u * Given <= p * TotalOfValidators
  BY <1>5, <1>8 DEF SumFunction
<1>10. Given * u = u * Given
  BY <1>1, <1>7
<1> QED BY <1>9, <1>10 DEF u, p

(* Rewards go out in one step of the producer only. *)
LEMMA OnlyDistribute ==
  ASSUME [Next]_vars, producer = "rewards", producer' = "unbond"
  PROVE  DistributeRewards
<1>1. CASE NewRequest
  BY <1>1 DEF NewRequest, CreateValidator, DeductForDelegation, Undelegate, Slash,
              RecordBlockMissed, Unjail, WithdrawValidatorRewards,
              WithdrawDelegatorRewards, producerVars
<1>2. CASE \E j \in Job : JobStep(j)
  BY <1>2 DEF JobStep, ReadHeight, InsertValidator, RegisterValidator, InsertRegistered,
              LockForDelegation, RefuseDelegation, Delegate, ReduceDelegation,
              RefuseUndelegation, ReduceValidator, ReduceTotal, QueueUnbonding,
              LockForSlash, SlashStake, SlashUnbonding, ReleaseFromJail, producerVars
<1>3. CASE Producer
  BY <1>3 DEF Producer, RecordBlockSigned, BeginRewards, ProcessUnbondings,
              CreditMatured, EndBlock, producerVars
<1>4. CASE UNCHANGED vars
  BY <1>4 DEF vars
<1> QED BY <1>1, <1>2, <1>3, <1>4 DEF Next

(* As long as nobody was slashed, what a block gives validators and        *)
(* delegators is no more than the inflation on the stake the validators    *)
(* hold when it is distributed, although the total was read before they    *)
(* were locked and requests may be half done (distribute_block_rewards).   *)
THEOREM RewardsAreCovered == Spec => RewardsCoverHeldStake
<1> DEFINE Covered == producer = "rewards" /\ producer' = "unbond" /\ Punished = {}
                        => record'.given * seenTotal <= record'.total * TotalOfValidators
<1>1. Init => TypeInv /\ StakesInv
  BY InitType, InitStakes
<1>2. TypeInv /\ StakesInv /\ [Next]_vars => TypeInv' /\ StakesInv'
  BY TypeStep, StakesKept
<1>3. TypeInv /\ StakesInv /\ [Next]_vars => Covered
  <2> SUFFICES ASSUME TypeInv, StakesInv, [Next]_vars,
                      producer = "rewards", producer' = "unbond", Punished = {}
               PROVE  record'.given * seenTotal <= record'.total * TotalOfValidators
    OBVIOUS
  <2>1. DistributeRewards
    BY OnlyDistribute
  <2>2. record'.given = Given /\ record'.total = BlockReward
    BY <2>1 DEF DistributeRewards
  <2>3. Given * seenTotal <= BlockReward * TotalOfValidators
    BY RewardsSuffice
  <2> QED BY <2>2, <2>3
<1>4. TypeInv /\ StakesInv /\ [Next]_vars => [Covered]_vars
  BY <1>3
<1> QED BY <1>1, <1>2, <1>4, PTL DEF Spec, RewardsCoverHeldStake
=============================================================================
