------------------------------- MODULE Staking -------------------------------
(***************************************************************************)
(* The staking manager of sultan-core (staking.rs) under the requests of   *)
(* the node (main.rs): delegation, undelegation, slashing and unjailing    *)
(* run as concurrent jobs, while the block producer distributes rewards    *)
(* and pays out matured unbondings once per block.                         *)
(*                                                                         *)
(* Every field of the manager has a lock of its own.  Two of them are held *)
(* across awaits and are modelled: the lock of validators, which a job     *)
(* takes before it reads the height, and the lock of current_height, which *)
(* distribute_block_rewards takes before it waits for validators.  The     *)
(* others protect one step each.                                           *)
(*                                                                         *)
(* A definition X_Suffix is a faulty variant of X that the specification   *)
(* does not use; PROJECT.json names the property that tells them apart.    *)
(***************************************************************************)
EXTENDS Integers, Sequences, FiniteSets, FiniteSetsExt, Functions

CONSTANTS
  Job,             \* requests that may be in progress at a time
  Delegator,       \* accounts
  Validator,       \* validator addresses
  Funds,           \* balance of each account at the start
  ConsensusStake,  \* stake of the validators the consensus engine knows
  SelfStake,       \* stakes create_validator is asked for
  Commission,      \* commission rates, in percent
  Amount,          \* amounts of requests
  SlashPercent,    \* slash percentages
  JailBlocks,      \* jail_duration_blocks
  MinStake,        \* MIN_VALIDATOR_STAKE
  MaxDelegators,   \* MAX_DELEGATORS_PER_VALIDATOR
  MissThreshold,   \* DOWNTIME_MISS_THRESHOLD
  UnbondingBlocks, \* UNBONDING_PERIOD_BLOCKS
  RewardRate,      \* block reward for the total stake, in percent
  MaxHeight,       \* bound on blocks
  MaxRequests,     \* bound on requests
  NoValidator,     \* no entry in validators
  Free             \* the lock of validators is free, the job is at rest

ASSUME StakingConstants ==
  /\ IsFiniteSet(Job) /\ IsFiniteSet(Delegator) /\ IsFiniteSet(Validator)
  /\ Funds \in [Delegator -> Nat]
  /\ DOMAIN ConsensusStake \subseteq Validator
  /\ \A v \in DOMAIN ConsensusStake : ConsensusStake[v] \in Nat
  /\ SelfStake \subseteq Nat
  /\ Amount \subseteq Nat \ {0}
  /\ SlashPercent \subseteq 1 .. 100
  /\ Commission \subseteq 0 .. 100
  /\ {MinStake, MaxDelegators, MissThreshold, UnbondingBlocks} \subseteq Nat \ {0}
  /\ {JailBlocks, RewardRate, MaxHeight, MaxRequests} \subseteq Nat

ValidatorStake == [self: Nat, delegated: Nat, total: Nat, commission: 0 .. 100,
                   rewards: Nat, missed: Nat, jailed: BOOLEAN, until: Nat]
Delegation == [validator: Validator, amount: Nat, rewards: Nat]
UnbondingEntry == [delegator: Delegator, validator: Validator, amount: Nat,
                   completion: Nat]

(* What a job carries from one of its steps to the next. *)
Creating == [op: {"create"}, at: {"locked", "timed"}, validator: Validator,
             stake: Nat, commission: Commission, height: Nat]
Delegating == [op: {"delegate"},
               at: {"register", "insert", "start", "locked", "timed"},
               validator: Validator, delegator: Delegator, amount: Amount,
               height: Nat]
Slashing == [op: {"slash"}, at: {"start", "locked", "timed", "queue"},
             validator: Validator, percent: SlashPercent, height: Nat]
Unjailing == [op: {"unjail"}, at: {"locked", "timed"}, validator: Validator,
              height: Nat]
Undelegating == [op: {"undelegate"},
                 at: {"start", "timed", "reduced", "taken", "queue"},
                 validator: Validator, delegator: Delegator, amount: Amount,
                 height: Nat]
Request == Creating \cup Delegating \cup Slashing \cup Unjailing \cup Undelegating

ASSUME Sentinels ==
  /\ NoValidator \notin ValidatorStake
  /\ Free \notin Job \cup Request

VARIABLES
  bal,          \* balances of the accounts in the shards
  validators,   \* validators
  delegations,  \* delegations of each delegator, in order
  unbonding,    \* unbonding_queue
  total,        \* total_staked
  height,       \* current_height
  history,      \* validators with an event in slashing_history
  job,          \* requests in progress
  lock,         \* job that holds the write lock of validators across an await
  producer,     \* control point of produce_block
  seenTotal,    \* total_staked as distribute_block_rewards read it
  matured,      \* completed_unbondings that are not credited yet
  record,       \* last RewardDistribution: total_rewards and what was given
  requests,     \* requests so far
  gone          \* auxiliary: tokens slashed while unbonding or not refunded

vars == <<bal, validators, delegations, unbonding, total, height, history, job,
          lock, producer, seenTotal, matured, record, requests, gone>>

STypeOK ==
  /\ bal \in [Delegator -> Nat]
  /\ validators \in [Validator -> ValidatorStake \cup {NoValidator}]
  /\ delegations \in [Delegator -> Seq(Delegation)]
  /\ unbonding \in Seq(UnbondingEntry)
  /\ total \in Nat
  /\ height \in 0 .. MaxHeight
  /\ history \subseteq Validator
  /\ job \in [Job -> Request \cup {Free}]
  /\ lock \in Job \cup {Free}
  /\ producer \in {"idle", "rewards", "unbond", "pay"}
  /\ seenTotal \in Nat
  /\ matured \in Seq(UnbondingEntry)
  /\ record \in [total: Nat, given: Nat]
  /\ requests \in 0 .. MaxRequests
  /\ gone \in Nat

Init ==
  /\ bal = Funds
  /\ validators = [v \in Validator |-> NoValidator]
  /\ delegations = [d \in Delegator |-> << >>]
  /\ unbonding = << >>
  /\ total = 0
  /\ height = 0
  /\ history = {}
  /\ job = [j \in Job |-> Free]
  /\ lock = Free
  /\ producer = "idle"
  /\ seenTotal = 0
  /\ matured = << >>
  /\ record = [total |-> 0, given |-> 0]
  /\ requests = 0
  /\ gone = 0

-----------------------------------------------------------------------------
(* Jobs and locks.                                                         *)

SumAmounts(s) == SumFunction([i \in DOMAIN s |-> s[i].amount])
Percent(n, p) == (n * p) \div 100
Minus(a, b) == IF a > b THEN a - b ELSE 0   \* saturating_sub

Exists(v) == validators[v] # NoValidator
HeightLocked == producer = "rewards"

producerVars == <<producer, seenTotal, matured, record>>
bookVars == <<validators, delegations, unbonding, total, history>>

Accept(j, r) ==
  /\ job[j] = Free
  /\ requests < MaxRequests
  /\ requests' = requests + 1
  /\ job' = [job EXCEPT ![j] = r]

At(j, op, at) == job[j] # Free /\ job[j].op = op /\ job[j].at = at
GoTo(j, at) == job' = [job EXCEPT ![j].at = at]
Return(j) == job' = [job EXCEPT ![j] = Free]

LockValidators(j) == lock = Free /\ lock' = j
Unlock(j) == lock = j /\ lock' = Free

(* A job that has the validators waits here for the lock of the height. *)
ReadHeight(j) ==
  /\ job[j] # Free
  /\ job[j].at = IF job[j].op = "undelegate" THEN "start" ELSE "locked"
  /\ ~HeightLocked
  /\ job' = [job EXCEPT ![j].at = "timed", ![j].height = height]
  /\ UNCHANGED <<bookVars, producerVars, bal, height, lock, requests, gone>>

-----------------------------------------------------------------------------
(* create_validator                                                        *)

(* An entry of a new validator; the stake is not taken from any account. *)
NewValidator(stake, commission) ==
  [self |-> stake, delegated |-> 0, total |-> stake, commission |-> commission,
   rewards |-> 0, missed |-> 0, jailed |-> FALSE, until |-> 0]

CreateValidator(j, v, stake, commission) ==
  /\ stake >= MinStake
  /\ Accept(j, [op |-> "create", at |-> "locked", validator |-> v,
                stake |-> stake, commission |-> commission, height |-> 0])
  /\ ~Exists(v)
  /\ LockValidators(j)
  /\ UNCHANGED <<bookVars, producerVars, bal, height, gone>>

InsertValidator(j) ==
  /\ At(j, "create", "timed")
  /\ validators' = [validators EXCEPT ![job[j].validator] =
                      NewValidator(job[j].stake, job[j].commission)]
  /\ total' = total + job[j].stake
  /\ Unlock(j)
  /\ Return(j)
  /\ UNCHANGED <<delegations, unbonding, history, producerVars, bal, height,
                 requests, gone>>

-----------------------------------------------------------------------------
(* handle_delegate: the amount leaves the account first, then a validator  *)
(* of the consensus engine is registered with the staking manager, then    *)
(* the delegation is made or refused; nothing refunds a refused one.       *)

DeductForDelegation(j, d, v, amt) ==
  /\ bal[d] >= amt
  /\ Accept(j, [op |-> "delegate", validator |-> v, delegator |-> d,
                amount |-> amt, height |-> 0,
                at |-> IF v \in DOMAIN ConsensusStake THEN "register" ELSE "start"])
  /\ bal' = [bal EXCEPT ![d] = @ - amt]
  /\ UNCHANGED <<bookVars, producerVars, height, lock, gone>>

DefaultCommission == 5

(* create_validator, whose result the handler ignores. *)
RegisterValidator(j) ==
  /\ At(j, "delegate", "register")
  /\ LET v == job[j].validator
     IN  IF Exists(v) \/ ConsensusStake[v] < MinStake
           THEN lock = Free /\ GoTo(j, "start") /\ UNCHANGED lock
           ELSE LockValidators(j) /\ GoTo(j, "insert")
  /\ UNCHANGED <<bookVars, producerVars, bal, height, requests, gone>>

(* The guard kept for the rest of the handler. *)
InsertRegistered_KeepsLock(j) ==
  /\ At(j, "delegate", "insert")
  /\ ~HeightLocked
  /\ LET v == job[j].validator
     IN  /\ validators' = [validators EXCEPT ![v] =
                             NewValidator(ConsensusStake[v], DefaultCommission)]
         /\ total' = total + ConsensusStake[v]
  /\ GoTo(j, "start")
  /\ UNCHANGED <<delegations, unbonding, history, producerVars, bal, height,
                 lock, requests, gone>>

InsertRegistered(j) ==
  /\ At(j, "delegate", "insert")
  /\ ~HeightLocked
  /\ LET v == job[j].validator
     IN  /\ validators' = [validators EXCEPT ![v] =
                             NewValidator(ConsensusStake[v], DefaultCommission)]
         /\ total' = total + ConsensusStake[v]
  /\ Unlock(j)
  /\ GoTo(j, "start")
  /\ UNCHANGED <<delegations, unbonding, history, producerVars, bal, height,
                 requests, gone>>

(* The places of d's delegations to v. *)
Own(d, v) == {i \in DOMAIN delegations[d] : delegations[d][i].validator = v}
DelegatorsOf(v) == SumFunction([d \in Delegator |-> Cardinality(Own(d, v))])

MayDelegate(d, v) ==
  /\ Exists(v)
  /\ ~validators[v].jailed
  /\ Own(d, v) # {} \/ DelegatorsOf(v) < MaxDelegators

LockForDelegation(j) ==
  /\ At(j, "delegate", "start")
  /\ MayDelegate(job[j].delegator, job[j].validator)
  /\ LockValidators(j)
  /\ GoTo(j, "locked")
  /\ UNCHANGED <<bookVars, producerVars, bal, height, requests, gone>>

RefuseDelegation(j) ==
  /\ At(j, "delegate", "start")
  /\ lock = Free
  /\ ~MayDelegate(job[j].delegator, job[j].validator)
  /\ Return(j)
  /\ gone' = gone + job[j].amount
  /\ UNCHANGED <<bookVars, producerVars, bal, height, lock, requests>>

Delegate(j) ==
  /\ At(j, "delegate", "timed")
  /\ LET r == job[j]
     IN  /\ validators' = [validators EXCEPT
                             ![r.validator].delegated = @ + r.amount,
                             ![r.validator].total = @ + r.amount]
         /\ delegations' = [delegations EXCEPT ![r.delegator] =
                              Append(@, [validator |-> r.validator,
                                         amount |-> r.amount, rewards |-> 0])]
         /\ total' = total + r.amount
  /\ Unlock(j)
  /\ Return(j)
  /\ UNCHANGED <<unbonding, history, producerVars, bal, height, requests, gone>>

-----------------------------------------------------------------------------
(* undelegate: delegation, validator, total and queue are four steps.      *)

Undelegate(j, d, v, amt) ==
  /\ Accept(j, [op |-> "undelegate", at |-> "start", validator |-> v,
                delegator |-> d, amount |-> amt, height |-> 0])
  /\ UNCHANGED <<bookVars, producerVars, bal, height, lock, gone>>

(* Only the first delegation to the validator counts; without one, or with *)
(* one that is too small, the request fails.                               *)
FirstDelegation(d, v) == IF Own(d, v) = {} THEN 0 ELSE Min(Own(d, v))

CanReduce(r) ==
  LET i == FirstDelegation(r.delegator, r.validator)
  IN  i # 0 /\ delegations[r.delegator][i].amount >= r.amount

ReduceDelegation(j) ==
  /\ At(j, "undelegate", "timed")
  /\ CanReduce(job[j])
  /\ LET r == job[j]
         i == FirstDelegation(r.delegator, r.validator)
     IN  delegations' = [delegations EXCEPT ![r.delegator][i].amount = @ - r.amount]
  /\ GoTo(j, "reduced")
  /\ UNCHANGED <<validators, unbonding, total, history, producerVars, bal,
                 height, lock, requests, gone>>

RefuseUndelegation(j) ==
  /\ At(j, "undelegate", "timed")
  /\ ~CanReduce(job[j])
  /\ Return(j)
  /\ UNCHANGED <<bookVars, producerVars, bal, height, lock, requests, gone>>

(* The entry of a validator that gives up a delegated amount. *)
Relieved_DelegatedOnly(e, amt) == [e EXCEPT !.delegated = Minus(@, amt)]
Relieved(e, amt) ==
  [e EXCEPT !.delegated = Minus(@, amt), !.total = Minus(@, amt)]

ReduceValidator(j) ==
  /\ At(j, "undelegate", "reduced")
  /\ lock = Free
  /\ validators' = [validators EXCEPT ![job[j].validator] =
                      Relieved(@, job[j].amount)]
  /\ GoTo(j, "taken")
  /\ UNCHANGED <<delegations, unbonding, total, history, producerVars, bal,
                 height, lock, requests, gone>>

ReduceTotal_Kept(j) ==
  /\ At(j, "undelegate", "taken")
  /\ GoTo(j, "queue")
  /\ UNCHANGED <<bookVars, producerVars, bal, height, lock, requests, gone>>
ReduceTotal(j) ==
  /\ At(j, "undelegate", "taken")
  /\ total' = Minus(total, job[j].amount)
  /\ GoTo(j, "queue")
  /\ UNCHANGED <<validators, delegations, unbonding, history, producerVars,
                 bal, height, lock, requests, gone>>

QueueUnbonding(j) ==
  /\ At(j, "undelegate", "queue")
  /\ LET r == job[j]
     IN  unbonding' = Append(unbonding,
           [delegator |-> r.delegator, validator |-> r.validator,
            amount |-> r.amount, completion |-> r.height + UnbondingBlocks])
  /\ Return(j)
  /\ UNCHANGED <<validators, delegations, total, history, producerVars, bal,
                 height, lock, requests, gone>>

-----------------------------------------------------------------------------
(* slash_validator, called when a governance proposal executes and by      *)
(* record_block_missed; unjail_validator.                                  *)

Slash(j, v, percent) ==
  /\ Exists(v)
  /\ Accept(j, [op |-> "slash", at |-> "start", validator |-> v,
                percent |-> percent, height |-> 0])
  /\ UNCHANGED <<bookVars, producerVars, bal, height, lock, gone>>

(* A jailed validator is not counted; one over the threshold is slashed    *)
(* after the lock has been given back.                                     *)
RecordBlockMissed(j, v, percent) ==
  /\ lock = Free
  /\ Exists(v) /\ ~validators[v].jailed
  /\ validators' = [validators EXCEPT ![v].missed = @ + 1]
  /\ IF validators'[v].missed >= MissThreshold
       THEN Accept(j, [op |-> "slash", at |-> "start", validator |-> v,
                       percent |-> percent, height |-> 0])
       ELSE /\ requests < MaxRequests
            /\ requests' = requests + 1
            /\ UNCHANGED job
  /\ UNCHANGED <<delegations, unbonding, total, history, producerVars, bal,
                 height, lock, gone>>

LockForSlash(j) ==
  /\ At(j, "slash", "start")
  /\ LockValidators(j)
  /\ GoTo(j, "locked")
  /\ UNCHANGED <<bookVars, producerVars, bal, height, requests, gone>>

(* The validator's stake is cut, not the delegations it is made of. *)
Slashed(e, amt, until) ==
  [e EXCEPT !.total = Minus(@, amt), !.self = Minus(@, amt),
            !.jailed = TRUE, !.until = until]

SlashStake(j) ==
  /\ At(j, "slash", "timed")
  /\ LET r == job[j]
         amt == Percent(validators[r.validator].total, r.percent)
     IN  /\ validators' = [validators EXCEPT ![r.validator] =
                             Slashed(@, amt, r.height + JailBlocks)]
         /\ total' = Minus(total, amt)
  /\ Unlock(j)
  /\ GoTo(j, "queue")
  /\ UNCHANGED <<delegations, unbonding, history, producerVars, bal, height,
                 requests, gone>>

SlashUnbonding(j) ==
  /\ At(j, "slash", "queue")
  /\ LET r == job[j]
         cut == [i \in DOMAIN unbonding |->
                   IF unbonding[i].validator = r.validator
                     THEN Percent(unbonding[i].amount, r.percent) ELSE 0]
     IN  /\ unbonding' = [i \in DOMAIN unbonding |->
                            [unbonding[i] EXCEPT !.amount = @ - cut[i]]]
         /\ gone' = gone + SumFunction(cut)
         /\ history' = history \cup {r.validator}
  /\ Return(j)
  /\ UNCHANGED <<validators, delegations, total, producerVars, bal, height,
                 lock, requests>>

Unjail(j, v) ==
  /\ Exists(v)
  /\ Accept(j, [op |-> "unjail", at |-> "locked", validator |-> v, height |-> 0])
  /\ LockValidators(j)
  /\ UNCHANGED <<bookVars, producerVars, bal, height, gone>>

ReleaseFromJail(j) ==
  /\ At(j, "unjail", "timed")
  /\ LET v == job[j].validator
     IN  IF validators[v].jailed /\ job[j].height >= validators[v].until
           THEN validators' = [validators EXCEPT ![v].jailed = FALSE, ![v].until = 0]
           ELSE UNCHANGED validators
  /\ Unlock(j)
  /\ Return(j)
  /\ UNCHANGED <<delegations, unbonding, total, history, producerVars, bal,
                 height, requests, gone>>

-----------------------------------------------------------------------------
(* Rewards are withdrawn by setting them to zero; handle_withdraw_rewards  *)
(* reports the amount and credits no account.                              *)

WithdrawValidatorRewards(v) ==
  /\ requests < MaxRequests
  /\ requests' = requests + 1
  /\ lock = Free
  /\ Exists(v)
  /\ validators' = [validators EXCEPT ![v].rewards = 0]
  /\ UNCHANGED <<delegations, unbonding, total, history, producerVars, bal,
                 height, job, lock, gone>>

WithdrawDelegatorRewards(d, v) ==
  /\ requests < MaxRequests
  /\ requests' = requests + 1
  /\ \E i \in Own(d, v) : delegations[d][i].rewards > 0
  /\ delegations' = [delegations EXCEPT ![d] = [i \in DOMAIN @ |->
                       IF @[i].validator = v THEN [@[i] EXCEPT !.rewards = 0]
                       ELSE @[i]]]
  /\ UNCHANGED <<validators, unbonding, total, history, producerVars, bal,
                 height, job, lock, gone>>

-----------------------------------------------------------------------------
(* The block producer.                                                     *)

RecordBlockSigned(v) ==
  /\ producer = "idle"
  /\ lock = Free
  /\ Exists(v) /\ validators[v].missed > 0
  /\ validators' = [validators EXCEPT ![v].missed = 0]
  /\ UNCHANGED <<delegations, unbonding, total, history, producerVars, bal,
                 height, job, lock, requests, gone>>

(* distribute_block_rewards takes the height and keeps it locked until the *)
(* rewards are out, unless nothing is staked.                              *)
BeginRewards ==
  /\ producer = "idle"
  /\ height < MaxHeight
  /\ height' = height + 1
  /\ seenTotal' = total
  /\ producer' = IF total = 0 THEN "unbond" ELSE "rewards"
  /\ UNCHANGED <<bookVars, bal, job, lock, matured, record, requests, gone>>

BlockReward == Percent(seenTotal, RewardRate)
Earns(v) == Exists(v) /\ ~validators[v].jailed /\ validators[v].total > 0
Share(v) == (validators[v].total * BlockReward) \div seenTotal
DelegatorShare(v) == (validators[v].delegated * Share(v)) \div validators[v].total
Cut(v) == Percent(DelegatorShare(v), validators[v].commission)
ValidatorReward(v) == Minus(Share(v), DelegatorShare(v)) + Cut(v)

(* What is left of a validator's reward for its delegators. *)
Pool_BeforeCut(v) == DelegatorShare(v)
Pool(v) == Minus(DelegatorShare(v), Cut(v))

DelegationReward(x) ==
  IF Earns(x.validator) /\ validators[x.validator].delegated > 0
    THEN (x.amount * Pool(x.validator)) \div validators[x.validator].delegated
    ELSE 0

GivenTo(d) ==
  SumFunction([i \in DOMAIN delegations[d] |-> DelegationReward(delegations[d][i])])
Given ==
  SumFunction([v \in {w \in Validator : Earns(w)} |-> ValidatorReward(v)])
  + SumFunction([d \in Delegator |-> GivenTo(d)])

DistributeRewards ==
  /\ producer = "rewards"
  /\ lock = Free
  /\ validators' = [v \in Validator |->
       IF Earns(v) THEN [validators[v] EXCEPT !.rewards = @ + ValidatorReward(v)]
       ELSE validators[v]]
  /\ delegations' = [d \in Delegator |-> [i \in DOMAIN delegations[d] |->
       [delegations[d][i] EXCEPT !.rewards = @ + DelegationReward(delegations[d][i])]]]
  /\ record' = [total |-> BlockReward, given |-> Given]
  /\ producer' = "unbond"
  /\ UNCHANGED <<unbonding, total, history, bal, height, job, lock, seenTotal,
                 matured, requests, gone>>

(* process_unbondings splits the queue; the producer then credits what has *)
(* matured, one account at a time.                                         *)
IsMature(u) == u.completion <= height

(* The entries of q at the places in I, in their order. *)
Chosen(q, I) ==
  LET upTo[n \in 0 .. Len(q)] ==
        IF n = 0 THEN << >>
        ELSE IF n \in I THEN Append(upTo[n - 1], q[n]) ELSE upTo[n - 1]
  IN  upTo[Len(q)]

Matured(q) == Chosen(q, {i \in DOMAIN q : IsMature(q[i])})
Pending_All(q) == q
Pending(q) == Chosen(q, {i \in DOMAIN q : ~IsMature(q[i])})

ProcessUnbondings ==
  /\ producer = "unbond"
  /\ matured' = Matured(unbonding)
  /\ unbonding' = Pending(unbonding)
  /\ producer' = "pay"
  /\ UNCHANGED <<validators, delegations, total, history, bal, height, job,
                 lock, seenTotal, record, requests, gone>>

CreditMatured ==
  /\ producer = "pay"
  /\ matured # << >>
  /\ bal' = [bal EXCEPT ![Head(matured).delegator] = @ + Head(matured).amount]
  /\ matured' = Tail(matured)
  /\ UNCHANGED <<bookVars, height, job, lock, producer, seenTotal, record,
                 requests, gone>>

EndBlock ==
  /\ producer = "pay"
  /\ matured = << >>
  /\ producer' = "idle"
  /\ UNCHANGED <<bookVars, bal, height, job, lock, seenTotal, matured, record,
                 requests, gone>>

-----------------------------------------------------------------------------
NewRequest ==
  \E j \in Job, v \in Validator :
    \/ \E stake \in SelfStake, c \in Commission : CreateValidator(j, v, stake, c)
    \/ \E d \in Delegator, amt \in Amount :
         DeductForDelegation(j, d, v, amt) \/ Undelegate(j, d, v, amt)
    \/ \E p \in SlashPercent : Slash(j, v, p) \/ RecordBlockMissed(j, v, p)
    \/ Unjail(j, v)
    \/ WithdrawValidatorRewards(v)
    \/ \E d \in Delegator : WithdrawDelegatorRewards(d, v)

JobStep(j) ==
  \/ ReadHeight(j)
  \/ InsertValidator(j)
  \/ RegisterValidator(j) \/ InsertRegistered(j)
  \/ LockForDelegation(j) \/ RefuseDelegation(j) \/ Delegate(j)
  \/ ReduceDelegation(j) \/ RefuseUndelegation(j) \/ ReduceValidator(j)
  \/ ReduceTotal(j) \/ QueueUnbonding(j)
  \/ LockForSlash(j) \/ SlashStake(j) \/ SlashUnbonding(j)
  \/ ReleaseFromJail(j)

Producer ==
  \/ \E v \in Validator : RecordBlockSigned(v)
  \/ BeginRewards \/ DistributeRewards
  \/ ProcessUnbondings \/ CreditMatured \/ EndBlock

Next == NewRequest \/ (\E j \in Job : JobStep(j)) \/ Producer

Spec == Init /\ [][Next]_vars

-----------------------------------------------------------------------------
(* Properties.                                                             *)

(* What a request of an operation carries while it is at one of the points. *)
Carried(r, op, points) ==
  IF r # Free /\ r.op = op /\ r.at \in points THEN r.amount ELSE 0

InFlight(op, points) == SumFunction([j \in Job |-> Carried(job[j], op, points)])

(* Every token of an account is in its balance, delegated, unbonding, on   *)
(* its way between those in exactly one request, or gone by a slash of the *)
(* unbonding queue or a refused delegation: concurrent requests never pay  *)
(* a token out twice and never drop one (handle_delegate, undelegate,      *)
(* process_unbondings).                                                    *)
TokensAccountedFor ==
  SumFunction(bal)
  + SumFunction([d \in Delegator |-> SumAmounts(delegations[d])])
  + SumAmounts(unbonding) + SumAmounts(matured)
  + InFlight("delegate", {"register", "insert", "start", "locked", "timed"})
  + InFlight("undelegate", {"reduced", "taken", "queue"})
  + gone = SumFunction(Funds)

(* Validators whose stake a slash has cut. *)
Punished ==
  history \cup {job[j].validator : j \in {i \in Job : At(i, "slash", "queue")}}

(* What the list s of delegations gives to v. *)
AmountTo(s, v) ==
  SumFunction([i \in DOMAIN s |-> IF s[i].validator = v THEN s[i].amount ELSE 0])

DelegatedTo(v) == SumFunction([d \in Delegator |-> AmountTo(delegations[d], v)])

(* What a request has taken from a delegation to v and not from v yet. *)
Leaving(r, v) ==
  IF r # Free /\ r.validator = v THEN Carried(r, "undelegate", {"reduced"}) ELSE 0

(* The delegated stake of a validator is what its delegations add up to,   *)
(* except for what an undelegation has taken off only one of the two; and  *)
(* the total of a validator that was never slashed is the sum of both its  *)
(* stakes.                                                                 *)
StakeMatchesDelegations ==
  \A v \in Validator : Exists(v) =>
    /\ validators[v].delegated =
         DelegatedTo(v) + SumFunction([j \in Job |-> Leaving(job[j], v)])
    /\ v \notin Punished =>
         validators[v].total = validators[v].self + validators[v].delegated

TotalOfValidators ==
  SumFunction([v \in {w \in Validator : Exists(w)} |-> validators[v].total])

(* total_staked never exceeds the stake of the validators: what block      *)
(* rewards and the governance quorum are computed from is never more than  *)
(* what is bonded.                                                         *)
TotalNeverOverstated ==
  total <= TotalOfValidators + InFlight("undelegate", {"taken"})

(* A block never gives more than the inflation on the stake the validators *)
(* hold when it is distributed, as long as nobody was slashed: rounding,   *)
(* commission and requests half done never pay a reward twice.             *)
RewardsCoverHeldStake ==
  [][producer = "rewards" /\ producer' = "unbond" /\ Punished = {}
     => record'.given * seenTotal <= record'.total * TotalOfValidators]_vars

(* distribute_block_rewards waits for the validators with the height       *)
(* locked, a request for the height with the validators locked.            *)
LockCycle ==
  HeightLocked /\ \E j \in Job : lock = j /\ job[j].at \in {"locked", "insert"}

(* Requests and the block that have begun can go on: the only way in which *)
(* everyone waits for everyone is that cycle of the two locks.             *)
OnlyLockCycleBlocks ==
  \/ producer = "idle" /\ \A j \in Job : job[j] = Free
  \/ LockCycle
  \/ ENABLED ((\E j \in Job : JobStep(j)) \/ (producer # "idle" /\ Producer))
=============================================================================
