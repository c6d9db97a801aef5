-------------------------- MODULE CrossShardCommit --------------------------
(***************************************************************************)
(* The sharding coordinator of sultan-core (sharding_production.rs):       *)
(* process_parallel executes the same-shard transactions of a block and    *)
(* queues the cross-shard ones; process_cross_shard_queue takes them one   *)
(* by one through a two-phase commit with a write-ahead log, a lock per    *)
(* sender and nonce, and at most MaxAttempts attempts, one per block.      *)
(*                                                                         *)
(* The node runs all of this under the write lock of the blockchain        *)
(* (main.rs, produce_block), so one block is in progress at a time; the    *)
(* steps below are the code between two points where something else can    *)
(* happen: a 30 s timeout or an I/O error of the log.  TimeoutAt and       *)
(* LogFailsAt name the control points where these may strike.              *)
(*                                                                         *)
(* A definition X_Suffix is a faulty variant of X that the specification   *)
(* does not use; PROJECT.json names the property that tells them apart.    *)
(***************************************************************************)
EXTENDS Integers, Sequences, Functions

CONSTANTS
  Account,      \* addresses
  Home,         \* calculate_shard_id: the shard of each address
  Genesis,      \* balances of the accounts that exist at the start
  Amount,       \* amounts of transactions, deposits and deductions
  Tx,           \* the signed transactions clients may submit
  MaxAttempts,  \* MAX_RETRY_ATTEMPTS
  MaxInputs,    \* bound on submissions, deposits and deductions
  TimeoutAt,    \* control points at which CROSS_SHARD_TIMEOUT may expire
  LogFailsAt,   \* control points at which writing the log may fail
  NoCtx,        \* no CrossShardTransaction
  NoRollback    \* rollback_data: None

TimeoutPoint == {"validate", "proof", "debit", "credit", "merkle"}
LogPoint == {"start", "preparing", "prepared", "committing", "committed",
             "aborting"}
Point == TimeoutPoint \cup LogPoint \cup
         {"idle", "batch", "take", "lock", "finish", "rollback"}

ASSUME CoordinatorConstants ==
  /\ Amount \subseteq Nat \ {0}
  /\ Tx \subseteq [from: Account, to: Account, amount: Amount, nonce: Nat]
  /\ DOMAIN Genesis \subseteq Account
  /\ \A a \in DOMAIN Genesis : Genesis[a] \in Nat
  /\ MaxAttempts \in Nat \ {0}
  /\ MaxInputs \in Nat
  /\ TimeoutAt \subseteq TimeoutPoint
  /\ LogFailsAt \subseteq LogPoint

CommitState == {"Preparing", "Prepared", "Committing", "Committed",
                "Aborting", "Aborted"}
RollbackData == [balance: Nat, nonce: Nat]
Ctx == [tx: Tx, state: CommitState, retry: 0 .. MaxAttempts - 1,
        rollback: RollbackData \cup {NoRollback}]

ASSUME Sentinels == NoCtx \notin Ctx /\ NoRollback \notin RollbackData

VARIABLES
  balance,    \* state of all shards: account balances
  known,      \* accounts that have an entry in their shard's state
  nonce,      \* nonce_tracker: next expected nonce
  queue,      \* cross_shard_queue
  failed,     \* failed_txs of the queue pass in progress
  cur,        \* ctx: the transaction in two-phase commit
  pc,         \* control point of the block in progress
  wal,        \* commit log: the file under each idempotency key
  processed,  \* processed_idempotency_keys
  locks,      \* tx_locks: pairs of sender and nonce
  block,      \* transactions the block in progress will list
  inputs,     \* inputs so far
  net         \* auxiliary: deposits minus deductions

vars == <<balance, known, nonce, queue, failed, cur, pc, wal, processed,
          locks, block, inputs, net>>

TypeOK ==
  /\ balance \in [Account -> Nat]
  /\ known \subseteq Account
  /\ nonce \in [Account -> Nat]
  /\ queue \in Seq(Ctx)
  /\ failed \in Seq(Ctx)
  /\ cur \in Ctx \cup {NoCtx}
  /\ pc \in Point
  /\ wal \in [Tx -> Ctx \cup {NoCtx}]
  /\ processed \subseteq Tx
  /\ locks \subseteq Account \X Nat
  /\ block \in Seq(Tx)
  /\ inputs \in Nat
  /\ net \in Int

GenesisBalance ==
  [a \in Account |-> IF a \in DOMAIN Genesis THEN Genesis[a] ELSE 0]

Init ==
  /\ balance = GenesisBalance
  /\ known = DOMAIN Genesis
  /\ nonce = [a \in Account |-> 0]
  /\ queue = << >>
  /\ failed = << >>
  /\ cur = NoCtx
  /\ pc = "idle"
  /\ wal = [t \in Tx |-> NoCtx]
  /\ processed = {}
  /\ locks = {}
  /\ block = << >>
  /\ inputs = 0
  /\ net = 0

-----------------------------------------------------------------------------
(* Between two blocks: staking, governance and rewards move funds in and   *)
(* out of accounts without a transaction.                                  *)

CountInput == inputs < MaxInputs /\ inputs' = inputs + 1

AddBalance(a, amt) ==
  /\ pc = "idle"
  /\ balance' = [balance EXCEPT ![a] = @ + amt]
  /\ net' = net + amt
  /\ known' = known \cup {a}
  /\ UNCHANGED <<nonce, queue, failed, cur, pc, wal, processed, locks, block>>

DeductBalance(a, amt) ==
  /\ pc = "idle"
  /\ a \in known
  /\ balance[a] >= amt
  /\ balance' = [balance EXCEPT ![a] = @ - amt]
  /\ net' = net - amt
  /\ UNCHANGED <<known, nonce, queue, failed, cur, pc, wal, processed, locks,
                 block>>

-----------------------------------------------------------------------------
(* process_parallel, one transaction of the batch at a time.               *)

BeginBlock ==
  /\ pc = "idle"
  /\ pc' = "batch"
  /\ block' = << >>
  /\ UNCHANGED <<balance, known, nonce, queue, failed, cur, wal, processed,
                 locks, inputs, net>>

IsCrossShard(t) == Home[t.from] # Home[t.to]

NewCtx(t) ==
  [tx |-> t, state |-> "Preparing", retry |-> 0, rollback |-> NoRollback]

QueueCross(t) ==
  /\ pc = "batch"
  /\ IsCrossShard(t)
  /\ queue' = Append(queue, NewCtx(t))
  /\ UNCHANGED <<balance, known, nonce, failed, cur, pc, wal, processed,
                 locks, block, net>>

(* Faulty variant: the nonce is not compared. *)
ValidInShard_AnyNonce(t) == balance[t.from] >= t.amount

(* validate_transaction; a sender without an account has balance 0. *)
ValidInShard(t) == balance[t.from] >= t.amount /\ nonce[t.from] = t.nonce

(* One turn of the loop of process_transactions that gets past the         *)
(* validation; a transaction that does not is dropped without effect.      *)
ApplySameShard(t) ==
  /\ pc = "batch"
  /\ ~IsCrossShard(t)
  /\ ValidInShard(t)
  /\ balance' = [[balance EXCEPT ![t.from] = @ - t.amount]
                          EXCEPT ![t.to] = @ + t.amount]
  /\ known' = known \cup {t.to}
  /\ nonce' = [nonce EXCEPT ![t.from] = t.nonce + 1]
  /\ block' = Append(block, t)
  /\ UNCHANGED <<queue, failed, cur, pc, wal, processed, locks, net>>

BeginQueue ==
  /\ pc = "batch"
  /\ pc' = "take"
  /\ UNCHANGED <<balance, known, nonce, queue, failed, cur, wal, processed,
                 locks, block, inputs, net>>

-----------------------------------------------------------------------------
(* process_cross_shard_queue: the loop around the two-phase commit.        *)

TakeNext ==
  /\ pc = "take"
  /\ queue # << >>
  /\ cur' = Head(queue)
  /\ queue' = Tail(queue)
  /\ pc' = "start"
  /\ UNCHANGED <<balance, known, nonce, failed, wal, processed, locks, block,
                 inputs, net>>

(* The queue is empty: the failed transactions wait for the next block. *)
EndQueue ==
  /\ pc = "take"
  /\ queue = << >>
  /\ queue' = failed
  /\ failed' = << >>
  /\ pc' = "idle"
  /\ UNCHANGED <<balance, known, nonce, cur, wal, processed, locks, block,
                 inputs, net>>

(* Faulty variant: only same-shard transactions are listed. *)
Succeed_Unlisted ==
  /\ UNCHANGED block
  /\ cur' = NoCtx
  /\ pc' = "take"

(* execute_cross_shard_commit returned Ok. *)
Succeed ==
  /\ block' = Append(block, cur.tx)
  /\ cur' = NoCtx
  /\ pc' = "take"

(* Faulty variant: attempts are not counted. *)
Fail_Uncounted(c) ==
  /\ failed' = Append(failed, c)
  /\ cur' = NoCtx
  /\ pc' = "take"

(* execute_cross_shard_commit returned an error and left ctx as c. *)
Fail(c) ==
  /\ failed' = IF c.retry + 1 < MaxAttempts
                 THEN Append(failed, [c EXCEPT !.retry = @ + 1])
                 ELSE failed
  /\ cur' = NoCtx
  /\ pc' = "take"

-----------------------------------------------------------------------------
(* execute_cross_shard_commit, one action per durable or awaited step.     *)

LockKey(c) == <<c.tx.from, c.tx.nonce>>

(* tx_locks with the lock of the current transaction, and without. *)
Locked_NotTaken == locks
Locked == locks \cup {LockKey(cur)}
Released_Kept == locks
Released == locks \ {LockKey(cur)}

(* remove_commit_log *)
LogRemoved_Kept == wal
LogRemoved == [wal EXCEPT ![cur.tx] = NoCtx]

(* write_commit_log: ctx in state s becomes the content of its log file.   *)
WriteLog(s) ==
  /\ cur' = [cur EXCEPT !.state = s]
  /\ wal' = [wal EXCEPT ![cur.tx] = cur']

SkipProcessed ==
  /\ pc = "start"
  /\ cur.tx \in processed
  /\ Succeed
  /\ UNCHANGED <<balance, known, nonce, queue, failed, wal, processed, locks,
                 inputs, net>>

(* The first write logs ctx in the state the previous attempt left it in. *)
LogStart ==
  /\ pc = "start"
  /\ cur.tx \notin processed
  /\ WriteLog(cur.state)
  /\ pc' = "preparing"
  /\ UNCHANGED <<balance, known, nonce, queue, failed, processed, locks,
                 block, inputs, net>>

LogStep(from, state, to) ==
  /\ pc = from
  /\ WriteLog(state)
  /\ pc' = to
  /\ UNCHANGED <<balance, known, nonce, queue, failed, processed, locks,
                 block, inputs, net>>

LogPreparing == LogStep("preparing", "Preparing", "lock")
LogPrepared == LogStep("prepared", "Prepared", "committing")
LogCommitting == LogStep("committing", "Committing", "debit")
LogCommitted == LogStep("committed", "Committed", "finish")
LogAborting == LogStep("aborting", "Aborting", "rollback")

(* prepare_phase: the double-processing lock. *)
AcquireLock ==
  /\ pc = "lock"
  /\ LockKey(cur) \notin locks
  /\ locks' = Locked
  /\ pc' = "validate"
  /\ UNCHANGED <<balance, known, nonce, queue, failed, cur, wal, processed,
                 block, inputs, net>>

LockIsTaken ==
  /\ pc = "lock"
  /\ LockKey(cur) \in locks
  /\ pc' = "aborting"
  /\ UNCHANGED <<balance, known, nonce, queue, failed, cur, wal, processed,
                 locks, block, inputs, net>>

(* The rollback data of prepare_phase. *)
Captured_AfterDebit ==
  [balance |-> balance[cur.tx.from] - cur.tx.amount, nonce |-> nonce[cur.tx.from]]
Captured ==
  [balance |-> balance[cur.tx.from], nonce |-> nonce[cur.tx.from]]

(* prepare_phase: checks on the source shard, then the rollback data. *)
ValidateSender ==
  /\ pc = "validate"
  /\ cur.tx.from \in known
  /\ ValidInShard(cur.tx)
  /\ cur' = [cur EXCEPT !.rollback = Captured]
  /\ pc' = "proof"
  /\ UNCHANGED <<balance, known, nonce, queue, failed, wal, processed, locks,
                 block, inputs, net>>

(* A failed check gives the lock back, a missing account does not. *)
RejectSender ==
  /\ pc = "validate"
  /\ ~(cur.tx.from \in known /\ ValidInShard(cur.tx))
  /\ locks' = IF cur.tx.from \in known THEN Released ELSE locks
  /\ pc' = "aborting"
  /\ UNCHANGED <<balance, known, nonce, queue, failed, cur, wal, processed,
                 block, inputs, net>>

CaptureProof ==
  /\ pc = "proof"
  /\ pc' = "prepared"
  /\ UNCHANGED <<balance, known, nonce, queue, failed, cur, wal, processed,
                 locks, block, inputs, net>>

(* The next expected nonce a transfer leaves. *)
NonceAfter(t) == t.nonce + 1

(* The receiver's balance after a credit. *)
Credited_Replaced(old, amt) == amt
Credited(old, amt) == old + amt

(* commit_phase: debit the source shard, then credit the destination. *)
DebitSource ==
  /\ pc = "debit"
  /\ IF cur.tx.from \in known /\ balance[cur.tx.from] >= cur.tx.amount
       THEN /\ balance' = [balance EXCEPT ![cur.tx.from] = @ - cur.tx.amount]
            /\ nonce' = [nonce EXCEPT ![cur.tx.from] = NonceAfter(cur.tx)]
            /\ pc' = "credit"
       ELSE /\ pc' = "aborting"
            /\ UNCHANGED <<balance, nonce>>
  /\ UNCHANGED <<known, queue, failed, cur, wal, processed, locks, block,
                 inputs, net>>

CreditDestination ==
  /\ pc = "credit"
  /\ balance' = [balance EXCEPT ![cur.tx.to] = Credited(@, cur.tx.amount)]
  /\ known' = known \cup {cur.tx.to}
  /\ pc' = "merkle"
  /\ UNCHANGED <<nonce, queue, failed, cur, wal, processed, locks, block,
                 inputs, net>>

UpdateMerkle ==
  /\ pc = "merkle"
  /\ pc' = "committed"
  /\ UNCHANGED <<balance, known, nonce, queue, failed, cur, wal, processed,
                 locks, block, inputs, net>>

(* After the Committed record: idempotency key, lock, log file, Ok. *)
Finish ==
  /\ pc = "finish"
  /\ processed' = processed \cup {cur.tx}
  /\ locks' = Released
  /\ wal' = LogRemoved
  /\ Succeed
  /\ UNCHANGED <<balance, known, nonce, queue, failed, inputs, net>>

(* rollback_phase: a sender whose balance differs from the captured one is *)
(* taken to have been debited and gets the captured balance and nonce; a   *)
(* receiver that holds the amount is taken to have been credited.          *)
RestoredSender(rb) ==
  IF cur.tx.from \in known
    THEN [balance EXCEPT ![cur.tx.from] = rb.balance]
    ELSE balance

WithoutCredit(bal) ==
  IF bal[cur.tx.to] >= cur.tx.amount
    THEN [bal EXCEPT ![cur.tx.to] = @ - cur.tx.amount]
    ELSE bal

UndoEffects ==
  LET rb == cur.rollback
  IN  IF rb = NoRollback
        THEN UNCHANGED <<balance, nonce>>
        ELSE /\ balance' = WithoutCredit(RestoredSender(rb))
             /\ nonce' = IF balance[cur.tx.from] # rb.balance
                           THEN [nonce EXCEPT ![cur.tx.from] = rb.nonce]
                           ELSE nonce

(* The lock is released whoever took it. *)
Rollback ==
  /\ pc = "rollback"
  /\ locks' = Released
  /\ UndoEffects
  /\ wal' = LogRemoved
  /\ Fail([cur EXCEPT !.state = "Aborted"])
  /\ UNCHANGED <<known, queue, processed, block, inputs, net>>

-----------------------------------------------------------------------------
(* Faults.                                                                 *)

(* CROSS_SHARD_TIMEOUT cancels prepare_phase or commit_phase where it      *)
(* waits for a lock of a shard.                                            *)
Timeout ==
  /\ pc \in TimeoutAt
  /\ pc' = "aborting"
  /\ UNCHANGED <<balance, known, nonce, queue, failed, cur, wal, processed,
                 locks, block, inputs, net>>

(* The state execute_cross_shard_commit gives ctx before each log write. *)
StateLoggedAt(p) ==
  CASE p = "start"      -> cur.state
    [] p = "preparing"  -> "Preparing"
    [] p = "prepared"   -> "Prepared"
    [] p = "committing" -> "Committing"
    [] p = "committed"  -> "Committed"
    [] p = "aborting"   -> "Aborting"

(* write_commit_log fails: the ? operator leaves execute_cross_shard_commit *)
(* at once.  The file keeps its content or is left torn, which recovery     *)
(* cannot tell from none.                                                   *)
LogFails ==
  /\ pc \in LogFailsAt
  /\ pc = "start" => cur.tx \notin processed
  /\ \E left \in {wal[cur.tx], NoCtx} : wal' = [wal EXCEPT ![cur.tx] = left]
  /\ Fail([cur EXCEPT !.state = StateLoggedAt(pc)])
  /\ UNCHANGED <<balance, known, nonce, queue, processed, locks, block,
                 inputs, net>>

-----------------------------------------------------------------------------
Between ==
  \/ BeginBlock
  \/ /\ CountInput
     /\ \E a \in Account, amt \in Amount :
          AddBalance(a, amt) \/ DeductBalance(a, amt)

Batch ==
  \/ CountInput /\ \E t \in Tx : QueueCross(t) \/ ApplySameShard(t)
  \/ BeginQueue

Prepare ==
  \/ LogStart \/ LogPreparing
  \/ AcquireLock \/ LockIsTaken
  \/ ValidateSender \/ RejectSender
  \/ CaptureProof \/ LogPrepared

Commit ==
  \/ LogCommitting
  \/ DebitSource
  \/ CreditDestination \/ UpdateMerkle
  \/ LogCommitted \/ Finish

Abort == LogAborting \/ Rollback

QueuePass ==
  TakeNext \/ EndQueue \/ SkipProcessed \/ Prepare \/ Commit \/ Abort

Next == Between \/ Batch \/ QueuePass \/ Timeout \/ LogFails

Spec == Init /\ [][Next]_vars

(* The runtime keeps executing the block in progress, and the producer     *)
(* makes a block every slot whether or not there are transactions.         *)
Fairness ==
  /\ WF_vars(BeginBlock)
  /\ WF_vars(BeginQueue)
  /\ WF_vars(QueuePass)

FairSpec == Spec /\ Fairness

-----------------------------------------------------------------------------
(* Properties.                                                             *)

(* The faults that strike before prepare_phase has stored rollback data,   *)
(* or while an attempt without rollback data is given up.                  *)
EarlyFaultsOnly ==
  /\ TimeoutAt \subseteq {"validate"}
  /\ LogFailsAt \subseteq {"start", "preparing", "aborting"}

(* Writing the log may fail on the first two records of an attempt only,   *)
(* before it holds a lock; the second phase may time out anywhere.         *)
EarlyLogFaults == LogFailsAt \subseteq {"start", "preparing"}

(* Between the debit and the credit of the commit phase the amount is in   *)
(* neither balance; the transfer counts as done from the debit on.         *)
LedgerBalance ==
  IF pc = "credit"
    THEN [balance EXCEPT ![cur.tx.to] = @ + cur.tx.amount]
    ELSE balance

Ledger == INSTANCE TransferLedger WITH bal <- LedgerBalance, seq <- nonce

(* The coordinator implements the ledger of atomic transfers: whatever the *)
(* order of attempts, retries and aborts, a transaction either moves its   *)
(* whole amount and uses its nonce, or does nothing (execute_cross_shard_  *)
(* commit, process_transactions).                                          *)
ImplementsLedger == Ledger!Spec

(* Between blocks the accounts hold what genesis, deposits and deductions  *)
(* put there: no transfer creates or destroys funds ("Zero fund loss       *)
(* guarantee", sharding_production.rs:9).                                  *)
FundsConserved ==
  pc = "idle" => SumFunction(balance) = SumFunction(GenesisBalance) + net

(* As long as a commit phase has moved funds, the log on disk holds the    *)
(* balance and the nonce the sender had before: whatever fails from here   *)
(* on, the sender's state before the transfer is known.                    *)
UndoDataDurable ==
  pc \in {"credit", "merkle", "committed"} =>
    /\ wal[cur.tx] = cur
    /\ cur.state = "Committing"
    /\ cur.rollback = [balance |-> balance[cur.tx.from] + cur.tx.amount,
                       nonce |-> nonce[cur.tx.from] - 1]

(* From the moment the sender is validated until the outcome is logged,    *)
(* the pair of sender and nonce is locked (tx_locks).                      *)
CommitIsLocked ==
  pc \in {"validate", "proof", "prepared", "committing", "debit", "credit",
          "merkle", "committed", "finish"} => LockKey(cur) \in locks

(* No block leaves a lock behind: the sender's nonce stays usable.         *)
LocksReleased == pc = "idle" => locks = {}

(* A transaction with an idempotency key can never execute again: its      *)
(* nonce is used up for good.                                              *)
ProcessedIsSpent == \A t \in processed : t.nonce < nonce[t.from]

(* A log file that recovery would act on belongs to a transaction that is  *)
(* still in two-phase commit: what an earlier attempt left on disk is      *)
(* something recover_from_crash discards.                                  *)
RecoverableLogsAreCurrent ==
  \A t \in Tx : wal[t] # NoCtx =>
    \/ cur # NoCtx /\ cur.tx = t
    \/ wal[t].state \notin {"Prepared", "Committing", "Committed"}

(* Every queued transaction is settled: committed, or dropped after its    *)
(* last attempt; the queue does not retry anything for ever.               *)
QueueDrains == queue # << >> ~> queue = << >> /\ failed = << >> /\ cur = NoCtx
=============================================================================
