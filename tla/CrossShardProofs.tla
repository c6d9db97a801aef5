-------------------------- MODULE CrossShardProofs --------------------------
(***************************************************************************)
(* Proofs about CrossShardCommit and CrossShardRecovery for every set of   *)
(* accounts, shards, transactions, and every number of attempts, blocks    *)
(* and crashes.                                                            *)
(***************************************************************************)
EXTENDS CrossShardRecovery, FiniteSums, TLAPS

USE CoordinatorConstants, Sentinels DEF CoordinatorConstants, Sentinels

(* The steps of the coordinator, whoever counts the inputs: a replay offers *)
(* transactions too, and those are no inputs.                              *)
Funding == \E a \in Account, amt \in Amount : AddBalance(a, amt) \/ DeductBalance(a, amt)
Offering == \E t \in Tx : QueueCross(t) \/ ApplySameShard(t)

Moves ==
  /\ inputs' \in Nat
  /\ \/ BeginBlock \/ Funding \/ Offering \/ BeginQueue
     \/ QueuePass \/ Timeout \/ LogFails \/ UNCHANGED vars

LEMMA NextMoves == ASSUME TypeOK, [Next]_vars PROVE Moves
<1>1. inputs \in Nat
  BY DEF TypeOK
<1>2. CASE UNCHANGED vars
  BY <1>1, <1>2 DEF Moves, vars
<1>3. CASE Between \/ Batch
  BY <1>1, <1>3 DEF Between, Batch, CountInput, BeginBlock, BeginQueue, Funding, Offering, Moves
<1>4. CASE QueuePass \/ Timeout \/ LogFails
  <2>1. inputs' = inputs
    BY <1>4 DEF QueuePass, TakeNext, EndQueue, SkipProcessed, Prepare, LogStart,
       LogPreparing, AcquireLock, LockIsTaken, ValidateSender, RejectSender, CaptureProof,
       LogPrepared, Commit, LogCommitting, DebitSource, CreditDestination, UpdateMerkle,
       LogCommitted, Finish, Abort, LogAborting, Rollback, LogStep, Timeout, LogFails
  <2> QED BY <1>1, <1>4, <2>1 DEF Moves
<1> QED BY <1>2, <1>3, <1>4 DEF Next

(* The steps of a queue pass on one transaction in two-phase commit. *)
Busy == {"start", "preparing", "lock", "validate", "proof", "prepared",
         "committing", "debit", "credit", "merkle", "committed", "finish",
         "aborting", "rollback"}

CrossTx(c) == IsCrossShard(c.tx)

(* A transaction is being executed exactly at the steps of the two-phase   *)
(* commit, and only cross-shard transactions ever get there.               *)
CurInv ==
  /\ (cur # NoCtx) <=> (pc \in Busy)
  /\ cur # NoCtx => CrossTx(cur)
  /\ \A i \in 1 .. Len(queue) : CrossTx(queue[i])
  /\ \A i \in 1 .. Len(failed) : CrossTx(failed[i])

TypeInv == TypeOK /\ CurInv

LEMMA InitType == Init => TypeInv
<1> SUFFICES ASSUME Init PROVE TypeInv
  OBVIOUS
<1>1. TypeOK
  BY DEF Init, TypeOK, GenesisBalance, Point
<1>2. CurInv
  BY DEF Init, CurInv, Busy
<1> QED BY <1>1, <1>2 DEF TypeInv

(* Ctx records stay Ctx records when a field gets a value of its type. *)
LEMMA CtxUpdate ==
  ASSUME NEW c \in Ctx
  PROVE  /\ \A s \in CommitState : [c EXCEPT !.state = s] \in Ctx
         /\ \A r \in RollbackData : [c EXCEPT !.rollback = r] \in Ctx
         /\ c.retry + 1 < MaxAttempts => [c EXCEPT !.retry = @ + 1] \in Ctx
         /\ c.tx \in Tx /\ c.state \in CommitState
  BY DEF Ctx

LEMMA NewCtxType == \A t \in Tx : NewCtx(t) \in Ctx
  BY DEF NewCtx, Ctx, CommitState

LEMMA TxFields ==
  ASSUME NEW t \in Tx
  PROVE  /\ t.from \in Account /\ t.to \in Account
         /\ t.amount \in Nat /\ t.amount > 0 /\ t.nonce \in Nat
<1>1. t \in [from: Account, to: Account, amount: Amount, nonce: Nat]
  OBVIOUS
<1>2. t.from \in Account /\ t.to \in Account /\ t.amount \in Amount /\ t.nonce \in Nat
  BY <1>1
<1>3. t.amount \in Nat /\ t.amount # 0
  BY <1>2
<1> QED BY <1>2, <1>3

(* The error path keeps the list of failed transactions well formed. *)
LEMMA FailType ==
  ASSUME TypeInv, NEW c \in Ctx, CrossTx(c), Fail(c)
  PROVE  /\ failed' \in Seq(Ctx)
         /\ \A i \in 1 .. Len(failed') : CrossTx(failed'[i])
<1> DEFINE d == [c EXCEPT !.retry = @ + 1]
<1>1. CASE c.retry + 1 < MaxAttempts
  <2>1. d \in Ctx /\ d.tx = c.tx
    BY <1>1, CtxUpdate DEF Ctx
  <2>2. failed' = Append(failed, d)
    BY <1>1 DEF Fail
  <2>3. CrossTx(d)
    BY <2>1 DEF CrossTx
  <2> HIDE DEF d
  <2>4. failed \in Seq(Ctx) /\ \A i \in 1 .. Len(failed) : CrossTx(failed[i])
    BY DEF TypeInv, TypeOK, CurInv
  <2>5. failed' \in Seq(Ctx) /\ Len(failed') = Len(failed) + 1
        /\ failed'[Len(failed) + 1] = d /\ Len(failed) \in Nat
    BY <2>1, <2>2, <2>4
  <2>6. \A i \in 1 .. Len(failed) : failed'[i] = failed[i]
    BY <2>1, <2>2, <2>4
  <2> QED BY <2>3, <2>4, <2>5, <2>6 DEF CrossTx
<1>2. CASE ~(c.retry + 1 < MaxAttempts)
  BY <1>2 DEF Fail, TypeInv, TypeOK, CurInv
<1> QED BY <1>1, <1>2

(* A log write leaves ctx and the log well formed and the transaction the  *)
(* same.                                                                   *)
LEMMA WriteLogType ==
  ASSUME TypeInv, pc \in Busy, NEW s \in CommitState, WriteLog(s)
  PROVE  /\ cur' \in Ctx /\ cur'.tx = cur.tx
         /\ cur'.state = s /\ cur'.rollback = cur.rollback
         /\ wal' \in [Tx -> Ctx \cup {NoCtx}]
<1>1. cur \in Ctx
  BY DEF TypeInv, TypeOK, CurInv
<1>2. cur' \in Ctx /\ cur'.tx = cur.tx /\ cur'.state = s /\ cur'.rollback = cur.rollback
  BY <1>1, CtxUpdate DEF WriteLog, Ctx
<1>3. wal' = [wal EXCEPT ![cur.tx] = cur']
  BY DEF WriteLog
<1>4. wal' \in [Tx -> Ctx \cup {NoCtx}]
  BY <1>1, <1>2, <1>3 DEF TypeInv, TypeOK
<1> QED BY <1>2, <1>4

LEMMA RollbackType ==
  ASSUME TypeInv, pc \in Busy, UndoEffects
  PROVE  balance' \in [Account -> Nat] /\ nonce' \in [Account -> Nat]
<1>1. cur \in Ctx /\ cur.tx.from \in Account /\ cur.tx.to \in Account /\ cur.tx.amount \in Nat
  BY CtxUpdate, TxFields DEF TypeInv, TypeOK, CurInv
<1>2. CASE cur.rollback = NoRollback
  BY <1>2 DEF UndoEffects, TypeInv, TypeOK
<1>3. CASE cur.rollback # NoRollback
  <2>1. cur.rollback.balance \in Nat /\ cur.rollback.nonce \in Nat
    BY <1>1, <1>3 DEF Ctx, RollbackData
  <2>2. RestoredSender(cur.rollback) \in [Account -> Nat]
    BY <1>1, <2>1 DEF RestoredSender, TypeInv, TypeOK
  <2>3. \A f \in [Account -> Nat] : WithoutCredit(f) \in [Account -> Nat]
    BY <1>1 DEF WithoutCredit
  <2>4. balance' = WithoutCredit(RestoredSender(cur.rollback))
    BY <1>3 DEF UndoEffects
  <2>5. nonce' \in [Account -> Nat]
    BY <1>1, <1>3, <2>1 DEF UndoEffects, TypeInv, TypeOK
  <2> QED BY <2>2, <2>3, <2>4, <2>5
<1> QED BY <1>2, <1>3

-----------------------------------------------------------------------------
(* One lemma per group of steps that treat the typed state alike. *)

LEMMA BetweenType ==
  ASSUME TypeInv, inputs' \in Nat, BeginBlock \/ Funding \/ Offering \/ BeginQueue
  PROVE  TypeInv'
<1> USE DEF TypeInv, TypeOK
<1>1. CASE BeginBlock
  <2>1. TypeOK'
    BY <1>1 DEF BeginBlock, Point
  <2>2. CurInv'
    BY <1>1 DEF BeginBlock, CurInv, Busy, CrossTx, IsCrossShard
  <2> QED BY <2>1, <2>2
<1>2. ASSUME NEW a \in Account, NEW amt \in Amount, AddBalance(a, amt)
      PROVE  TypeInv'
  <2>1. amt \in Nat
    OBVIOUS
  <2>2. balance' \in [Account -> Nat] /\ known' \subseteq Account /\ net' \in Int /\ inputs' \in Nat
    BY <1>2, <2>1 DEF AddBalance
  <2> QED BY <1>2, <2>2 DEF AddBalance, CurInv, Busy, CrossTx, IsCrossShard
<1>3. ASSUME NEW a \in Account, NEW amt \in Amount, DeductBalance(a, amt)
      PROVE  TypeInv'
  <2>1. amt \in Nat
    OBVIOUS
  <2>2. balance' \in [Account -> Nat] /\ net' \in Int /\ inputs' \in Nat
    BY <1>3, <2>1 DEF DeductBalance
  <2> QED BY <1>3, <2>2 DEF DeductBalance, CurInv, Busy, CrossTx, IsCrossShard
<1>4. ASSUME NEW t \in Tx, QueueCross(t)
      PROVE  TypeInv'
  <2>1. NewCtx(t) \in Ctx /\ NewCtx(t).tx = t
    BY NewCtxType DEF NewCtx
  <2>2. queue' \in Seq(Ctx) /\ inputs' \in Nat
    BY <1>4, <2>1 DEF QueueCross
  <2>3. \A i \in 1 .. Len(queue') : CrossTx(queue'[i])
    <3>1. queue' = Append(queue, NewCtx(t)) /\ CrossTx(NewCtx(t))
      BY <1>4, <2>1 DEF QueueCross, CrossTx
    <3>2. queue \in Seq(Ctx) /\ \A i \in 1 .. Len(queue) : CrossTx(queue[i])
      BY DEF CurInv
    <3>3. \A i \in 1 .. Len(queue) : queue'[i] = queue[i]
      BY <2>1, <3>1, <3>2
    <3>4. Len(queue') = Len(queue) + 1 /\ queue'[Len(queue) + 1] = NewCtx(t)
      BY <2>1, <3>1, <3>2
    <3>5. Len(queue) \in Nat
      BY <3>2
    <3>6. ASSUME NEW i \in 1 .. Len(queue') PROVE CrossTx(queue'[i])
      <4>1. i \in 1 .. Len(queue) \/ i = Len(queue) + 1
        BY <3>4, <3>5
      <4> QED BY <3>1, <3>2, <3>3, <3>4, <4>1
    <3> QED BY <3>6 DEF CrossTx, IsCrossShard
  <2> QED BY <1>4, <2>2, <2>3 DEF QueueCross, CurInv, Busy, CrossTx, IsCrossShard
<1>5. ASSUME NEW t \in Tx, ApplySameShard(t)
      PROVE  TypeInv'
  <2>1. t.from \in Account /\ t.to \in Account /\ t.amount \in Nat /\ t.nonce \in Nat
    BY TxFields
  <2>2. balance' \in [Account -> Nat]
    BY <1>5, <2>1 DEF ApplySameShard, ValidInShard
  <2>3. nonce' \in [Account -> Nat] /\ known' \subseteq Account /\ block' \in Seq(Tx) /\ inputs' \in Nat
    BY <1>5, <2>1 DEF ApplySameShard
  <2> QED BY <1>5, <2>2, <2>3 DEF ApplySameShard, CurInv, Busy, CrossTx, IsCrossShard
<1>6. CASE BeginQueue
  BY <1>6 DEF BeginQueue, CurInv, Busy, Point, CrossTx, IsCrossShard
<1> QED BY <1>1, <1>2, <1>3, <1>4, <1>5, <1>6 DEF Funding, Offering

LEMMA LoopType ==
  ASSUME TypeInv, TakeNext \/ EndQueue \/ SkipProcessed
  PROVE  TypeInv'
<1> USE DEF TypeInv, TypeOK
<1>1. CASE TakeNext
  <2>1. cur' \in Ctx /\ CrossTx(cur') /\ queue' \in Seq(Ctx)
    BY <1>1 DEF TakeNext, CurInv
  <2>2. \A i \in 1 .. Len(queue') : CrossTx(queue'[i])
    BY <1>1 DEF TakeNext, CurInv
  <2>3. pc' \in Busy /\ pc' \in Point /\ cur' # NoCtx
    BY <1>1, <2>1 DEF TakeNext, Busy, Point, LogPoint
  <2>4. UNCHANGED <<balance, known, nonce, failed, wal, processed, locks, block,
                   inputs, net>>
    BY <1>1 DEF TakeNext
  <2>5. TypeOK'
    BY <2>1, <2>3, <2>4
  <2>6. CurInv'
    BY <2>1, <2>2, <2>3, <2>4 DEF CurInv, CrossTx, IsCrossShard
  <2> QED BY <2>5, <2>6
<1>2. CASE EndQueue
  BY <1>2 DEF EndQueue, CurInv, Busy, Point, CrossTx, IsCrossShard
<1>3. CASE SkipProcessed
  <2>1. cur \in Ctx /\ cur.tx \in Tx
    BY <1>3, CtxUpdate DEF SkipProcessed, CurInv, Busy
  <2> QED BY <1>3, <2>1 DEF SkipProcessed, Succeed, CurInv, Busy, Point, CrossTx, IsCrossShard
<1> QED BY <1>1, <1>2, <1>3

LEMMA LoggingType ==
  ASSUME TypeInv,
         LogStart \/ LogPreparing \/ LogPrepared \/ LogCommitting
           \/ LogCommitted \/ LogAborting
  PROVE  TypeInv'
<1>1. PICK s \in CommitState :
        /\ pc \in Busy /\ WriteLog(s) /\ pc' \in Busy
        /\ UNCHANGED <<balance, known, nonce, queue, failed, processed, locks,
                       block, inputs, net>>
  <2>1. pc \in Busy => cur \in Ctx /\ cur.state \in CommitState
    BY CtxUpdate DEF TypeInv, TypeOK, CurInv
  <2> QED BY <2>1 DEF LogStart, LogPreparing, LogPrepared, LogCommitting,
                      LogCommitted, LogAborting, LogStep, Busy, CommitState
<1>2. /\ cur' \in Ctx /\ cur'.tx = cur.tx
      /\ wal' \in [Tx -> Ctx \cup {NoCtx}]
  BY <1>1, WriteLogType
<1>3. TypeOK'
  BY <1>1, <1>2 DEF TypeInv, TypeOK, Busy, Point, TimeoutPoint, LogPoint
<1>4. CurInv'
  BY <1>1, <1>2 DEF TypeInv, TypeOK, CurInv, CrossTx, IsCrossShard
<1> QED BY <1>3, <1>4 DEF TypeInv

LEMMA PrepareType ==
  ASSUME TypeInv,
         AcquireLock \/ LockIsTaken \/ ValidateSender \/ RejectSender
           \/ CaptureProof \/ Timeout
  PROVE  TypeInv'
<1>1. pc \in Busy /\ pc' \in Busy
  BY DEF AcquireLock, LockIsTaken, ValidateSender, RejectSender, CaptureProof,
         Timeout, Busy, TimeoutPoint
<1>2. /\ cur \in Ctx /\ cur.tx \in Tx /\ CrossTx(cur)
      /\ cur.tx.from \in Account /\ cur.tx.nonce \in Nat
  BY <1>1, CtxUpdate, TxFields DEF TypeInv, TypeOK, CurInv
<1>3. cur' \in Ctx /\ cur'.tx = cur.tx
  <2>1. CASE ValidateSender
    <3>1. Captured \in RollbackData
      BY <1>2 DEF Captured, RollbackData, TypeInv, TypeOK
    <3>2. cur' = [cur EXCEPT !.rollback = Captured]
      BY <2>1 DEF ValidateSender
    <3> QED BY <1>2, <3>1, <3>2, CtxUpdate DEF Ctx
  <2>2. CASE ~ValidateSender
    BY <1>2, <2>2 DEF AcquireLock, LockIsTaken, RejectSender, CaptureProof, Timeout
  <2> QED BY <2>1, <2>2
<1>4. locks' \subseteq Account \X Nat
  BY <1>2 DEF AcquireLock, LockIsTaken, ValidateSender, RejectSender,
      CaptureProof, Timeout, Locked, Released, LockKey, TypeInv, TypeOK
<1>5. UNCHANGED <<balance, known, nonce, queue, failed, wal, processed, block,
                 inputs, net>>
  BY DEF AcquireLock, LockIsTaken, ValidateSender, RejectSender, CaptureProof,
         Timeout
<1>6. TypeOK'
  BY <1>1, <1>3, <1>4, <1>5 DEF TypeInv, TypeOK, Busy, Point, TimeoutPoint, LogPoint
<1>7. CurInv'
  BY <1>1, <1>2, <1>3, <1>5 DEF TypeInv, TypeOK, CurInv, CrossTx, IsCrossShard
<1> QED BY <1>6, <1>7 DEF TypeInv

LEMMA CommitType ==
  ASSUME TypeInv, DebitSource \/ CreditDestination \/ UpdateMerkle
  PROVE  TypeInv'
<1>1. pc \in Busy /\ pc' \in Busy
  BY DEF DebitSource, CreditDestination, UpdateMerkle, Busy
<1>2. /\ cur \in Ctx /\ cur.tx \in Tx /\ CrossTx(cur)
      /\ cur.tx.from \in Account /\ cur.tx.to \in Account
      /\ cur.tx.nonce \in Nat /\ cur.tx.amount \in Nat
  BY <1>1, CtxUpdate, TxFields DEF TypeInv, TypeOK, CurInv
<1>3. balance' \in [Account -> Nat] /\ nonce' \in [Account -> Nat] /\ known' \subseteq Account
  <2>1. CASE DebitSource
    <3>1. CASE cur.tx.from \in known /\ balance[cur.tx.from] >= cur.tx.amount
      <4>1. balance' = [balance EXCEPT ![cur.tx.from] = @ - cur.tx.amount]
        BY <2>1, <3>1 DEF DebitSource
      <4>2. nonce' = [nonce EXCEPT ![cur.tx.from] = cur.tx.nonce + 1] /\ known' = known
        BY <2>1, <3>1 DEF DebitSource, NonceAfter
      <4>3. balance[cur.tx.from] - cur.tx.amount \in Nat
        BY <1>2, <3>1 DEF TypeInv, TypeOK
      <4>4. balance' \in [Account -> Nat]
        BY <1>2, <4>1, <4>3 DEF TypeInv, TypeOK
      <4>5. cur.tx.nonce + 1 \in Nat
        BY <1>2
      <4>6. nonce' \in [Account -> Nat]
        BY <1>2, <4>2, <4>5 DEF TypeInv, TypeOK
      <4> QED BY <4>2, <4>4, <4>6 DEF TypeInv, TypeOK
    <3>2. CASE ~(cur.tx.from \in known /\ balance[cur.tx.from] >= cur.tx.amount)
      BY <2>1, <3>2 DEF DebitSource, TypeInv, TypeOK
    <3> QED BY <3>1, <3>2
  <2>2. CASE CreditDestination
    BY <1>2, <2>2 DEF CreditDestination, Credited, TypeInv, TypeOK
  <2>3. CASE UpdateMerkle
    BY <2>3 DEF UpdateMerkle, TypeInv, TypeOK
  <2> QED BY <2>1, <2>2, <2>3
<1>4. UNCHANGED <<cur, queue, failed, wal, processed, locks, block, inputs, net>>
  BY DEF DebitSource, CreditDestination, UpdateMerkle
<1>5. TypeOK'
  BY <1>1, <1>3, <1>4 DEF TypeInv, TypeOK, Busy, Point, TimeoutPoint, LogPoint
<1>6. CurInv'
  BY <1>1, <1>2, <1>4 DEF TypeInv, TypeOK, CurInv, CrossTx, IsCrossShard
<1> QED BY <1>5, <1>6 DEF TypeInv

(* The steps that take the transaction out of the two-phase commit. *)
LEMMA LeaveType ==
  ASSUME TypeInv, Finish \/ Rollback \/ LogFails
  PROVE  TypeInv'
<1>1. pc \in Busy
  BY DEF Finish, Rollback, LogFails, Busy, LogPoint
<1>2. /\ cur \in Ctx /\ cur.tx \in Tx /\ CrossTx(cur) /\ cur.state \in CommitState
      /\ cur.tx.from \in Account /\ cur.tx.nonce \in Nat
  BY <1>1, CtxUpdate, TxFields DEF TypeInv, TypeOK, CurInv
<1>3. \A s \in CommitState :
        [cur EXCEPT !.state = s] \in Ctx /\ CrossTx([cur EXCEPT !.state = s])
  BY <1>2, CtxUpdate DEF CrossTx, Ctx
<1>4. CASE Finish
  BY <1>2, <1>4 DEF Finish, Succeed, Released, LogRemoved, TypeInv, TypeOK,
     CurInv, Busy, Point, CrossTx, IsCrossShard
<1>5. CASE Rollback
  <2> DEFINE d == [cur EXCEPT !.state = "Aborted"]
  <2>1. d \in Ctx /\ CrossTx(d) /\ Fail(d)
    BY <1>3, <1>5 DEF Rollback, CommitState
  <2>2. failed' \in Seq(Ctx) /\ \A i \in 1 .. Len(failed') : CrossTx(failed'[i])
    BY <2>1, FailType
  <2>3. balance' \in [Account -> Nat] /\ nonce' \in [Account -> Nat]
    BY <1>1, <1>5, RollbackType DEF Rollback
  <2>4. cur' = NoCtx /\ pc' = "take"
    BY <1>5 DEF Rollback, Fail
  <2>5. locks' \subseteq Account \X Nat /\ wal' \in [Tx -> Ctx \cup {NoCtx}]
    BY <1>2, <1>5 DEF Rollback, Released, LogRemoved, TypeInv, TypeOK
  <2>6. UNCHANGED <<known, queue, processed, block, inputs, net>>
    BY <1>5 DEF Rollback
  <2> HIDE DEF d
  <2>7. TypeOK'
    BY <2>2, <2>3, <2>4, <2>5, <2>6 DEF TypeInv, TypeOK, Point
  <2>8. CurInv'
    BY <2>2, <2>4, <2>6 DEF TypeInv, CurInv, Busy, CrossTx, IsCrossShard
  <2> QED BY <2>7, <2>8 DEF TypeInv
<1>6. CASE LogFails
  <2>1. StateLoggedAt(pc) \in CommitState
    BY <1>2, <1>6 DEF LogFails, StateLoggedAt, LogPoint, CommitState
  <2> DEFINE d == [cur EXCEPT !.state = StateLoggedAt(pc)]
  <2>2. d \in Ctx /\ CrossTx(d)
    BY <1>3, <2>1
  <2>3. Fail(d)
    BY <1>6 DEF LogFails
  <2> HIDE DEF d
  <2>4. failed' \in Seq(Ctx) /\ \A i \in 1 .. Len(failed') : CrossTx(failed'[i])
    BY <2>2, <2>3, FailType
  <2>5. cur' = NoCtx /\ pc' = "take"
    BY <2>3 DEF Fail
  <2>6. wal' \in [Tx -> Ctx \cup {NoCtx}]
    BY <1>2, <1>6 DEF LogFails, TypeInv, TypeOK
  <2>7. UNCHANGED <<balance, known, nonce, queue, processed, locks, block, inputs, net>>
    BY <1>6 DEF LogFails
  <2>8. TypeOK'
    BY <2>4, <2>5, <2>6, <2>7 DEF TypeInv, TypeOK, Point
  <2>9. CurInv'
    BY <2>4, <2>5, <2>7 DEF TypeInv, CurInv, Busy, CrossTx, IsCrossShard
  <2> QED BY <2>8, <2>9 DEF TypeInv
<1> QED BY <1>4, <1>5, <1>6

LEMMA StepType == TypeInv /\ Moves => TypeInv'
<1> SUFFICES ASSUME TypeInv, Moves PROVE TypeInv'
  OBVIOUS
<1>1. CASE UNCHANGED vars
  BY <1>1 DEF vars, TypeInv, TypeOK, CurInv, CrossTx, IsCrossShard
<1>2. CASE BeginBlock \/ Funding \/ Offering \/ BeginQueue
  BY <1>2, BetweenType DEF Moves
<1>3. CASE QueuePass \/ Timeout \/ LogFails
  BY <1>3, LoopType, LoggingType, PrepareType, CommitType, LeaveType
     DEF QueuePass, Prepare, Commit, Abort
<1> QED BY <1>1, <1>2, <1>3 DEF Moves

(* Every reachable state is well typed: balances and nonces stay natural   *)
(* numbers (checked_sub never underflows), and no transaction is retried   *)
(* more often than MAX_RETRY_ATTEMPTS allows.                              *)
THEOREM TypeCorrect == Spec => []TypeOK
<1>1. Init => TypeInv
  BY InitType
<1>2. TypeInv /\ [Next]_vars => TypeInv'
  BY StepType, NextMoves DEF TypeInv
<1>3. TypeInv => TypeOK
  BY DEF TypeInv
<1> QED BY <1>1, <1>2, <1>3, PTL DEF Spec

-----------------------------------------------------------------------------
(* Locks, rollback data and log during the two-phase commit, whatever      *)
(* faults strike.  UndoDataDurable and CommitIsLocked are not inductive:   *)
(* one needs to know that the sender has not changed since it was          *)
(* validated, that the Committing record was written with the data         *)
(* captured then, and which nonce the debit left.                          *)

SenderUnchanged ==
  pc \in {"proof", "prepared", "committing", "debit"} =>
    /\ cur.rollback = Captured
    /\ cur.tx.from \in known
    /\ ValidInShard(cur.tx)

CommittingLogged ==
  pc = "debit" => wal[cur.tx] = cur /\ cur.state = "Committing"

NonceUsed ==
  pc \in {"credit", "merkle", "committed", "finish"} =>
    nonce[cur.tx.from] = cur.tx.nonce + 1

CommitInv ==
  /\ TypeInv
  /\ CommitIsLocked
  /\ SenderUnchanged
  /\ CommittingLogged
  /\ UndoDataDurable
  /\ NonceUsed

(* The control points about which CommitInv says nothing beyond the types. *)
Unconstrained == {"idle", "batch", "take", "start", "preparing", "lock",
                  "aborting", "rollback"}

LEMMA UnconstrainedCommit ==
  ASSUME TypeInv', pc' \in Unconstrained
  PROVE  CommitInv'
  BY DEF Unconstrained, CommitInv, CommitIsLocked, SenderUnchanged,
         CommittingLogged, UndoDataDurable, NonceUsed

LEMMA CurFields ==
  ASSUME TypeInv, pc \in Busy
  PROVE  /\ cur \in Ctx /\ cur.tx \in Tx
         /\ cur.tx.from \in Account /\ cur.tx.to \in Account
         /\ cur.tx.amount \in Nat /\ cur.tx.amount > 0 /\ cur.tx.nonce \in Nat
         /\ cur.tx.from # cur.tx.to
         /\ balance[cur.tx.from] \in Nat /\ nonce[cur.tx.from] \in Nat
<1>1. cur \in Ctx /\ cur.tx \in Tx
  BY CtxUpdate DEF TypeInv, TypeOK, CurInv
<1>2. cur.tx.from # cur.tx.to
  BY DEF TypeInv, CurInv, CrossTx, IsCrossShard
<1> QED BY <1>1, <1>2, TxFields DEF TypeInv, TypeOK

LEMMA StepCommit == CommitInv /\ Moves => CommitInv'
<1> SUFFICES ASSUME CommitInv, Moves PROVE CommitInv'
  OBVIOUS
<1>1. TypeInv /\ TypeInv'
  BY StepType DEF CommitInv
<1> USE <1>1
<1>2. CASE UNCHANGED vars
  BY <1>2 DEF vars, CommitInv, CommitIsLocked, SenderUnchanged, Captured,
     ValidInShard, CommittingLogged, UndoDataDurable, NonceUsed, LockKey
<1>3. CASE BeginBlock \/ Funding \/ Offering \/ BeginQueue \/ TakeNext \/ EndQueue \/ SkipProcessed \/ LogStart
           \/ LogPreparing \/ LockIsTaken \/ RejectSender \/ Finish \/ Abort
           \/ Timeout \/ LogFails
  <2>1. pc' \in Unconstrained
    BY <1>3 DEF Offering, Funding, BeginBlock, AddBalance, DeductBalance, QueueCross,
       ApplySameShard, BeginQueue, TakeNext, EndQueue, SkipProcessed, Succeed,
       LogStart, LogPreparing, LogStep, LockIsTaken, RejectSender, Finish, Abort,
       LogAborting, Rollback, Fail, Timeout, LogFails, Unconstrained
  <2> QED BY <2>1, UnconstrainedCommit
<1>4. CASE AcquireLock
  BY <1>4 DEF AcquireLock, Locked, LockKey, CommitInv, CommitIsLocked,
     SenderUnchanged, CommittingLogged, UndoDataDurable, NonceUsed
<1>5. CASE ValidateSender
  <2>1. cur' = [cur EXCEPT !.rollback = Captured] /\ cur \in Ctx
    BY <1>5, CurFields DEF ValidateSender, Busy
  <2>2. cur'.tx = cur.tx /\ cur'.rollback = Captured
    BY <2>1 DEF Ctx
  <2>3. UNCHANGED <<balance, known, nonce, locks>> /\ pc = "validate" /\ pc' = "proof"
    BY <1>5 DEF ValidateSender
  <2>4. SenderUnchanged'
    BY <1>5, <2>2, <2>3 DEF ValidateSender, SenderUnchanged, Captured, ValidInShard
  <2>5. CommitIsLocked'
    BY <2>2, <2>3 DEF CommitInv, CommitIsLocked, LockKey
  <2> QED BY <2>3, <2>4, <2>5 DEF CommitInv, CommittingLogged, UndoDataDurable, NonceUsed
<1>6. CASE CaptureProof
  BY <1>6 DEF CaptureProof, CommitInv, CommitIsLocked, SenderUnchanged, Captured,
     ValidInShard, LockKey, CommittingLogged, UndoDataDurable, NonceUsed
<1>7. CASE LogPrepared \/ LogCommitting \/ LogCommitted
  <2>1. PICK s \in CommitState : WriteLog(s) /\ pc \in Busy
    BY <1>7 DEF LogPrepared, LogCommitting, LogCommitted, LogStep, CommitState, Busy
  <2>2. /\ cur' \in Ctx /\ cur'.tx = cur.tx /\ cur'.rollback = cur.rollback
        /\ cur'.state = s
    BY <2>1, WriteLogType
  <2>3. wal'[cur'.tx] = cur'
    BY <2>1, <2>2, CurFields DEF WriteLog, TypeInv, TypeOK
  <2>4. UNCHANGED <<balance, known, nonce, locks>>
    BY <1>7 DEF LogPrepared, LogCommitting, LogCommitted, LogStep
  <2>5. CASE LogPrepared
    BY <2>2, <2>4, <2>5 DEF LogPrepared, LogStep, CommitInv, CommitIsLocked,
       SenderUnchanged, Captured, ValidInShard, LockKey, CommittingLogged,
       UndoDataDurable, NonceUsed
  <2>6. CASE LogCommitting
    <3>1. cur'.state = "Committing"
      BY <2>6, CurFields DEF LogCommitting, LogStep, WriteLog, Ctx, Busy
    <3> QED BY <2>2, <2>3, <2>4, <2>6, <3>1 DEF LogCommitting, LogStep, CommitInv,
       CommitIsLocked, SenderUnchanged, Captured, ValidInShard, LockKey,
       CommittingLogged, UndoDataDurable, NonceUsed
  <2>7. CASE LogCommitted
    BY <2>2, <2>4, <2>7 DEF LogCommitted, LogStep, CommitInv, CommitIsLocked,
       SenderUnchanged, LockKey, CommittingLogged, UndoDataDurable, NonceUsed
  <2> QED BY <1>7, <2>5, <2>6, <2>7
<1>8. CASE DebitSource
  <2>1. pc = "debit" /\ pc \in Busy
    BY <1>8 DEF DebitSource, Busy
  <2>2. /\ cur.tx.from \in known /\ balance[cur.tx.from] >= cur.tx.amount
        /\ nonce[cur.tx.from] = cur.tx.nonce /\ cur.rollback = Captured
        /\ wal[cur.tx] = cur /\ cur.state = "Committing" /\ LockKey(cur) \in locks
    BY <2>1 DEF CommitInv, CommitIsLocked, SenderUnchanged, ValidInShard, CommittingLogged
  <2>3. /\ balance' = [balance EXCEPT ![cur.tx.from] = @ - cur.tx.amount]
        /\ nonce' = [nonce EXCEPT ![cur.tx.from] = cur.tx.nonce + 1]
        /\ pc' = "credit" /\ UNCHANGED <<cur, wal, locks>>
    BY <1>8, <2>2 DEF DebitSource, NonceAfter
  <2>4. /\ balance'[cur.tx.from] = balance[cur.tx.from] - cur.tx.amount
        /\ nonce'[cur.tx.from] = cur.tx.nonce + 1
    BY <2>1, <2>3, CurFields DEF TypeInv, TypeOK
  <2>5. /\ balance'[cur.tx.from] + cur.tx.amount = balance[cur.tx.from]
        /\ nonce'[cur.tx.from] - 1 = nonce[cur.tx.from]
    BY <2>1, <2>2, <2>4, CurFields
  <2>6. UndoDataDurable'
    BY <2>2, <2>3, <2>5 DEF UndoDataDurable, Captured
  <2>7. CommitIsLocked'
    BY <2>2, <2>3 DEF CommitIsLocked, LockKey
  <2> QED BY <2>3, <2>4, <2>6, <2>7 DEF CommitInv, SenderUnchanged, CommittingLogged, NonceUsed
<1>9. CASE CreditDestination
  <2>1. pc = "credit" /\ pc \in Busy
    BY <1>9 DEF CreditDestination, Busy
  <2>2. balance'[cur.tx.from] = balance[cur.tx.from]
    BY <1>9, <2>1, CurFields DEF CreditDestination, TypeInv, TypeOK
  <2>3. pc' = "merkle" /\ UNCHANGED <<nonce, cur, wal, locks>>
    BY <1>9 DEF CreditDestination
  <2> QED BY <2>1, <2>2, <2>3 DEF CommitInv, CommitIsLocked, SenderUnchanged,
      LockKey, CommittingLogged, UndoDataDurable, NonceUsed
<1>10. CASE UpdateMerkle
  BY <1>10 DEF UpdateMerkle, CommitInv, CommitIsLocked, SenderUnchanged,
     LockKey, CommittingLogged, UndoDataDurable, NonceUsed
<1> QED BY <1>2, <1>3, <1>4, <1>5, <1>6, <1>7, <1>8, <1>9, <1>10
        DEF Moves, QueuePass, Prepare, Commit

LEMMA CommitInvariant == Spec => []CommitInv
<1>1. Init => CommitInv
  BY InitType DEF Init, CommitInv, CommitIsLocked, SenderUnchanged,
     CommittingLogged, UndoDataDurable, NonceUsed
<1>2. CommitInv /\ [Next]_vars => CommitInv'
  BY StepCommit, NextMoves DEF CommitInv, TypeInv
<1> QED BY <1>1, <1>2, PTL DEF Spec

(* Whatever timeouts and log errors strike and however often a transaction *)
(* is retried: while a commit phase has moved funds, the log on disk holds *)
(* the sender's exact balance and nonce from before.                       *)
THEOREM UndoDataIsDurable == Spec => []UndoDataDurable
<1>1. CommitInv => UndoDataDurable
  BY DEF CommitInv
<1> QED BY <1>1, CommitInvariant, PTL

(* Under the same faults, the pair of sender and nonce stays locked from   *)
(* the validation of the sender to the end of the commit.                  *)
THEOREM CommitStaysLocked == Spec => []CommitIsLocked
<1>1. CommitInv => CommitIsLocked
  BY DEF CommitInv
<1> QED BY <1>1, CommitInvariant, PTL

-----------------------------------------------------------------------------
(* With faults confined to the time before rollback data is captured, an   *)
(* attempt that is given up has nothing to undo.  What the coordinator     *)
(* implements then rests on no queued transaction carrying the rollback    *)
(* data of an earlier attempt.                                             *)

NothingToUndo(c) == c.rollback = NoRollback

NoStaleRollback ==
  /\ \A i \in 1 .. Len(queue) : NothingToUndo(queue[i])
  /\ \A i \in 1 .. Len(failed) : NothingToUndo(failed[i])
  /\ pc \in {"start", "preparing", "lock", "validate", "aborting", "rollback"}
       => NothingToUndo(cur)

EarlyInv == CommitInv /\ NoStaleRollback /\ ProcessedIsSpent

(* The error path hands on no rollback data it was not given. *)
LEMMA FailKeepsClean ==
  ASSUME TypeInv, NoStaleRollback, NEW c \in Ctx, NothingToUndo(c), Fail(c)
  PROVE  \A i \in 1 .. Len(failed') : NothingToUndo(failed'[i])
<1> DEFINE d == [c EXCEPT !.retry = @ + 1]
<1>1. CASE c.retry + 1 < MaxAttempts
  <2>1. d \in Ctx /\ NothingToUndo(d)
    BY <1>1, CtxUpdate DEF Ctx, NothingToUndo
  <2>2. failed' = Append(failed, d)
    BY <1>1 DEF Fail
  <2> HIDE DEF d
  <2>3. failed \in Seq(Ctx) /\ \A i \in 1 .. Len(failed) : NothingToUndo(failed[i])
    BY DEF TypeInv, TypeOK, NoStaleRollback
  <2>4. Len(failed') = Len(failed) + 1 /\ failed'[Len(failed) + 1] = d
    BY <2>1, <2>2, <2>3
  <2>5. \A i \in 1 .. Len(failed) : failed'[i] = failed[i]
    BY <2>1, <2>2, <2>3
  <2>6. Len(failed) \in Nat
    BY <2>3
  <2> QED BY <2>1, <2>3, <2>4, <2>5, <2>6 DEF NothingToUndo
<1>2. CASE ~(c.retry + 1 < MaxAttempts)
  BY <1>2 DEF Fail, NoStaleRollback
<1> QED BY <1>1, <1>2

(* An aborted attempt leaves balances and nonces alone. *)
LEMMA RollbackIsStutter ==
  ASSUME NoStaleRollback, Rollback
  PROVE  UNCHANGED <<balance, nonce, net>>
  BY DEF Rollback, UndoEffects, NoStaleRollback, NothingToUndo

(* Validation still holds at the debit, so a commit phase never aborts. *)
LEMMA DebitSucceeds ==
  ASSUME CommitInv, DebitSource
  PROVE  /\ pc = "debit" /\ pc \in Busy /\ pc' = "credit"
         /\ balance[cur.tx.from] >= cur.tx.amount
         /\ nonce[cur.tx.from] = cur.tx.nonce
         /\ balance' = [balance EXCEPT ![cur.tx.from] = @ - cur.tx.amount]
         /\ nonce' = [nonce EXCEPT ![cur.tx.from] = cur.tx.nonce + 1]
         /\ UNCHANGED <<cur, queue, failed, processed, net>>
<1>1. pc = "debit"
  BY DEF DebitSource
<1>2. /\ cur.tx.from \in known /\ balance[cur.tx.from] >= cur.tx.amount
      /\ nonce[cur.tx.from] = cur.tx.nonce
  BY <1>1 DEF CommitInv, SenderUnchanged, ValidInShard
<1> QED BY <1>1, <1>2 DEF DebitSource, NonceAfter, Busy

LEMMA StepNoStaleRollback ==
  ASSUME EarlyFaultsOnly, CommitInv, NoStaleRollback, Moves
  PROVE  NoStaleRollback'
<1>1. TypeInv /\ TypeInv'
  BY StepType DEF CommitInv
<1> USE <1>1
<1>2. CASE UNCHANGED vars
  BY <1>2 DEF vars, NoStaleRollback, NothingToUndo
<1>3. CASE BeginBlock \/ Funding \/ BeginQueue
  BY <1>3 DEF Funding, BeginBlock, AddBalance, DeductBalance, BeginQueue,
     NoStaleRollback, NothingToUndo
<1>4. ASSUME NEW t \in Tx, QueueCross(t)
      PROVE  NoStaleRollback'
  <2>1. NewCtx(t) \in Ctx /\ NothingToUndo(NewCtx(t))
    BY NewCtxType DEF NewCtx, NothingToUndo
  <2>2. queue' = Append(queue, NewCtx(t)) /\ UNCHANGED <<failed, pc, cur>>
    BY <1>4 DEF QueueCross
  <2>3. \A i \in 1 .. Len(queue') : NothingToUndo(queue'[i])
    BY <2>1, <2>2 DEF TypeInv, TypeOK, NoStaleRollback, NothingToUndo
  <2> QED BY <2>2, <2>3 DEF NoStaleRollback, NothingToUndo
<1>5. ASSUME NEW t \in Tx, ApplySameShard(t)
      PROVE  NoStaleRollback'
  BY <1>5 DEF ApplySameShard, NoStaleRollback, NothingToUndo
<1>6. CASE TakeNext
  <2>1. queue # << >> /\ queue' = Tail(queue) /\ cur' = Head(queue)
    BY <1>6 DEF TakeNext
  <2>2. \A i \in 1 .. Len(queue') : NothingToUndo(queue'[i])
    BY <2>1 DEF TypeInv, TypeOK, NoStaleRollback
  <2>3. NothingToUndo(cur')
    BY <2>1 DEF TypeInv, TypeOK, NoStaleRollback
  <2> QED BY <1>6, <2>2, <2>3 DEF TakeNext, NoStaleRollback, NothingToUndo
<1>7. CASE EndQueue \/ SkipProcessed \/ Finish
  BY <1>7 DEF EndQueue, SkipProcessed, Finish, Succeed, NoStaleRollback, NothingToUndo
<1>8. CASE LogStart \/ LogPreparing \/ LogPrepared \/ LogCommitting
           \/ LogCommitted \/ LogAborting
  <2>1. PICK s \in CommitState : pc \in Busy /\ WriteLog(s)
    <3>1. pc \in Busy => cur.state \in CommitState
      BY CtxUpdate, CurFields
    <3> QED BY <1>8, <3>1 DEF LogStart, LogPreparing, LogPrepared, LogCommitting,
        LogCommitted, LogAborting, LogStep, Busy, CommitState
  <2>2. cur'.rollback = cur.rollback
    BY <2>1, WriteLogType
  <2> QED BY <1>8, <2>2 DEF LogStart, LogPreparing, LogPrepared, LogCommitting,
      LogCommitted, LogAborting, LogStep, NoStaleRollback, NothingToUndo
<1>9. CASE AcquireLock \/ LockIsTaken \/ ValidateSender \/ RejectSender
           \/ CaptureProof \/ CreditDestination \/ UpdateMerkle
  BY <1>9 DEF AcquireLock, LockIsTaken, ValidateSender, RejectSender, CaptureProof,
     CreditDestination, UpdateMerkle, NoStaleRollback, NothingToUndo
<1>10. CASE DebitSource
  BY <1>10, DebitSucceeds DEF NoStaleRollback, NothingToUndo
<1>11. CASE Rollback
  <2> DEFINE d == [cur EXCEPT !.state = "Aborted"]
  <2>1. cur \in Ctx /\ NothingToUndo(cur)
    BY <1>11, CurFields DEF Rollback, Busy, NoStaleRollback
  <2>2. d \in Ctx /\ NothingToUndo(d) /\ Fail(d)
    BY <1>11, <2>1, CtxUpdate DEF Rollback, CommitState, Ctx, NothingToUndo
  <2>3. pc' = "take" /\ queue' = queue
    BY <1>11 DEF Rollback, Fail
  <2> HIDE DEF d
  <2> QED BY <2>2, <2>3, FailKeepsClean DEF NoStaleRollback, NothingToUndo
<1>12. CASE Timeout
  BY <1>12 DEF Timeout, EarlyFaultsOnly, NoStaleRollback, NothingToUndo
<1>13. CASE LogFails
  <2>1. pc \in Busy /\ pc \in {"start", "preparing", "aborting"}
    BY <1>13 DEF LogFails, EarlyFaultsOnly, Busy
  <2>2. cur \in Ctx /\ NothingToUndo(cur)
    BY <2>1, CurFields DEF NoStaleRollback
  <2>3. StateLoggedAt(pc) \in CommitState
    BY <2>1, <2>2, CtxUpdate DEF StateLoggedAt, CommitState
  <2> DEFINE d == [cur EXCEPT !.state = StateLoggedAt(pc)]
  <2>4. d \in Ctx /\ NothingToUndo(d)
    BY <2>2, <2>3, CtxUpdate DEF Ctx, NothingToUndo
  <2>5. Fail(d) /\ queue' = queue
    BY <1>13 DEF LogFails
  <2>6. pc' = "take"
    BY <2>5 DEF Fail
  <2> HIDE DEF d
  <2> QED BY <2>4, <2>5, <2>6, FailKeepsClean DEF NoStaleRollback, NothingToUndo
<1> QED BY <1>2, <1>3, <1>4, <1>5, <1>6, <1>7, <1>8, <1>9, <1>10, <1>11, <1>12,
        <1>13 DEF Moves, Offering, QueuePass, Prepare, Commit, Abort

(* No step takes a used nonce back. *)
LEMMA NoncesGrow ==
  ASSUME CommitInv, NoStaleRollback, Moves
  PROVE  \A a \in Account : nonce'[a] >= nonce[a]
<1>1. TypeInv
  BY DEF CommitInv
<1>2. CASE nonce' = nonce
  BY <1>1, <1>2 DEF TypeInv, TypeOK
<1>3. ASSUME NEW t \in Tx, ApplySameShard(t)
      PROVE  \A a \in Account : nonce'[a] >= nonce[a]
  <2>1. t.from \in Account /\ t.nonce \in Nat /\ nonce \in [Account -> Nat]
    BY <1>1, TxFields DEF TypeInv, TypeOK
  <2>2. nonce[t.from] = t.nonce /\ nonce' = [nonce EXCEPT ![t.from] = t.nonce + 1]
    BY <1>3 DEF ApplySameShard, ValidInShard
  <2> QED BY <2>1, <2>2
<1>4. CASE DebitSource
  <2> DEFINE s == cur.tx.from
             n == cur.tx.nonce
  <2>1. /\ s \in Account /\ n \in Nat /\ nonce \in [Account -> Nat]
        /\ nonce[s] = n /\ nonce' = [nonce EXCEPT ![s] = n + 1]
    BY <1>1, <1>4, DebitSucceeds, CurFields DEF TypeInv, TypeOK
  <2> HIDE DEF s, n
  <2> QED BY <2>1
<1>5. CASE Rollback
  BY <1>2, <1>5, RollbackIsStutter
<1> QED BY <1>2, <1>3, <1>4, <1>5 DEF Moves, Funding, BeginBlock, AddBalance,
    DeductBalance, Offering, QueueCross, BeginQueue, QueuePass, TakeNext, EndQueue,
    SkipProcessed, Prepare, LogStart, LogPreparing, AcquireLock, LockIsTaken,
    ValidateSender, RejectSender, CaptureProof, LogPrepared, Commit, LogCommitting,
    CreditDestination, UpdateMerkle, LogCommitted, Finish, Abort, LogAborting,
    LogStep, Timeout, LogFails, vars

LEMMA StepProcessed ==
  ASSUME EarlyInv, Moves
  PROVE  ProcessedIsSpent'
<1>1. TypeInv /\ TypeInv'
  BY StepType DEF EarlyInv, CommitInv
<1>2. \A a \in Account : nonce'[a] >= nonce[a]
  BY NoncesGrow DEF EarlyInv
<1>3. processed' = processed \/ (Finish /\ processed' = processed \cup {cur.tx})
  BY DEF Moves, Funding, BeginBlock, AddBalance, DeductBalance, Offering, QueueCross,
     ApplySameShard, BeginQueue, QueuePass, TakeNext, EndQueue, SkipProcessed,
     Prepare, LogStart, LogPreparing, AcquireLock, LockIsTaken, ValidateSender,
     RejectSender, CaptureProof, LogPrepared, Commit, LogCommitting, DebitSource,
     CreditDestination, UpdateMerkle, LogCommitted, Finish, Abort, LogAborting,
     Rollback, LogStep, Timeout, LogFails, vars
<1>4. \A t \in processed : t.nonce < nonce'[t.from]
  <2> SUFFICES ASSUME NEW t \in processed PROVE t.nonce < nonce'[t.from]
    OBVIOUS
  <2>1. t \in Tx /\ t.nonce < nonce[t.from]
    BY <1>1 DEF EarlyInv, ProcessedIsSpent, TypeInv, TypeOK
  <2>2. t.nonce \in Nat /\ t.from \in Account
    BY <2>1, TxFields
  <2>3. nonce[t.from] \in Nat /\ nonce'[t.from] \in Nat
    BY <1>1, <2>2 DEF TypeInv, TypeOK
  <2> QED BY <1>2, <2>1, <2>2, <2>3
<1>5. CASE Finish
  <2>1. pc = "finish" /\ pc \in Busy /\ nonce' = nonce
    BY <1>5 DEF Finish, Busy
  <2>2. nonce[cur.tx.from] = cur.tx.nonce + 1 /\ cur.tx.nonce \in Nat
    BY <1>1, <2>1, CurFields DEF EarlyInv, CommitInv, NonceUsed
  <2>3. cur.tx.nonce < nonce'[cur.tx.from]
    BY <2>1, <2>2
  <2> QED BY <1>3, <1>4, <2>3 DEF ProcessedIsSpent
<1> QED BY <1>3, <1>4, <1>5 DEF ProcessedIsSpent

LEMMA EarlyMoves == ASSUME EarlyInv, [Next]_vars PROVE Moves
  BY NextMoves DEF EarlyInv, CommitInv, TypeInv

LEMMA StepEarly == ASSUME EarlyFaultsOnly, EarlyInv, Moves PROVE EarlyInv'
  BY StepCommit, StepNoStaleRollback, StepProcessed DEF EarlyInv

LEMMA EarlyInvariant == ASSUME EarlyFaultsOnly PROVE Spec => []EarlyInv
<1>1. Init => EarlyInv
  <2>1. Init => CommitInv
    BY InitType DEF Init, CommitInv, CommitIsLocked, SenderUnchanged,
       CommittingLogged, UndoDataDurable, NonceUsed
  <2>2. Init => NoStaleRollback /\ ProcessedIsSpent
    BY DEF Init, NoStaleRollback, ProcessedIsSpent
  <2> QED BY <2>1, <2>2 DEF EarlyInv
<1>2. EarlyInv /\ [Next]_vars => EarlyInv'
  BY EarlyMoves, StepEarly
<1> QED BY <1>1, <1>2, PTL DEF Spec

(* A transaction with an idempotency key can never be validated again: its *)
(* nonce stays used up through every later retry and abort.                *)
THEOREM ProcessedStaysSpent == ASSUME EarlyFaultsOnly PROVE Spec => []ProcessedIsSpent
<1>1. EarlyInv => ProcessedIsSpent
  BY DEF EarlyInv
<1> QED BY <1>1, EarlyInvariant, PTL

-----------------------------------------------------------------------------
(* Refinement.  A transfer happens, for the ledger, at the debit or at a   *)
(* same-shard execution; deposits and deductions map to the ledger's own;  *)
(* every other step leaves LedgerBalance, nonce and net alone.             *)

LedgerStep == [Ledger!Next]_(Ledger!ledgerVars)

LEMMA SilentStep ==
  ASSUME pc # "credit", pc' # "credit", UNCHANGED <<balance, nonce, net>>
  PROVE  LedgerStep
  BY DEF LedgerStep, LedgerBalance, Ledger!ledgerVars

LEMMA OtherSteps ==
  ASSUME EarlyFaultsOnly, NoStaleRollback,
         \/ BeginBlock \/ BeginQueue \/ (\E t \in Tx : QueueCross(t))
         \/ TakeNext \/ EndQueue \/ SkipProcessed \/ Prepare
         \/ LogCommitting \/ UpdateMerkle \/ LogCommitted \/ Finish
         \/ Abort \/ Timeout \/ LogFails
  PROVE  LedgerStep
<1>1. pc # "credit" /\ pc' # "credit"
  BY DEF BeginBlock, BeginQueue, QueueCross, TakeNext, EndQueue, SkipProcessed,
     Succeed, Prepare, LogStart, LogPreparing, AcquireLock, LockIsTaken,
     ValidateSender, RejectSender, CaptureProof, LogPrepared, LogCommitting,
     UpdateMerkle, LogCommitted, Finish, Abort, LogAborting, Rollback, Fail,
     LogStep, Timeout, LogFails, EarlyFaultsOnly
<1>2. UNCHANGED <<balance, nonce, net>>
  BY RollbackIsStutter DEF BeginBlock, BeginQueue, QueueCross, TakeNext, EndQueue,
     SkipProcessed, Prepare, LogStart, LogPreparing, AcquireLock, LockIsTaken,
     ValidateSender, RejectSender, CaptureProof, LogPrepared, LogCommitting,
     UpdateMerkle, LogCommitted, Finish, Abort, LogAborting, LogStep, Timeout,
     LogFails
<1> QED BY <1>1, <1>2, SilentStep

LEMMA FundingSteps ==
  ASSUME TypeInv, NEW a \in Account, NEW amt \in Amount,
         AddBalance(a, amt) \/ DeductBalance(a, amt)
  PROVE  LedgerStep
<1>1. pc = "idle" /\ pc' = "idle" /\ nonce' = nonce
  BY DEF AddBalance, DeductBalance
<1>2. LedgerBalance = balance /\ LedgerBalance' = balance'
  BY <1>1 DEF LedgerBalance
<1>3. CASE AddBalance(a, amt)
  <2>1. Ledger!Deposit(a, amt)
    BY <1>1, <1>2, <1>3 DEF AddBalance, Ledger!Deposit
  <2> QED BY <2>1 DEF LedgerStep, Ledger!Next
<1>4. CASE DeductBalance(a, amt)
  <2>1. Ledger!Withdraw(a, amt)
    BY <1>1, <1>2, <1>4 DEF DeductBalance, Ledger!Withdraw
  <2> QED BY <2>1 DEF LedgerStep, Ledger!Next
<1> QED BY <1>3, <1>4

LEMMA SameShardStep ==
  ASSUME TypeInv, NEW t \in Tx, ApplySameShard(t)
  PROVE  LedgerStep
<1>1. t.from \in Account /\ t.to \in Account /\ t.amount \in Amount
  OBVIOUS
<1>2. LedgerBalance = balance /\ LedgerBalance' = balance'
  BY DEF ApplySameShard, LedgerBalance
<1>3. nonce' = [nonce EXCEPT ![t.from] = @ + 1]
  BY DEF ApplySameShard, ValidInShard
<1>4. balance[t.from] >= t.amount /\ net' = net
  BY DEF ApplySameShard, ValidInShard
<1>5. LedgerBalance' = Ledger!Moved(t.from, t.to, t.amount)
  BY <1>2 DEF ApplySameShard, Ledger!Moved
<1>6. Ledger!Transfer(t.from, t.to, t.amount)
  BY <1>2, <1>3, <1>4, <1>5 DEF Ledger!Transfer
<1> QED BY <1>1, <1>6 DEF LedgerStep, Ledger!Next

LEMMA DebitStep ==
  ASSUME CommitInv, DebitSource
  PROVE  LedgerStep
<1> DEFINE t == cur.tx
<1>1. t \in Tx /\ t.from \in Account /\ t.to \in Account /\ t.amount \in Amount
  <2>1. t \in Tx
    BY DebitSucceeds, CurFields DEF CommitInv
  <2> HIDE DEF t
  <2> QED BY <2>1
<1>2. /\ pc = "debit" /\ pc' = "credit" /\ t' = t /\ net' = net
      /\ balance[t.from] >= t.amount /\ nonce[t.from] = t.nonce
      /\ balance' = [balance EXCEPT ![t.from] = @ - t.amount]
      /\ nonce' = [nonce EXCEPT ![t.from] = t.nonce + 1]
  BY DebitSucceeds
<1>3. LedgerBalance = balance
  BY <1>2 DEF LedgerBalance
<1>4. LedgerBalance' = [balance' EXCEPT ![t.to] = @ + t.amount]
  BY <1>2 DEF LedgerBalance
<1> HIDE DEF t
<1>5. LedgerBalance' = Ledger!Moved(t.from, t.to, t.amount)
  BY <1>2, <1>3, <1>4 DEF Ledger!Moved
<1>6. nonce' = [nonce EXCEPT ![t.from] = @ + 1]
  BY <1>2
<1>7. Ledger!Transfer(t.from, t.to, t.amount)
  BY <1>2, <1>3, <1>5, <1>6 DEF Ledger!Transfer
<1> QED BY <1>1, <1>7 DEF LedgerStep, Ledger!Next

(* The credit only turns the amount in flight into balance. *)
LEMMA CreditStep ==
  ASSUME CreditDestination
  PROVE  LedgerStep
<1>1. LedgerBalance = [balance EXCEPT ![cur.tx.to] = @ + cur.tx.amount]
  BY DEF CreditDestination, LedgerBalance
<1>2. LedgerBalance' = balance'
  BY DEF CreditDestination, LedgerBalance
<1>3. LedgerBalance' = LedgerBalance /\ UNCHANGED <<nonce, net>>
  BY <1>1, <1>2 DEF CreditDestination, Credited
<1> QED BY <1>3 DEF LedgerStep, Ledger!ledgerVars

LEMMA StepRefines ==
  ASSUME EarlyFaultsOnly, EarlyInv, Moves
  PROVE  LedgerStep
<1>1. CommitInv /\ TypeInv /\ NoStaleRollback
  BY DEF EarlyInv, CommitInv
<1>2. CASE UNCHANGED vars
  BY <1>2 DEF vars, LedgerStep, LedgerBalance, Ledger!ledgerVars
<1>3. CASE BeginBlock \/ Funding \/ Offering \/ BeginQueue
  BY <1>1, <1>3, OtherSteps, FundingSteps, SameShardStep DEF Funding, Offering
<1>4. CASE QueuePass \/ Timeout \/ LogFails
  BY <1>1, <1>4, OtherSteps, DebitStep, CreditStep DEF QueuePass, Commit
<1> QED BY <1>2, <1>3, <1>4 DEF Moves

(* Two-phase commit over any number of shards implements the ledger of     *)
(* atomic transfers: with faults confined to the time before rollback data *)
(* is captured, each transaction moves its whole amount and uses its       *)
(* nonce in one step, or leaves no trace, in every order of attempts,      *)
(* retries and aborts.                                                     *)
THEOREM CommitImplementsLedger ==
  ASSUME EarlyFaultsOnly PROVE Spec => ImplementsLedger
<1>1. Init => Ledger!Init
  BY DEF Init, GenesisBalance, LedgerBalance, Ledger!Init
<1>2. EarlyInv /\ [Next]_vars => [Ledger!Next]_(Ledger!ledgerVars)
  BY EarlyMoves, StepRefines DEF LedgerStep
<1> QED BY <1>1, <1>2, EarlyInvariant, PTL DEF Spec, ImplementsLedger, Ledger!Spec

-----------------------------------------------------------------------------
(* Locks.  Outside the two-phase commit none is held, inside only the one  *)
(* of the current transaction; an attempt that has not come to "lock" yet  *)
(* holds none, which is why a log error there leaves nothing behind.       *)

Unlocked == {"idle", "batch", "take", "start", "preparing", "lock"}

LockInv ==
  /\ pc \in Unlocked => locks = {}
  /\ pc \in Busy => locks \subseteq {LockKey(cur)}

LEMMA StepLocks ==
  ASSUME EarlyLogFaults, TypeInv, LockInv, Moves
  PROVE  LockInv'
<1>1. CASE UNCHANGED vars
  BY <1>1 DEF vars, LockInv, LockKey
<1>2. CASE BeginBlock \/ Funding \/ Offering \/ BeginQueue \/ TakeNext \/ EndQueue \/ SkipProcessed
           \/ LogStart \/ LogPreparing \/ LogFails
  <2>1. locks' = locks /\ pc \in Unlocked
    BY <1>2 DEF Offering, Funding, BeginBlock, AddBalance, DeductBalance, QueueCross,
       ApplySameShard, BeginQueue, TakeNext, EndQueue, SkipProcessed, LogStart,
       LogPreparing, LogStep, LogFails, EarlyLogFaults, Unlocked
  <2> QED BY <2>1 DEF LockInv
<1>3. CASE AcquireLock \/ LockIsTaken
  <2>1. pc = "lock" /\ locks = {}
    BY <1>3 DEF AcquireLock, LockIsTaken, LockInv, Unlocked
  <2>2. locks' = {LockKey(cur)} /\ cur' = cur /\ pc' = "validate"
    BY <1>3, <2>1 DEF AcquireLock, LockIsTaken, Locked
  <2> QED BY <2>2 DEF LockInv, Unlocked, LockKey
<1>4. CASE ValidateSender \/ RejectSender \/ CaptureProof \/ LogPrepared
           \/ LogCommitting \/ DebitSource \/ CreditDestination \/ UpdateMerkle
           \/ LogCommitted \/ LogAborting \/ Timeout
  <2>1. pc \in Busy /\ pc' \notin Unlocked
    BY <1>4 DEF ValidateSender, RejectSender, CaptureProof, LogPrepared,
       LogCommitting, DebitSource, CreditDestination, UpdateMerkle, LogCommitted,
       LogAborting, LogStep, Timeout, TimeoutPoint, Unlocked, Busy
  <2>2. locks' \subseteq locks
    BY <1>4 DEF ValidateSender, RejectSender, CaptureProof, LogPrepared,
       LogCommitting, DebitSource, CreditDestination, UpdateMerkle, LogCommitted,
       LogAborting, LogStep, Timeout, Released
  <2>3. cur'.tx = cur.tx
    <3>1. CASE ValidateSender \/ LogPrepared \/ LogCommitting \/ LogCommitted
               \/ LogAborting
      <4>1. cur \in Ctx
        BY <2>1, CurFields
      <4>2. \E r : cur' = [cur EXCEPT !.rollback = r] \/ cur' = [cur EXCEPT !.state = r]
        BY <3>1 DEF ValidateSender, LogPrepared, LogCommitting, LogCommitted,
           LogAborting, LogStep, WriteLog
      <4> QED BY <4>1, <4>2 DEF Ctx
    <3>2. CASE RejectSender \/ CaptureProof \/ DebitSource \/ CreditDestination
               \/ UpdateMerkle \/ Timeout
      BY <3>2 DEF RejectSender, CaptureProof, DebitSource, CreditDestination,
         UpdateMerkle, Timeout
    <3> QED BY <1>4, <3>1, <3>2
  <2> QED BY <2>1, <2>2, <2>3 DEF LockInv, LockKey
<1>5. CASE Finish \/ Rollback
  <2>1. pc \in Busy /\ pc' = "take" /\ locks' = locks \ {LockKey(cur)}
    BY <1>5 DEF Finish, Rollback, Succeed, Fail, Released, Busy
  <2>2. locks' = {}
    BY <2>1 DEF LockInv
  <2> QED BY <2>1, <2>2 DEF LockInv, Busy
<1> QED BY <1>1, <1>2, <1>3, <1>4, <1>5
        DEF Moves, QueuePass, Prepare, Commit, Abort

(* Whatever timeouts strike, and however often a sender without an account *)
(* makes prepare_phase keep its lock: with log errors on the first two     *)
(* records only, every lock is free again when the block ends.             *)
THEOREM LocksAreReleased == ASSUME EarlyLogFaults PROVE Spec => []LocksReleased
<1> DEFINE Inv == TypeInv /\ LockInv
<1>1. Init => Inv
  BY InitType DEF Init, LockInv, Busy
<1>2. Inv /\ [Next]_vars => Inv'
  BY NextMoves, StepType, StepLocks DEF TypeInv
<1>3. Inv => LocksReleased
  BY DEF LockInv, Unlocked, LocksReleased
<1> HIDE DEF Inv
<1> QED BY <1>1, <1>2, <1>3, PTL DEF Spec

-----------------------------------------------------------------------------
(* The log.  A queued transaction has been put back in a state recovery    *)
(* discards, so that the record an attempt starts with is harmless until   *)
(* the attempt has written one of its own.                                 *)

Discarded == {"Preparing", "Aborting", "Aborted"}
InLog == Busy \ {"start", "preparing"}

LogInv ==
  /\ \A i \in 1 .. Len(queue) : queue[i].state \in Discarded
  /\ \A i \in 1 .. Len(failed) : failed[i].state \in Discarded
  /\ pc = "start" => cur.state \in Discarded
  /\ \A t \in Tx : wal[t] # NoCtx =>
       (pc \in InLog /\ cur.tx = t) \/ wal[t].state \in Discarded

(* The error path keeps the state it is given. *)
LEMMA FailKeepsState ==
  ASSUME TypeInv, LogInv, NEW c \in Ctx, c.state \in Discarded, Fail(c)
  PROVE  \A i \in 1 .. Len(failed') : failed'[i].state \in Discarded
<1> DEFINE d == [c EXCEPT !.retry = @ + 1]
<1>1. CASE c.retry + 1 < MaxAttempts
  <2>1. d \in Ctx /\ d.state \in Discarded
    BY <1>1, CtxUpdate DEF Ctx
  <2>2. failed' = Append(failed, d)
    BY <1>1 DEF Fail
  <2> HIDE DEF d
  <2>3. failed \in Seq(Ctx) /\ \A i \in 1 .. Len(failed) : failed[i].state \in Discarded
    BY DEF TypeInv, TypeOK, LogInv
  <2>4. Len(failed') = Len(failed) + 1 /\ failed'[Len(failed) + 1] = d
    BY <2>1, <2>2, <2>3
  <2>5. \A i \in 1 .. Len(failed) : failed'[i] = failed[i]
    BY <2>1, <2>2, <2>3
  <2>6. Len(failed) \in Nat
    BY <2>3
  <2> QED BY <2>1, <2>3, <2>4, <2>5, <2>6
<1>2. CASE ~(c.retry + 1 < MaxAttempts)
  BY <1>2 DEF Fail, LogInv
<1> QED BY <1>1, <1>2

LEMMA StepLog ==
  ASSUME EarlyLogFaults, TypeInv, LogInv, Moves
  PROVE  LogInv'
<1>1. CASE UNCHANGED vars
  BY <1>1 DEF vars, LogInv
<1>2. CASE BeginBlock \/ Funding \/ BeginQueue \/ (\E t \in Tx : ApplySameShard(t))
  <2>1. UNCHANGED <<queue, failed, wal>> /\ pc \notin InLog /\ pc' # "start"
    BY <1>2 DEF Funding, BeginBlock, AddBalance, DeductBalance, ApplySameShard,
       BeginQueue, InLog, Busy
  <2> QED BY <2>1 DEF LogInv
<1>3. ASSUME NEW t \in Tx, QueueCross(t)
      PROVE  LogInv'
  <2>1. NewCtx(t) \in Ctx /\ NewCtx(t).state \in Discarded
    BY NewCtxType DEF NewCtx, Discarded
  <2>2. /\ queue' = Append(queue, NewCtx(t)) /\ UNCHANGED <<failed, wal, pc>>
        /\ pc \notin InLog /\ pc # "start"
    BY <1>3 DEF QueueCross, InLog, Busy
  <2>3. queue \in Seq(Ctx) /\ \A i \in 1 .. Len(queue) : queue[i].state \in Discarded
    BY DEF TypeInv, TypeOK, LogInv
  <2>4. \A i \in 1 .. Len(queue) : queue'[i] = queue[i]
    BY <2>1, <2>2, <2>3
  <2>5. Len(queue') = Len(queue) + 1 /\ queue'[Len(queue) + 1] = NewCtx(t)
    BY <2>1, <2>2, <2>3
  <2>6. \A i \in 1 .. Len(queue') : queue'[i].state \in Discarded
    BY <2>1, <2>3, <2>4, <2>5
  <2> QED BY <2>2, <2>6 DEF LogInv
<1>4. CASE TakeNext
  <2>1. /\ queue # << >> /\ queue' = Tail(queue) /\ cur' = Head(queue)
        /\ UNCHANGED <<failed, wal>> /\ pc \notin InLog /\ pc' = "start"
    BY <1>4 DEF TakeNext, InLog, Busy
  <2>2. \A i \in 1 .. Len(queue') : queue'[i].state \in Discarded
    BY <2>1 DEF TypeInv, TypeOK, LogInv
  <2>3. cur'.state \in Discarded
    BY <2>1 DEF TypeInv, TypeOK, LogInv
  <2> QED BY <2>1, <2>2, <2>3 DEF LogInv
<1>5. CASE EndQueue \/ SkipProcessed
  <2>1. /\ queue' \in {queue, failed} /\ failed' \in {failed, << >>} /\ wal' = wal
        /\ pc \notin InLog /\ pc' # "start"
    BY <1>5 DEF EndQueue, SkipProcessed, Succeed, InLog, Busy
  <2> QED BY <2>1 DEF LogInv
<1>6. CASE LogStart \/ LogPreparing \/ LogPrepared \/ LogCommitting
           \/ LogCommitted \/ LogAborting
  <2>1. PICK s \in CommitState :
          /\ pc \in Busy /\ WriteLog(s)
          /\ pc = "start" => s = cur.state
          /\ pc' \in Busy \ {"start"} /\ (pc' = "preparing" => pc = "start")
          /\ UNCHANGED <<queue, failed>>
    <3>1. pc \in Busy => cur.state \in CommitState
      BY CtxUpdate, CurFields
    <3> QED BY <1>6, <3>1 DEF LogStart, LogPreparing, LogPrepared, LogCommitting,
        LogCommitted, LogAborting, LogStep, Busy, CommitState
  <2>2. cur \in Ctx /\ cur.tx \in Tx /\ cur'.tx = cur.tx /\ cur'.state = s
    BY <2>1, WriteLogType, CurFields
  <2>3. wal' = [wal EXCEPT ![cur.tx] = cur']
    BY <2>1 DEF WriteLog
  <2>4. ASSUME NEW t \in Tx, wal'[t] # NoCtx
        PROVE  (pc' \in InLog /\ cur'.tx = t) \/ wal'[t].state \in Discarded
    <3>1. CASE t = cur.tx
      <4>1. wal'[t] = cur'
        BY <2>2, <2>3, <3>1 DEF TypeInv, TypeOK
      <4>2. pc' = "preparing" => s \in Discarded
        BY <2>1 DEF LogInv
      <4> QED BY <2>1, <2>2, <3>1, <4>1, <4>2 DEF InLog
    <3>2. CASE t # cur.tx
      <4>1. wal'[t] = wal[t]
        BY <2>2, <2>3, <3>2 DEF TypeInv, TypeOK
      <4> QED BY <2>4, <3>2, <4>1 DEF LogInv
    <3> QED BY <3>1, <3>2
  <2> QED BY <2>1, <2>4 DEF LogInv
<1>7. CASE AcquireLock \/ LockIsTaken \/ ValidateSender \/ RejectSender
           \/ CaptureProof \/ DebitSource \/ CreditDestination \/ UpdateMerkle
           \/ Timeout
  <2>1. pc \in Busy /\ pc' \in InLog /\ UNCHANGED <<queue, failed, wal>>
    BY <1>7 DEF AcquireLock, LockIsTaken, ValidateSender, RejectSender, CaptureProof,
       DebitSource, CreditDestination, UpdateMerkle, Timeout, TimeoutPoint, InLog, Busy
  <2>2. cur'.tx = cur.tx
    <3>1. CASE ValidateSender
      <4>1. cur \in Ctx /\ cur' = [cur EXCEPT !.rollback = Captured]
        BY <2>1, <3>1, CurFields DEF ValidateSender
      <4> QED BY <4>1 DEF Ctx
    <3>2. CASE ~ValidateSender
      BY <1>7, <3>2 DEF AcquireLock, LockIsTaken, RejectSender, CaptureProof,
         DebitSource, CreditDestination, UpdateMerkle, Timeout
    <3> QED BY <3>1, <3>2
  <2> QED BY <2>1, <2>2 DEF LogInv, InLog
<1>8. CASE Finish
  <2>1. cur \in Ctx /\ cur.tx \in Tx
    BY <1>8, CurFields DEF Finish, Busy
  <2>2. wal' = [wal EXCEPT ![cur.tx] = NoCtx] /\ UNCHANGED <<queue, failed>> /\ pc' = "take"
    BY <1>8 DEF Finish, LogRemoved, Succeed
  <2>3. \A t \in Tx : wal'[t] # NoCtx => t # cur.tx /\ wal'[t] = wal[t]
    BY <2>1, <2>2 DEF TypeInv, TypeOK
  <2> QED BY <2>2, <2>3 DEF LogInv
<1>9. CASE Rollback
  <2> DEFINE d == [cur EXCEPT !.state = "Aborted"]
  <2>1. cur \in Ctx /\ cur.tx \in Tx
    BY <1>9, CurFields DEF Rollback, Busy
  <2>2. d \in Ctx /\ d.state \in Discarded /\ Fail(d)
    BY <1>9, <2>1, CtxUpdate DEF Rollback, CommitState, Ctx, Discarded
  <2>3. wal' = [wal EXCEPT ![cur.tx] = NoCtx] /\ queue' = queue /\ pc' = "take"
    BY <1>9 DEF Rollback, LogRemoved, Fail
  <2>4. \A t \in Tx : wal'[t] # NoCtx => t # cur.tx /\ wal'[t] = wal[t]
    BY <2>1, <2>3 DEF TypeInv, TypeOK
  <2> HIDE DEF d
  <2>5. \A i \in 1 .. Len(failed') : failed'[i].state \in Discarded
    BY <2>2, FailKeepsState
  <2> QED BY <2>3, <2>4, <2>5 DEF LogInv
<1>10. CASE LogFails
  <2>1. pc \in {"start", "preparing"} /\ pc \in Busy /\ pc \notin InLog
    BY <1>10 DEF LogFails, EarlyLogFaults, Busy, InLog
  <2>2. cur \in Ctx /\ cur.tx \in Tx
    BY <2>1, CurFields
  <2>3. StateLoggedAt(pc) \in Discarded
    BY <2>1 DEF StateLoggedAt, LogInv, Discarded
  <2> DEFINE d == [cur EXCEPT !.state = StateLoggedAt(pc)]
  <2>4. d \in Ctx /\ d.state \in Discarded
    BY <2>2, <2>3, CtxUpdate DEF Ctx, Discarded, CommitState
  <2>5. Fail(d) /\ queue' = queue
    BY <1>10 DEF LogFails
  <2>6. pc' = "take"
    BY <2>5 DEF Fail
  <2> HIDE DEF d
  <2>7. \A i \in 1 .. Len(failed') : failed'[i].state \in Discarded
    BY <2>4, <2>5, FailKeepsState
  <2>8. \A t \in Tx : wal'[t] \in {wal[t], NoCtx}
    BY <1>10, <2>2 DEF LogFails, TypeInv, TypeOK
  <2> QED BY <2>1, <2>5, <2>6, <2>7, <2>8 DEF LogInv
<1> QED BY <1>1, <1>2, <1>3, <1>4, <1>5, <1>6, <1>7, <1>8, <1>9, <1>10
        DEF Moves, Offering, QueuePass, Prepare, Commit, Abort

(* Whatever timeouts strike, with log errors on the first two records of   *)
(* an attempt only: a log file recover_from_crash would complete or undo   *)
(* is never left over from an earlier attempt.                             *)
THEOREM RecoverableLogs ==
  ASSUME EarlyLogFaults PROVE Spec => []RecoverableLogsAreCurrent
<1> DEFINE Inv == TypeInv /\ LogInv
<1>1. Init => Inv
  BY InitType DEF Init, LogInv
<1>2. Inv /\ [Next]_vars => Inv'
  BY NextMoves, StepType, StepLog DEF TypeInv
<1>3. Inv => RecoverableLogsAreCurrent
  BY DEF LogInv, InLog, Discarded, RecoverableLogsAreCurrent, TypeInv, CurInv
<1> HIDE DEF Inv
<1> QED BY <1>1, <1>2, <1>3, PTL DEF Spec

-----------------------------------------------------------------------------
(* Conservation of funds, from the refinement: each step of the ledger of  *)
(* atomic transfers changes the sum of its balances by what it adds to     *)
(* net, and between blocks the ledger's balances are the shards' own.      *)

TotalOf(b) == SumFunctionOnSet(b, Account)

(* c is b with k added to a. *)
Added(b, c, a, k) ==
  /\ c \in [Account -> Int]
  /\ c[a] = b[a] + k
  /\ \A x \in Account \ {a} : c[x] = b[x]

LEMMA AddedTotal ==
  ASSUME IsFiniteSet(Account), NEW b \in [Account -> Int], NEW a \in Account,
         NEW k \in Int, NEW c, Added(b, c, a, k)
  PROVE  TotalOf(c) = TotalOf(b) + k
<1>1. c \in [Account -> Int] /\ c[a] = b[a] + k /\ \A x \in Account \ {a} : c[x] = b[x]
  BY DEF Added
<1>2. \A x \in Account : b[x] \in Int /\ c[x] \in Int
  BY <1>1
<1>3. TotalOf(b) \in Int
  BY <1>2, SumInt DEF TotalOf
<1>4. TotalOf(c) = TotalOf(b) + c[a] - b[a]
  BY <1>1, <1>2, SumUpdate DEF TotalOf
<1> QED BY <1>1, <1>2, <1>3, <1>4

LEMMA MovedTotal ==
  ASSUME IsFiniteSet(Account), NEW b \in [Account -> Int], NEW f \in Account,
         NEW t \in Account, NEW k \in Int, NEW d, Added(b, d, f, -k),
         NEW c, Added(d, c, t, k)
  PROVE  TotalOf(c) = TotalOf(b)
<1>1. d \in [Account -> Int] /\ -k \in Int
  BY DEF Added
<1>2. TotalOf(d) = TotalOf(b) + (-k)
  BY <1>1, AddedTotal
<1>3. TotalOf(c) = TotalOf(d) + k
  BY <1>1, AddedTotal
<1>4. TotalOf(b) \in Int
  BY SumInt DEF TotalOf
<1> QED BY <1>2, <1>3, <1>4

FundsInLedger == TotalOf(LedgerBalance) = TotalOf(GenesisBalance) + net

LEMMA LedgerBalanceType ==
  ASSUME TypeInv PROVE LedgerBalance \in [Account -> Int]
<1>1. pc = "credit" => cur.tx.to \in Account /\ cur.tx.amount \in Nat
  BY CurFields DEF Busy
<1> QED BY <1>1 DEF LedgerBalance, TypeInv, TypeOK

LEMMA GenesisTotal == ASSUME IsFiniteSet(Account) PROVE TotalOf(GenesisBalance) \in Int
<1>1. \A a \in Account : GenesisBalance[a] \in Int
  BY DEF GenesisBalance
<1> HIDE DEF GenesisBalance
<1> QED BY <1>1, SumInt DEF TotalOf

(* The steps of the ledger, between balances b and c and nets n and m. *)
LedgerChange(b, c, n, m) ==
  \/ c = b /\ m = n
  \/ \E a \in Account, amt \in Amount :
       \/ c = [b EXCEPT ![a] = @ + amt] /\ m = n + amt
       \/ c = [b EXCEPT ![a] = @ - amt] /\ m = n - amt
       \/ \E t \in Account :
            c = [[b EXCEPT ![a] = @ - amt] EXCEPT ![t] = @ + amt] /\ m = n

LEMMA ChangeConserves ==
  ASSUME IsFiniteSet(Account), NEW b \in [Account -> Int], NEW c, NEW n \in Int,
         NEW m, LedgerChange(b, c, n, m), NEW g \in Int, TotalOf(b) = g + n
  PROVE  TotalOf(c) = g + m
<1>1. CASE c = b /\ m = n
  BY <1>1
<1>2. ASSUME NEW a \in Account, NEW amt \in Amount,
             c = [b EXCEPT ![a] = @ + amt], m = n + amt
      PROVE  TotalOf(c) = g + m
  <2>1. amt \in Int
    OBVIOUS
  <2>2. Added(b, c, a, amt)
    BY <1>2, <2>1 DEF Added
  <2>3. TotalOf(c) = TotalOf(b) + amt
    BY <2>1, <2>2, AddedTotal
  <2> QED BY <1>2, <2>1, <2>3
<1>3. ASSUME NEW a \in Account, NEW amt \in Amount,
             c = [b EXCEPT ![a] = @ - amt], m = n - amt
      PROVE  TotalOf(c) = g + m
  <2>1. amt \in Int /\ -amt \in Int
    OBVIOUS
  <2>2. Added(b, c, a, -amt)
    BY <1>3, <2>1 DEF Added
  <2>3. TotalOf(c) = TotalOf(b) + (-amt)
    BY <2>1, <2>2, AddedTotal
  <2> QED BY <1>3, <2>1, <2>3
<1>4. ASSUME NEW a \in Account, NEW amt \in Amount, NEW t \in Account,
             c = [[b EXCEPT ![a] = @ - amt] EXCEPT ![t] = @ + amt], m = n
      PROVE  TotalOf(c) = g + m
  <2> DEFINE d == [b EXCEPT ![a] = @ - amt]
  <2>1. amt \in Int
    OBVIOUS
  <2>2. Added(b, d, a, -amt)
    BY <2>1 DEF Added
  <2>3. d \in [Account -> Int] /\ c = [d EXCEPT ![t] = @ + amt]
    BY <1>4, <2>1
  <2> HIDE DEF d
  <2>4. Added(d, c, t, amt)
    BY <2>1, <2>3 DEF Added
  <2>5. TotalOf(c) = TotalOf(b)
    BY <2>1, <2>2, <2>4, MovedTotal
  <2> QED BY <1>4, <2>5
<1> QED BY <1>1, <1>2, <1>3, <1>4 DEF LedgerChange

LEMMA LedgerStepConserves ==
  ASSUME IsFiniteSet(Account), TypeInv, FundsInLedger, LedgerStep
  PROVE  FundsInLedger'
<1>1. LedgerBalance \in [Account -> Int] /\ net \in Int
  BY LedgerBalanceType DEF TypeInv, TypeOK
<1>2. LedgerChange(LedgerBalance, LedgerBalance', net, net')
  BY DEF LedgerStep, Ledger!Next, Ledger!Deposit, Ledger!Withdraw, Ledger!Transfer,
         Ledger!Moved, Ledger!ledgerVars, LedgerChange
<1>3. TotalOf(LedgerBalance) = TotalOf(GenesisBalance) + net
  BY DEF FundsInLedger
<1>4. TotalOf(GenesisBalance) \in Int
  BY GenesisTotal
<1>5. TotalOf(LedgerBalance') = TotalOf(GenesisBalance) + net'
  BY <1>1, <1>2, <1>3, <1>4, ChangeConserves
<1>6. TotalOf(GenesisBalance)' = TotalOf(GenesisBalance)
  BY DEF GenesisBalance, TotalOf
<1>7. TotalOf(LedgerBalance)' = TotalOf(LedgerBalance')
  BY DEF TotalOf
<1> QED BY <1>5, <1>6, <1>7 DEF FundsInLedger

LEMMA FundsBetweenBlocks == EarlyInv /\ FundsInLedger => FundsConserved
<1> SUFFICES ASSUME EarlyInv, FundsInLedger, pc = "idle"
             PROVE  SumFunction(balance) = SumFunction(GenesisBalance) + net
  BY DEF FundsConserved
<1>1. LedgerBalance = balance
  BY DEF LedgerBalance
<1>2. DOMAIN balance = Account /\ DOMAIN GenesisBalance = Account
  BY DEF EarlyInv, CommitInv, TypeInv, TypeOK, GenesisBalance
<1>3. TotalOf(balance) = TotalOf(GenesisBalance) + net
  BY <1>1 DEF FundsInLedger
<1> QED BY <1>2, <1>3 DEF TotalOf, SumFunction

(* "Zero fund loss": with faults confined to the time before rollback data *)
(* is captured, no order of transfers, retries and aborts over any number  *)
(* of shards creates or destroys funds.                                    *)
THEOREM FundsAreConserved ==
  ASSUME EarlyFaultsOnly, IsFiniteSet(Account) PROVE Spec => []FundsConserved
<1> DEFINE Inv == EarlyInv /\ FundsInLedger
<1>1. Init => FundsInLedger
  <2>1. Init => LedgerBalance = GenesisBalance /\ net = 0
    BY DEF Init, LedgerBalance
  <2> QED BY <2>1, GenesisTotal DEF FundsInLedger
<1>2. EarlyInv /\ FundsInLedger /\ [Next]_vars => FundsInLedger'
  BY EarlyMoves, StepRefines, LedgerStepConserves DEF EarlyInv, CommitInv
<1> QED BY <1>1, <1>2, FundsBetweenBlocks, EarlyInvariant, PTL DEF Spec

-----------------------------------------------------------------------------
(* Crashes.  A crash before the Prepared record is on disk finds only log  *)
(* records recovery discards: it leaves the coordinator as it was at the   *)
(* start, whatever was queued.                                             *)

EarlyCrashes ==
  CrashAt \subseteq Point \ {"committing", "debit", "credit", "merkle", "committed", "finish"}

EarlyLog ==
  pc \in {"lock", "validate", "proof", "prepared", "aborting", "rollback"} =>
    wal[cur.tx] = NoCtx \/ wal[cur.tx].state \in Discarded

MemoryInv == EarlyInv /\ LockInv /\ LogInv /\ EarlyLog

LEMMA StepEarlyLog ==
  ASSUME EarlyFaultsOnly, CommitInv, EarlyLog, Moves
  PROVE  EarlyLog'
<1> DEFINE Early == {"lock", "validate", "proof", "prepared", "aborting", "rollback"}
<1>1. TypeInv /\ TypeInv'
  BY StepType DEF CommitInv
<1>2. CASE UNCHANGED vars
  BY <1>2 DEF vars, EarlyLog
<1>3. CASE AcquireLock \/ LockIsTaken \/ ValidateSender \/ RejectSender
           \/ CaptureProof \/ Timeout
  <2>1. pc \in Early /\ pc \in Busy /\ wal' = wal
    BY <1>3 DEF AcquireLock, LockIsTaken, ValidateSender, RejectSender, CaptureProof,
       Timeout, EarlyFaultsOnly, Busy
  <2>2. cur'.tx = cur.tx
    <3>1. CASE ValidateSender
      <4>1. cur \in Ctx /\ cur' = [cur EXCEPT !.rollback = Captured]
        BY <1>1, <2>1, <3>1, CurFields DEF ValidateSender
      <4> QED BY <4>1 DEF Ctx
    <3>2. CASE ~ValidateSender
      BY <1>3, <3>2 DEF AcquireLock, LockIsTaken, RejectSender, CaptureProof, Timeout
    <3> QED BY <3>1, <3>2
  <2> QED BY <2>1, <2>2 DEF EarlyLog
<1>4. CASE LogPreparing \/ LogAborting
  <2>1. PICK s \in Discarded : pc \in Busy /\ WriteLog(s)
    BY <1>4 DEF LogPreparing, LogAborting, LogStep, Busy, Discarded
  <2>2. s \in CommitState
    BY DEF Discarded, CommitState
  <2>3. cur.tx \in Tx /\ cur'.tx = cur.tx /\ cur'.state = s
    BY <1>1, <2>1, <2>2, WriteLogType, CurFields
  <2>4. wal'[cur'.tx] = cur'
    BY <1>1, <2>1, <2>3 DEF WriteLog, TypeInv, TypeOK
  <2> QED BY <2>3, <2>4 DEF EarlyLog
<1>5. CASE DebitSource
  <2>1. pc' = "credit"
    BY <1>5, DebitSucceeds
  <2> QED BY <2>1 DEF EarlyLog
<1>6. CASE BeginBlock \/ Funding \/ Offering \/ BeginQueue \/ TakeNext \/ EndQueue
           \/ SkipProcessed \/ LogStart \/ LogPrepared \/ LogCommitting
           \/ CreditDestination \/ UpdateMerkle \/ LogCommitted \/ Finish
           \/ Rollback \/ LogFails
  <2>1. pc' \notin Early
    BY <1>6 DEF BeginBlock, Funding, AddBalance, DeductBalance, Offering, QueueCross,
       ApplySameShard, BeginQueue, TakeNext, EndQueue, SkipProcessed, Succeed, LogStart,
       LogPrepared, LogCommitting, CreditDestination, UpdateMerkle, LogCommitted,
       LogStep, Finish, Rollback, Fail, LogFails
  <2> QED BY <2>1 DEF EarlyLog
<1> QED BY <1>2, <1>3, <1>4, <1>5, <1>6 DEF Moves, QueuePass, Prepare, Commit, Abort

LEMMA StepMemory ==
  ASSUME EarlyFaultsOnly, EarlyLogFaults, MemoryInv, Moves PROVE MemoryInv'
  BY StepEarly, StepLocks, StepLog, StepEarlyLog DEF MemoryInv, EarlyInv, CommitInv

(* A new process, however many inputs the old ones had. *)
Fresh ==
  /\ balance = GenesisBalance
  /\ known = DOMAIN Genesis
  /\ nonce = [a \in Account |-> 0]
  /\ queue = << >>
  /\ failed = << >>
  /\ cur = NoCtx
  /\ pc = "idle"
  /\ wal = [t \in Tx |-> NoCtx]
  /\ processed = {}
  /\ locks = {}
  /\ block = << >>
  /\ net = 0

LEMMA FreshMemory == Fresh /\ inputs \in Nat => MemoryInv
<1> SUFFICES ASSUME Fresh, inputs \in Nat PROVE MemoryInv
  OBVIOUS
<1>1. TypeOK
  BY DEF Fresh, TypeOK, GenesisBalance, Point
<1>2. CurInv
  BY DEF Fresh, CurInv, Busy
<1>3. CommitInv
  BY <1>1, <1>2 DEF TypeInv, Fresh, CommitInv, CommitIsLocked, SenderUnchanged,
     CommittingLogged, UndoDataDurable, NonceUsed
<1>4. NoStaleRollback /\ ProcessedIsSpent /\ LockInv /\ LogInv /\ EarlyLog
  BY DEF Fresh, NoStaleRollback, ProcessedIsSpent, LockInv, Busy, LogInv, EarlyLog
<1> QED BY <1>3, <1>4 DEF MemoryInv, EarlyInv

LEMMA NothingQueued == ASSUME NEW q \in SetToSeqs({}) PROVE q = << >>
<1>1. Cardinality({}) = 0
  BY FS_EmptySet
<1>2. q \in [1 .. 0 -> {}]
  BY <1>1 DEF SetToSeqs
<1> QED BY <1>2

LEMMA CrashClears ==
  ASSUME EarlyCrashes, MemoryInv, CrashAndRestart
  PROVE  Fresh'
<1>1. TypeInv
  BY DEF MemoryInv, EarlyInv, CommitInv
<1>2. \A t \in Tx : wal[t] # NoCtx => wal[t].state \in Discarded
  <2> SUFFICES ASSUME NEW t \in Tx, wal[t] # NoCtx PROVE wal[t].state \in Discarded
    OBVIOUS
  <2>1. CASE pc \in InLog /\ cur.tx = t
    <3>1. pc \in {"lock", "validate", "proof", "prepared", "aborting", "rollback"}
      BY <2>1 DEF CrashAndRestart, EarlyCrashes, InLog, Busy
    <3> QED BY <2>1, <3>1 DEF MemoryInv, EarlyLog
  <2> QED BY <2>1 DEF MemoryInv, LogInv
<1>3. PICK log \in LogAtCrash : RecoverFrom(log)
  BY DEF CrashAndRestart
<1>4. \A t \in Tx : log[t] # NoCtx => log[t].state \in Discarded
  BY <1>1, <1>2 DEF LogAtCrash, TypeInv, TypeOK
<1>5. \A t \in Tx : ~Unfinished(log[t]) /\ ~Finished(log[t])
  BY <1>4 DEF Unfinished, Finished, Discarded
<1>6. {log[t] : t \in {u \in Tx : Unfinished(log[u])}} = {}
  BY <1>5
<1>7. queue' = << >>
  BY <1>3, <1>6, NothingQueued DEF RecoverFrom
<1>8. processed' = {} /\ wal' = [t \in Tx |-> NoCtx]
  BY <1>3, <1>5 DEF RecoverFrom
<1>9. GenesisBalance' = GenesisBalance
  BY DEF GenesisBalance
<1> QED BY <1>7, <1>8, <1>9 DEF CrashAndRestart, Fresh

LEMMA CrashMemory ==
  ASSUME EarlyCrashes, MemoryInv, CrashAndRestart
  PROVE  MemoryInv'
<1>1. inputs' \in Nat
  BY DEF CrashAndRestart, MemoryInv, EarlyInv, CommitInv, TypeInv, TypeOK
<1>2. Fresh'
  BY CrashClears
<1>3. (Fresh /\ inputs \in Nat)' => MemoryInv'
  BY FreshMemory, PTL
<1> QED BY <1>1, <1>2, <1>3

LEMMA NodeMoves ==
  ASSUME RTypeOK, [RNext]_<<vars, nodeVars>>, ~CrashAndRestart
  PROVE  Moves
<1>1. TypeOK /\ inputs \in Nat
  BY DEF RTypeOK, TypeOK
<1>2. CASE UNCHANGED <<vars, nodeVars>>
  BY <1>1, <1>2 DEF Moves, vars
<1>3. CASE ProduceBlock \/ ApplyStoredBlock \/ EnterQueue
  BY <1>1, <1>3 DEF ProduceBlock, ApplyStoredBlock, EnterQueue, BeginBlock, BeginQueue, Moves
<1>4. CASE SubmitTx \/ OffChainTransfer
  BY <1>1, <1>4 DEF SubmitTx, OffChainTransfer, CountInput, Offering, Funding, Moves
<1>5. CASE CommitStep \/ CreateBlock \/ AppendApplied
  <2>1. CASE CommitStep
    <3>1. Next
      BY <2>1 DEF CommitStep, Next, QueuePass
    <3> QED BY <1>1, <3>1, NextMoves
  <2>2. CASE CreateBlock \/ AppendApplied
    <3>1. Next
      BY <2>2 DEF CreateBlock, AppendApplied, Next, QueuePass
    <3> QED BY <1>1, <3>1, NextMoves
  <2> QED BY <1>5, <2>1, <2>2
<1>6. CASE SaveBlock \/ SaveFails \/ RefuseStoredBlock \/ ApplyEmptyBlock
  <2>1. UNCHANGED vars
    BY <1>6 DEF SaveBlock, SaveFails, RefuseStoredBlock, ApplyEmptyBlock
  <2> QED BY <1>1, <2>1 DEF Moves, vars
<1>7. CASE ReplayTx
  <2> DEFINE t == Head(todo)
  <2>1. CASE UNCHANGED vars
    BY <1>1, <2>1 DEF Moves, vars
  <2>2. CASE (QueueCross(t) \/ ApplySameShard(t)) /\ t \in Tx /\ UNCHANGED inputs
    BY <1>1, <2>2 DEF Moves, Offering
  <2>3. t \in Tx
    BY <1>7 DEF ReplayTx, RTypeOK
  <2> QED BY <1>7, <2>1, <2>2, <2>3 DEF ReplayTx
<1> QED BY <1>2, <1>3, <1>4, <1>5, <1>6, <1>7 DEF RNext

-----------------------------------------------------------------------------
(* Types of the node.  What is on the disk has been made, at the height it *)
(* is stored under; a block in production leaves room for itself; only a   *)
(* restart applies stored transactions.                                    *)

DiskInv ==
  \A h \in 1 .. MaxBlocks : disk[h] # NoBlock =>
    disk[h].height = h /\ h <= made /\ disk[h].hash <= made

LedgerState == [balance: [Account -> Nat], nonce: [Account -> Nat]]

NodeInv ==
  /\ RTypeOK
  /\ DiskInv
  /\ ledgerAt \in Seq(LedgerState) /\ Len(ledgerAt) = made
  /\ tip.height <= made /\ tip.hash <= made
  /\ latest <= made /\ replay <= latest
  /\ ~Restarting /\ pc # "idle" => made < MaxBlocks
  /\ unsaved => pc = "idle" /\ ~Restarting /\ tip.height > 0
  /\ todo # << >> => Restarting /\ pc = "batch"

LEMMA CommitStepPoints ==
  ASSUME CommitStep
  PROVE  pc \in {"take"} \cup Busy /\ pc' \in {"take"} \cup Busy
  BY DEF CommitStep, TakeNext, SkipProcessed, Succeed, Prepare, LogStart, LogPreparing,
     AcquireLock, LockIsTaken, ValidateSender, RejectSender, CaptureProof, LogPrepared,
     Commit, LogCommitting, DebitSource, CreditDestination, UpdateMerkle, LogCommitted,
     Finish, Abort, LogAborting, Rollback, Fail, LogStep, Timeout, TimeoutPoint, LogFails,
     LogPoint, Busy

(* The steps of the coordinator that leave the node alone. *)
LEMMA CoordinatorNode ==
  ASSUME NodeInv, TypeOK', ProduceBlock \/ SubmitTx \/ EnterQueue \/ CommitStep
  PROVE  NodeInv'
<1>1. UNCHANGED nodeVars
  BY DEF ProduceBlock, SubmitTx, EnterQueue, CommitStep
<1>2. /\ ~unsaved /\ todo = << >>
      /\ ~Restarting => made < MaxBlocks
  <2>1. CASE ProduceBlock
    BY <2>1 DEF ProduceBlock, NodeInv
  <2>2. CASE SubmitTx
    BY <2>2 DEF SubmitTx, QueueCross, ApplySameShard, NodeInv
  <2>3. CASE EnterQueue
    BY <2>3 DEF EnterQueue, BeginQueue, NodeInv
  <2>4. CASE CommitStep
    BY <2>4, CommitStepPoints DEF Busy, NodeInv
  <2> QED BY <2>1, <2>2, <2>3, <2>4
<1>3. RTypeOK'
  BY <1>1 DEF NodeInv, RTypeOK, nodeVars
<1> QED BY <1>1, <1>2, <1>3 DEF nodeVars, NodeInv, DiskInv, Restarting

LEMMA OffChainNode ==
  ASSUME NodeInv, TypeOK', OffChainTransfer
  PROVE  NodeInv'
<1>1. pc = "idle" /\ pc' = "idle"
  BY DEF OffChainTransfer, AddBalance, DeductBalance
<1>2. /\ UNCHANGED <<disk, latest, tip, clock, made, unsaved, replay, todo, crashes, ledgerAt>>
      /\ onChain' \in BOOLEAN
  BY DEF OffChainTransfer
<1>3. RTypeOK'
  BY <1>2 DEF NodeInv, RTypeOK
<1> QED BY <1>1, <1>2, <1>3 DEF NodeInv, DiskInv, Restarting

LEMMA BlockFields ==
  ASSUME NEW b \in Block
  PROVE  /\ b.height \in Nat /\ b.hash \in Nat /\ b.prev \in Nat /\ b.time \in Nat
         /\ b.txs \in Seq(Tx)
  BY DEF Block

LEMMA CreateNode ==
  ASSUME NodeInv, TypeOK', CreateBlock
  PROVE  NodeInv'
<1>1. /\ pc = "take" /\ pc' = "idle" /\ ~Restarting
      /\ made' = made + 1 /\ unsaved' = TRUE
      /\ tip' = [height |-> tip.height + 1, hash |-> made + 1, prev |-> tip.hash,
                 time |-> clock, txs |-> block]
      /\ ledgerAt' = Append(ledgerAt, LedgerNow)
      /\ UNCHANGED <<disk, latest, clock, replay, todo, crashes, onChain>>
  BY DEF CreateBlock, EndQueue
<1>2. /\ made < MaxBlocks /\ made \in Nat /\ MaxBlocks \in Nat /\ todo = << >>
      /\ tip \in Block /\ block \in Seq(Tx) /\ clock \in Nat
  BY <1>1, RecoveryConstants DEF RecoveryConstants, NodeInv, RTypeOK, TypeOK
<1>3. /\ tip.height \in Nat /\ tip.hash \in Nat /\ tip.height <= made /\ tip.hash <= made
  BY <1>2, BlockFields DEF NodeInv
<1>4. /\ tip' \in Block /\ tip'.height = tip.height + 1 /\ tip'.hash = made + 1
  BY <1>1, <1>2, <1>3 DEF Block
<1>5. LedgerNow \in LedgerState
  BY DEF NodeInv, RTypeOK, TypeOK, LedgerNow, LedgerState
<1>6. ledgerAt' \in Seq(LedgerState) /\ Len(ledgerAt') = made + 1
  BY <1>1, <1>5 DEF NodeInv
<1>7. made' \in 0 .. MaxBlocks
  BY <1>1, <1>2
<1>8. RTypeOK'
  BY <1>1, <1>4, <1>7 DEF NodeInv, RTypeOK
<1>9. DiskInv'
  <2> SUFFICES ASSUME NEW h \in 1 .. MaxBlocks, disk[h] # NoBlock
               PROVE  disk[h].height = h /\ h <= made + 1 /\ disk[h].hash <= made + 1
    BY <1>1 DEF DiskInv
  <2>1. disk[h] \in Block
    BY DEF NodeInv, RTypeOK
  <2>2. disk[h].hash \in Nat /\ h \in Nat
    BY <2>1, BlockFields
  <2> QED BY <1>2, <2>2 DEF NodeInv, DiskInv
<1>10. latest' <= made' /\ replay' <= latest'
  <2>1. latest \in Nat /\ latest <= made /\ replay <= latest
    BY RecoveryConstants DEF RecoveryConstants, NodeInv, RTypeOK
  <2> QED BY <1>1, <1>2, <2>1
<1>11. tip'.height <= made' /\ tip'.hash <= made' /\ tip'.height > 0
  BY <1>1, <1>2, <1>3, <1>4
<1>12. ~Restarting' /\ todo' = << >>
  BY <1>1, <1>2 DEF Restarting
<1> QED BY <1>1, <1>6, <1>8, <1>9, <1>10, <1>11, <1>12 DEF NodeInv

(* The block of an interrupted or finished save. *)
LEMMA StoredNode ==
  ASSUME NodeInv, unsaved
  PROVE  /\ Stored \in [1 .. MaxBlocks -> Block \cup {NoBlock}]
         /\ \A h \in 1 .. MaxBlocks : Stored[h] # NoBlock =>
              Stored[h].height = h /\ h <= made /\ Stored[h].hash <= made
         /\ tip.height \in 1 .. MaxBlocks
<1>1. tip \in Block /\ tip.height \in Nat /\ tip.height > 0 /\ tip.height <= made /\ tip.hash <= made
  BY BlockFields DEF NodeInv, RTypeOK
<1>2. made \in Nat /\ made <= MaxBlocks /\ MaxBlocks \in Nat
  BY RecoveryConstants DEF RecoveryConstants, NodeInv, RTypeOK
<1>3. tip.height \in 1 .. MaxBlocks
  BY <1>1, <1>2
<1>4. disk \in [1 .. MaxBlocks -> Block \cup {NoBlock}]
  BY DEF NodeInv, RTypeOK
<1>5. ASSUME NEW h \in 1 .. MaxBlocks, Stored[h] # NoBlock
      PROVE  Stored[h].height = h /\ h <= made /\ Stored[h].hash <= made
  <2>1. CASE h = tip.height
    <3>1. Stored[h] = tip
      BY <1>3, <1>4, <2>1 DEF Stored
    <3> QED BY <1>1, <2>1, <3>1
  <2>2. CASE h # tip.height
    <3>1. Stored[h] = disk[h]
      BY <1>4, <2>2 DEF Stored
    <3> QED BY <1>5, <3>1 DEF NodeInv, DiskInv
  <2> QED BY <2>1, <2>2
<1>6. Stored \in [1 .. MaxBlocks -> Block \cup {NoBlock}]
  BY <1>1, <1>4 DEF Stored
<1> QED BY <1>3, <1>5, <1>6

LEMMA SaveNode ==
  ASSUME NodeInv, TypeOK', SaveBlock \/ SaveFails
  PROVE  NodeInv'
<1>1. /\ unsaved /\ ~Restarting /\ replay' = replay /\ unsaved' = FALSE
      /\ disk' \in {disk, Stored} /\ latest' \in {latest, tip.height}
      /\ UNCHANGED <<tip, clock, made, replay, todo, crashes, ledgerAt, onChain, pc>>
  BY DEF SaveBlock, SaveFails, NodeInv, vars
<1>2. /\ disk' \in [1 .. MaxBlocks -> Block \cup {NoBlock}]
      /\ \A h \in 1 .. MaxBlocks : disk'[h] # NoBlock =>
           disk'[h].height = h /\ h <= made /\ disk'[h].hash <= made
  BY <1>1, StoredNode DEF NodeInv, RTypeOK, DiskInv
<1>3. latest' \in 0 .. MaxBlocks /\ latest' <= made
  BY <1>1, StoredNode DEF NodeInv, RTypeOK
<1>4. replay = 0
  BY <1>1 DEF Restarting
<1>5. RTypeOK'
  BY <1>1, <1>2, <1>3 DEF NodeInv, RTypeOK
<1> QED BY <1>1, <1>2, <1>3, <1>4, <1>5 DEF NodeInv, DiskInv, Restarting

LEMMA GenesisType ==
  ASSUME NEW t \in Nat
  PROVE  GenesisBlock(t) \in Block /\ GenesisBlock(t).height = 0 /\ GenesisBlock(t).hash = 0
  BY DEF GenesisBlock, Block

LEMMA CrashNode ==
  ASSUME NodeInv, TypeOK', CrashAndRestart
  PROVE  NodeInv'
<1>1. /\ crashes < MaxCrashes /\ crashes' = crashes + 1
      /\ disk' \in DiskAtCrash /\ pc' = "idle" /\ unsaved' = FALSE
      /\ clock' \in IF ClockMaySetBack THEN 0 .. crashes' ELSE {crashes'}
      /\ tip' = GenesisBlock(clock') /\ todo' = << >>
      /\ replay' = IF latest = 0 THEN 0 ELSE 1
      /\ UNCHANGED <<latest, made, ledgerAt, onChain>>
  BY DEF CrashAndRestart
<1>2. /\ disk' \in [1 .. MaxBlocks -> Block \cup {NoBlock}]
      /\ \A h \in 1 .. MaxBlocks : disk'[h] # NoBlock =>
           disk'[h].height = h /\ h <= made /\ disk'[h].hash <= made
  BY <1>1, StoredNode DEF DiskAtCrash, NodeInv, RTypeOK, DiskInv
<1>3. crashes' \in 0 .. MaxCrashes /\ clock' \in 0 .. MaxCrashes
  BY <1>1, RecoveryConstants DEF RecoveryConstants, NodeInv, RTypeOK
<1>4. tip' \in Block /\ tip'.height = 0 /\ tip'.hash = 0
  BY <1>1, <1>3, GenesisType
<1>5. latest \in Nat /\ latest <= MaxBlocks /\ MaxBlocks \in Nat /\ made \in Nat
  BY RecoveryConstants DEF RecoveryConstants, NodeInv, RTypeOK
<1>6. replay' \in 0 .. MaxBlocks + 1 /\ replay' <= latest
  BY <1>1, <1>5
<1>7. unsaved' \in BOOLEAN /\ todo' \in Seq(Tx)
  <2>1. unsaved' \in BOOLEAN
    BY <1>1
  <2>2. todo' = << >>
    BY <1>1
  <2> QED BY <2>1, <2>2
<1>8. UNCHANGED <<latest, made, onChain>>
  BY <1>1
<1>9. RTypeOK'
  BY <1>2, <1>3, <1>4, <1>6, <1>7, <1>8 DEF NodeInv, RTypeOK
<1> QED BY <1>1, <1>2, <1>4, <1>5, <1>6, <1>9 DEF NodeInv, DiskInv

LEMMA NextReplayType ==
  ASSUME NodeInv, Restarting, NextReplay, latest' = latest
  PROVE  replay' \in 0 .. MaxBlocks + 1 /\ replay' <= latest'
<1>1. /\ replay \in Nat /\ replay <= latest /\ latest \in Nat /\ latest <= MaxBlocks
      /\ MaxBlocks \in Nat
  BY RecoveryConstants DEF RecoveryConstants, NodeInv, RTypeOK
<1> QED BY <1>1 DEF NextReplay

(* The block a restart looks at. *)
LEMMA ReplayedBlock ==
  ASSUME NodeInv, Restarting
  PROVE  /\ replay \in 1 .. MaxBlocks
         /\ disk[replay] # NoBlock =>
              /\ disk[replay] \in Block /\ disk[replay].height <= made
              /\ disk[replay].hash <= made
<1>1. /\ replay \in Nat /\ replay # 0 /\ replay <= latest /\ latest \in Nat
      /\ latest <= MaxBlocks /\ MaxBlocks \in Nat
  BY RecoveryConstants DEF RecoveryConstants, NodeInv, RTypeOK, Restarting
<1>2. replay \in 1 .. MaxBlocks
  BY <1>1
<1> QED BY <1>2 DEF NodeInv, RTypeOK, DiskInv

LEMMA ReplayNode ==
  ASSUME NodeInv, TypeOK',
         pc # "idle" => disk[replay] # NoBlock,
         \/ RefuseStoredBlock \/ ApplyEmptyBlock \/ ApplyStoredBlock
         \/ ReplayTx \/ AppendApplied
  PROVE  NodeInv'
<1>1. /\ Restarting
      /\ UNCHANGED <<disk, latest, clock, made, unsaved, crashes, ledgerAt, onChain>>
  BY DEF RefuseStoredBlock, ApplyEmptyBlock, ApplyStoredBlock, ReplayTx, AppendApplied
<1>2. tip' = tip \/ (tip' = disk[replay] /\ disk[replay] # NoBlock)
  BY DEF RefuseStoredBlock, ApplyEmptyBlock, ApplyStoredBlock, ReplayTx, AppendApplied,
         Extends, EndQueue
<1>3. tip' \in Block /\ tip'.height <= made /\ tip'.hash <= made
  BY <1>1, <1>2, ReplayedBlock DEF NodeInv, RTypeOK
<1>4. replay' \in 0 .. MaxBlocks + 1 /\ replay' <= latest'
  <2>1. CASE NextReplay
    BY <1>1, <2>1, NextReplayType
  <2>2. CASE replay' = replay
    BY <1>1, <2>2 DEF NodeInv, RTypeOK
  <2> QED BY <2>1, <2>2 DEF RefuseStoredBlock, ApplyEmptyBlock, ApplyStoredBlock,
      ReplayTx, AppendApplied
<1>5. /\ todo' \in Seq(Tx)
      /\ todo' # << >> => Restarting' /\ pc' = "batch"
      /\ ~Restarting' => pc' = "idle"
  <2>1. CASE RefuseStoredBlock \/ ApplyEmptyBlock
    BY <2>1 DEF RefuseStoredBlock, ApplyEmptyBlock, vars, NodeInv, RTypeOK
  <2>2. CASE ApplyStoredBlock
    <3>1. todo' = disk[replay].txs /\ pc' = "batch" /\ replay' = replay /\ disk[replay] # NoBlock
      BY <2>2 DEF ApplyStoredBlock, BeginBlock, Extends
    <3>2. disk[replay].txs \in Seq(Tx)
      BY <1>1, <3>1, ReplayedBlock, BlockFields
    <3> QED BY <1>1, <3>1, <3>2 DEF Restarting
  <2>3. CASE ReplayTx
    <3>1. pc = "batch" /\ todo' = Tail(todo) /\ todo # << >> /\ replay' = replay
      BY <2>3 DEF ReplayTx
    <3>2. pc' = pc
      BY <2>3 DEF ReplayTx, QueueCross, ApplySameShard, vars
    <3>3. todo' \in Seq(Tx)
      BY <3>1 DEF NodeInv, RTypeOK
    <3> QED BY <1>1, <3>1, <3>2, <3>3 DEF Restarting
  <2>4. CASE AppendApplied
    <3>1. pc = "take" /\ pc' = "idle" /\ todo' = todo
      BY <2>4 DEF AppendApplied, EndQueue
    <3> QED BY <3>1 DEF NodeInv, RTypeOK
  <2> QED BY <2>1, <2>2, <2>3, <2>4
<1>6. RTypeOK'
  BY <1>1, <1>3, <1>4, <1>5 DEF NodeInv, RTypeOK
<1> QED BY <1>1, <1>3, <1>4, <1>5, <1>6 DEF NodeInv, DiskInv, Restarting

LEMMA QueueNode ==
  ASSUME NodeInv, TypeOK', UNCHANGED <<vars, nodeVars>>
  PROVE  NodeInv'
<1>1. RTypeOK'
  BY DEF NodeInv, RTypeOK, nodeVars
<1> QED BY <1>1 DEF NodeInv, DiskInv, Restarting, vars, nodeVars

(* A replay applies a block that is there. *)
BlockAtHand == Restarting /\ pc # "idle" => disk[replay] # NoBlock

LEMMA StepNode ==
  ASSUME NodeInv, BlockAtHand, TypeOK', [RNext]_<<vars, nodeVars>>
  PROVE  NodeInv'
<1>1. Restarting /\ pc # "idle" => disk[replay] # NoBlock
  BY DEF BlockAtHand
<1>2. CASE RefuseStoredBlock \/ ApplyEmptyBlock \/ ApplyStoredBlock
           \/ ReplayTx \/ AppendApplied
  <2>1. Restarting
    BY <1>2 DEF RefuseStoredBlock, ApplyEmptyBlock, ApplyStoredBlock, ReplayTx, AppendApplied
  <2> QED BY <1>1, <1>2, <2>1, ReplayNode
<1> QED BY <1>2, QueueNode, CoordinatorNode, OffChainNode, CreateNode, SaveNode, CrashNode DEF RNext

LEMMA StepAtHand ==
  ASSUME NodeInv, BlockAtHand, [RNext]_<<vars, nodeVars>>
  PROVE  BlockAtHand'
<1>1. CASE ProduceBlock \/ SubmitTx \/ EnterQueue \/ CommitStep
  <2>1. UNCHANGED nodeVars
    BY <1>1 DEF ProduceBlock, SubmitTx, EnterQueue, CommitStep
  <2>2. Restarting => pc # "idle"
    BY <1>1, CommitStepPoints DEF ProduceBlock, SubmitTx, EnterQueue, BeginQueue, Busy
  <2> QED BY <2>1, <2>2 DEF BlockAtHand, Restarting, nodeVars
<1>2. CASE OffChainTransfer \/ CrashAndRestart \/ CreateBlock \/ AppendApplied
  <2>1. pc' = "idle"
    BY <1>2 DEF OffChainTransfer, AddBalance, DeductBalance, CrashAndRestart, CreateBlock,
       AppendApplied, EndQueue
  <2> QED BY <2>1 DEF BlockAtHand
<1>3. CASE SaveBlock \/ SaveFails \/ RefuseStoredBlock \/ ApplyEmptyBlock
  <2>1. pc' = "idle"
    BY <1>3 DEF SaveBlock, SaveFails, RefuseStoredBlock, ApplyEmptyBlock, vars, NodeInv
  <2> QED BY <2>1 DEF BlockAtHand
<1>4. CASE ApplyStoredBlock
  BY <1>4 DEF ApplyStoredBlock, Extends, BlockAtHand
<1>5. CASE ReplayTx
  <2>1. Restarting /\ pc = "batch" /\ UNCHANGED <<disk, replay>>
    BY <1>5 DEF ReplayTx
  <2> QED BY <2>1 DEF BlockAtHand
<1>6. CASE UNCHANGED <<vars, nodeVars>>
  BY <1>6 DEF vars, nodeVars, BlockAtHand, Restarting
<1> QED BY <1>1, <1>2, <1>3, <1>4, <1>5, <1>6 DEF RNext

(* Whatever is queued, a restarted node and one that makes blocks follow   *)
(* the coordinator step by step, crashes aside.                            *)
RecoveryFaults == EarlyFaultsOnly /\ EarlyLogFaults /\ EarlyCrashes

RecoveryInv == MemoryInv /\ NodeInv /\ BlockAtHand

LEMMA MemoryTypes == MemoryInv => TypeInv /\ TypeOK /\ ProcessedIsSpent
  BY DEF MemoryInv, EarlyInv, CommitInv, TypeInv

LEMMA StepRecovery ==
  ASSUME RecoveryFaults, RecoveryInv, [RNext]_<<vars, nodeVars>>
  PROVE  RecoveryInv'
<1>1. MemoryInv'
  <2>1. CASE CrashAndRestart
    BY <2>1, CrashMemory DEF RecoveryInv, RecoveryFaults
  <2>2. CASE ~CrashAndRestart
    BY <2>2, NodeMoves, StepMemory DEF RecoveryInv, RecoveryFaults, NodeInv
  <2> QED BY <2>1, <2>2
<1>2. TypeOK'
  BY <1>1 DEF MemoryInv, EarlyInv, CommitInv, TypeInv
<1> QED BY <1>1, <1>2, StepNode, StepAtHand DEF RecoveryInv

LEMMA InitRecovery == RInit => RecoveryInv
<1> SUFFICES ASSUME RInit PROVE RecoveryInv
  OBVIOUS
<1>1. MemoryInv
  <2>1. Fresh /\ inputs \in Nat
    BY DEF RInit, Init, Fresh
  <2> QED BY <2>1, FreshMemory
<1>2. TypeOK
  BY <1>1, MemoryTypes
<1>3. tip \in Block /\ tip.height = 0 /\ tip.hash = 0
  BY GenesisType DEF RInit
<1>4. RTypeOK
  <2>1. disk \in [1 .. MaxBlocks -> Block \cup {NoBlock}] /\ todo \in Seq(Tx)
    BY DEF RInit
  <2>2. /\ latest = 0 /\ clock = 0 /\ made = 0 /\ replay = 0 /\ crashes = 0
        /\ unsaved = FALSE /\ onChain = TRUE
    BY DEF RInit
  <2>3. MaxBlocks \in Nat /\ MaxCrashes \in Nat
    BY RecoveryConstants DEF RecoveryConstants
  <2>4. unsaved \in BOOLEAN /\ onChain \in BOOLEAN
    BY <2>2
  <2>5. latest \in 0 .. MaxBlocks /\ clock \in 0 .. MaxCrashes /\ made \in 0 .. MaxBlocks
    BY <2>2, <2>3
  <2>6. replay \in 0 .. MaxBlocks + 1 /\ crashes \in 0 .. MaxCrashes
    BY <2>2, <2>3
  <2> QED BY <1>2, <1>3, <2>1, <2>4, <2>5, <2>6 DEF RTypeOK
<1>5. NodeInv
  BY <1>3, <1>4 DEF RInit, Init, NodeInv, DiskInv, LedgerState
<1> QED BY <1>1, <1>5 DEF RecoveryInv, BlockAtHand, RInit, Init

LEMMA RecoveryInvariant == ASSUME RecoveryFaults PROVE RSpec => []RecoveryInv
<1>1. RecoveryInv /\ [RNext]_<<vars, nodeVars>> => RecoveryInv'
  BY StepRecovery
<1> QED BY <1>1, InitRecovery, PTL DEF RSpec

(* With early faults, and crashes before the Prepared record is on disk:   *)
(* in every order of blocks, failed saves, crashes and replays the state   *)
(* of the node stays well typed.                                           *)
THEOREM RecoveryTypes == ASSUME RecoveryFaults PROVE RSpec => []RTypeOK
<1>1. RecoveryInv => RTypeOK
  BY DEF RecoveryInv, NodeInv
<1> QED BY <1>1, RecoveryInvariant, PTL

(* Under the same faults and crashes: a transaction with an idempotency    *)
(* key can never be validated again in the process that holds the key.     *)
THEOREM ProcessedSpentAfterRestart ==
  ASSUME RecoveryFaults PROVE RSpec => []ProcessedIsSpent
<1>1. RecoveryInv => ProcessedIsSpent
  BY MemoryTypes DEF RecoveryInv
<1> QED BY <1>1, RecoveryInvariant, PTL

LEMMA FreshFunds ==
  ASSUME IsFiniteSet(Account), Fresh'
  PROVE  FundsInLedger'
<1>1. LedgerBalance' = GenesisBalance' /\ net' = 0 /\ GenesisBalance' = GenesisBalance
  BY DEF Fresh, LedgerBalance, GenesisBalance
<1>2. TotalOf(GenesisBalance) \in Int
  BY GenesisTotal
<1> QED BY <1>1, <1>2 DEF FundsInLedger, TotalOf

(* Zero fund loss across crashes: the funds of a node, restarted or not,   *)
(* are those of genesis and of the deposits its present process has seen.  *)
THEOREM FundsSurviveRestarts ==
  ASSUME RecoveryFaults, IsFiniteSet(Account) PROVE RSpec => []FundsConserved
<1>1. RInit => FundsInLedger
  <2>1. RInit => LedgerBalance = GenesisBalance /\ net = 0
    BY DEF RInit, Init, LedgerBalance
  <2> QED BY <2>1, GenesisTotal DEF FundsInLedger
<1>2. RecoveryInv /\ FundsInLedger /\ [RNext]_<<vars, nodeVars>> => FundsInLedger'
  <2> SUFFICES ASSUME RecoveryInv, FundsInLedger, [RNext]_<<vars, nodeVars>>
               PROVE  FundsInLedger'
    OBVIOUS
  <2>1. CASE CrashAndRestart
    BY <2>1, CrashClears, FreshFunds DEF RecoveryInv, RecoveryFaults
  <2>2. CASE ~CrashAndRestart
    <3>1. Moves
      BY <2>2, NodeMoves DEF RecoveryInv, NodeInv
    <3>2. LedgerStep
      BY <3>1, StepRefines DEF RecoveryInv, MemoryInv, RecoveryFaults
    <3> QED BY <3>2, LedgerStepConserves, MemoryTypes DEF RecoveryInv
  <2> QED BY <2>1, <2>2
<1>3. RecoveryInv /\ FundsInLedger => FundsConserved
  BY FundsBetweenBlocks DEF RecoveryInv, MemoryInv
<1> QED BY <1>1, <1>2, <1>3, RecoveryInvariant, PTL DEF RSpec

-----------------------------------------------------------------------------
(* What a list of transactions makes of a ledger.  Takes: the transaction  *)
(* has its effect or has had it before, and its nonce is used up either    *)
(* way; Leads: the transactions take the ledger from L to M, one by one.   *)

SpentIn(L, t) == t.nonce < L.nonce[t.from]
CanPay(L, t) == L.balance[t.from] >= t.amount /\ L.nonce[t.from] = t.nonce

After(L, t) ==
  IF CanPay(L, t)
    THEN [balance |-> [[L.balance EXCEPT ![t.from] = @ - t.amount]
                                  EXCEPT ![t.to] = @ + t.amount],
          nonce |-> [L.nonce EXCEPT ![t.from] = t.nonce + 1]]
    ELSE L

Takes(L, t, M) == M = After(L, t) /\ SpentIn(M, t)

Leads(L, s, M) ==
  \E r : /\ r[0] = L /\ r[Len(s)] = M
         /\ \A i \in 1 .. Len(s) : Takes(r[i - 1], s[i], r[i])

LEMMA LeadsNowhere ==
  ASSUME NEW L, NEW M PROVE Leads(L, << >>, M) <=> L = M
<1>1. Len(<< >>) = 0
  OBVIOUS
<1>2. ASSUME L = M PROVE Leads(L, << >>, M)
  <2> DEFINE r == [i \in {0} |-> L]
  <2>1. r[0] = L /\ r[Len(<< >>)] = M
    BY <1>1, <1>2
  <2>2. \A i \in 1 .. Len(<< >>) : Takes(r[i - 1], << >>[i], r[i])
    BY <1>1
  <2> HIDE DEF r
  <2> QED BY <2>1, <2>2 DEF Leads
<1>3. ASSUME Leads(L, << >>, M) PROVE L = M
  BY <1>1, <1>3 DEF Leads
<1> QED BY <1>2, <1>3

LEMMA LeadsAppend ==
  ASSUME NEW L, NEW s \in Seq(Tx), NEW M, NEW t \in Tx, NEW N,
         Leads(L, s, M), Takes(M, t, N)
  PROVE  Leads(L, Append(s, t), N)
<1> DEFINE n == Len(s)
           u == Append(s, t)
<1>1. PICK r : /\ r[0] = L /\ r[n] = M
               /\ \A i \in 1 .. n : Takes(r[i - 1], s[i], r[i])
  BY DEF Leads
<1>2. n \in Nat /\ Len(u) = n + 1 /\ u[n + 1] = t /\ \A i \in 1 .. n : u[i] = s[i]
  OBVIOUS
<1> DEFINE q == [i \in 0 .. n + 1 |-> IF i = n + 1 THEN N ELSE r[i]]
<1> HIDE DEF n, u
<1>3. q[n + 1] = N /\ \A i \in 0 .. n : q[i] = r[i]
  BY <1>2
<1> HIDE DEF q
<1>4. \A i \in 1 .. n : i - 1 \in 0 .. n /\ i \in 0 .. n
  BY <1>2
<1>5. \A i \in 1 .. n : Takes(q[i - 1], u[i], q[i])
  BY <1>1, <1>2, <1>3, <1>4
<1>6. (n + 1) - 1 = n /\ n \in 0 .. n /\ 0 \in 0 .. n
  BY <1>2
<1>7. Takes(q[(n + 1) - 1], u[n + 1], q[n + 1])
  BY <1>1, <1>2, <1>3, <1>6
<1>8. \A i \in 1 .. n + 1 : i \in 1 .. n \/ i = n + 1
  BY <1>2
<1>9. \A i \in 1 .. n + 1 : Takes(q[i - 1], u[i], q[i])
  BY <1>5, <1>7, <1>8
<1>10. q[0] = L /\ q[Len(u)] = N
  BY <1>1, <1>2, <1>3, <1>6
<1>11. Leads(L, u, N)
  BY <1>2, <1>9, <1>10 DEF Leads
<1> QED BY <1>11 DEF u

LEMMA LeadsFirst ==
  ASSUME NEW L, NEW s \in Seq(Tx), NEW M, Leads(L, s, M), s # << >>
  PROVE  /\ SpentIn(After(L, Head(s)), Head(s))
         /\ Leads(After(L, Head(s)), Tail(s), M)
<1> DEFINE n == Len(s)
           u == Tail(s)
<1>1. PICK r : /\ r[0] = L /\ r[n] = M
               /\ \A i \in 1 .. n : Takes(r[i - 1], s[i], r[i])
  BY DEF Leads
<1>2. n \in Nat /\ n > 0 /\ Len(u) = n - 1 /\ \A i \in 1 .. n - 1 : u[i] = s[i + 1]
  OBVIOUS
<1>3. Head(s) = s[1]
  OBVIOUS
<1> HIDE DEF n, u
<1>4. 1 \in 1 .. n /\ 1 - 1 = 0
  BY <1>2
<1>5. r[1] = After(L, Head(s)) /\ SpentIn(r[1], Head(s))
  BY <1>1, <1>3, <1>4 DEF Takes
<1> DEFINE q == [i \in 0 .. n - 1 |-> r[i + 1]]
<1>6. \A i \in 0 .. n - 1 : q[i] = r[i + 1]
  OBVIOUS
<1> HIDE DEF q
<1>7. q[0] = r[1] /\ q[Len(u)] = M
  BY <1>1, <1>2, <1>6
<1>8. ASSUME NEW i \in 1 .. n - 1 PROVE Takes(q[i - 1], u[i], q[i])
  <2>1. i - 1 \in 0 .. n - 1 /\ i \in 0 .. n - 1 /\ i + 1 \in 1 .. n /\ (i - 1) + 1 = (i + 1) - 1
    BY <1>2
  <2>2. Takes(r[(i + 1) - 1], s[i + 1], r[i + 1])
    BY <1>1, <2>1
  <2>3. q[i - 1] = r[(i + 1) - 1] /\ q[i] = r[i + 1] /\ u[i] = s[i + 1]
    BY <1>2, <1>6, <2>1
  <2> QED BY <2>2, <2>3
<1>9. Leads(r[1], u, M)
  BY <1>2, <1>7, <1>8 DEF Leads
<1> QED BY <1>5, <1>9 DEF u

(* A transaction whose nonce is used up changes nothing. *)
LEMMA SpentStays ==
  ASSUME NEW L, NEW t \in Tx, L.nonce[t.from] \in Nat, SpentIn(L, t)
  PROVE  After(L, t) = L /\ Takes(L, t, L)
<1>1. t.nonce \in Nat
  BY TxFields
<1>2. ~CanPay(L, t)
  BY <1>1 DEF SpentIn, CanPay
<1>3. After(L, t) = L
  BY <1>2 DEF After
<1> QED BY <1>3 DEF Takes

LEMMA LeadsPad ==
  ASSUME NEW L, NEW p \in Seq(Tx), NEW s \in Seq(Tx), NEW M, Leads(L, s, M),
         \A i \in 1 .. Len(p) : Takes(L, p[i], L)
  PROVE  Leads(L, p \o s, M)
<1> DEFINE m == Len(p)
           n == Len(s)
           u == p \o s
<1>1. PICK r : /\ r[0] = L /\ r[n] = M
               /\ \A i \in 1 .. n : Takes(r[i - 1], s[i], r[i])
  BY DEF Leads
<1>2. /\ m \in Nat /\ n \in Nat /\ Len(u) = m + n
      /\ \A i \in 1 .. m : u[i] = p[i]
      /\ \A i \in m + 1 .. m + n : u[i] = s[i - m]
  OBVIOUS
<1>3. \A i \in 1 .. m : Takes(L, p[i], L)
  OBVIOUS
<1> DEFINE q == [i \in 0 .. m + n |-> IF i <= m THEN L ELSE r[i - m]]
<1> HIDE DEF m, n, u
<1>4. /\ \A i \in 0 .. m : q[i] = L
      /\ \A i \in m + 1 .. m + n : q[i] = r[i - m]
  BY <1>2
<1> HIDE DEF q
<1>5. q[0] = L
  BY <1>2, <1>4
<1>6. q[m + n] = M
  <2>1. CASE n = 0
    BY <1>1, <1>2, <1>4, <2>1
  <2>2. CASE n # 0
    <3>1. m + n \in m + 1 .. m + n /\ (m + n) - m = n
      BY <1>2, <2>2
    <3> QED BY <1>1, <1>4, <3>1
  <2> QED BY <2>1, <2>2
<1>7. ASSUME NEW i \in 1 .. m + n PROVE Takes(q[i - 1], u[i], q[i])
  <2>1. CASE i <= m
    <3>1. i \in 1 .. m /\ i \in 0 .. m /\ i - 1 \in 0 .. m
      BY <1>2, <2>1
    <3>2. q[i - 1] = L /\ q[i] = L /\ u[i] = p[i]
      BY <1>2, <1>4, <3>1
    <3> QED BY <1>3, <3>1, <3>2
  <2>2. CASE ~(i <= m)
    <3>1. i \in m + 1 .. m + n /\ i - m \in 1 .. n
      BY <1>2, <2>2
    <3>2. q[i] = r[i - m] /\ u[i] = s[i - m]
      BY <1>2, <1>4, <3>1
    <3>3. q[i - 1] = r[(i - m) - 1]
      <4>1. CASE i = m + 1
        <5>1. i - 1 \in 0 .. m /\ (i - m) - 1 = 0
          BY <1>2, <4>1
        <5> QED BY <1>1, <1>4, <5>1
      <4>2. CASE i # m + 1
        <5>1. i - 1 \in m + 1 .. m + n /\ (i - 1) - m = (i - m) - 1
          BY <1>2, <3>1, <4>2
        <5> QED BY <1>4, <5>1
      <4> QED BY <4>1, <4>2
    <3>4. Takes(r[(i - m) - 1], s[i - m], r[i - m])
      BY <1>1, <3>1
    <3> QED BY <3>2, <3>3, <3>4
  <2> QED BY <2>1, <2>2
<1>8. Leads(L, u, M)
  BY <1>2, <1>5, <1>6, <1>7 DEF Leads
<1> QED BY <1>8 DEF u

LEMMA SameSeq ==
  ASSUME NEW S, NEW s \in Seq(S), NEW t \in Seq(S), Len(s) = Len(t),
         \A i \in 1 .. Len(s) : s[i] = t[i]
  PROVE  s = t
  OBVIOUS

LEMMA ConcatFacts ==
  ASSUME NEW S, NEW p \in Seq(S), NEW s \in Seq(S)
  PROVE  /\ p \o s \in Seq(S) /\ Len(p \o s) = Len(p) + Len(s)
         /\ \A i \in 1 .. Len(p) : (p \o s)[i] = p[i]
         /\ \A i \in Len(p) + 1 .. Len(p) + Len(s) : (p \o s)[i] = s[i - Len(p)]
  OBVIOUS

(* The transactions of the queue, of the failed ones. *)
TxsOf(q) == [i \in 1 .. Len(q) |-> q[i].tx]

LEMMA TxsOfType ==
  ASSUME NEW q \in Seq(Ctx)
  PROVE  /\ TxsOf(q) \in Seq(Tx) /\ Len(TxsOf(q)) = Len(q)
         /\ \A i \in 1 .. Len(q) : TxsOf(q)[i] = q[i].tx
<1>1. \A i \in 1 .. Len(q) : q[i].tx \in Tx
  <2>1. \A i \in 1 .. Len(q) : q[i] \in Ctx
    OBVIOUS
  <2> QED BY <2>1, CtxUpdate
<1>2. Len(q) \in Nat
  OBVIOUS
<1> QED BY <1>1, <1>2 DEF TxsOf

LEMMA TxsOfAppend ==
  ASSUME NEW q \in Seq(Ctx), NEW c \in Ctx
  PROVE  TxsOf(Append(q, c)) = Append(TxsOf(q), c.tx)
<1> DEFINE u == Append(q, c)
           v == Append(TxsOf(q), c.tx)
<1>1. c.tx \in Tx
  BY CtxUpdate
<1>2. u \in Seq(Ctx) /\ Len(u) = Len(q) + 1 /\ u[Len(q) + 1] = c
      /\ \A i \in 1 .. Len(q) : u[i] = q[i]
  OBVIOUS
<1>3. TxsOf(q) \in Seq(Tx) /\ Len(TxsOf(q)) = Len(q)
      /\ \A i \in 1 .. Len(q) : TxsOf(q)[i] = q[i].tx
  BY TxsOfType
<1>4. v \in Seq(Tx) /\ Len(v) = Len(q) + 1 /\ v[Len(q) + 1] = c.tx
      /\ \A i \in 1 .. Len(q) : v[i] = q[i].tx
  BY <1>1, <1>3
<1>5. TxsOf(u) \in Seq(Tx) /\ Len(TxsOf(u)) = Len(q) + 1
      /\ \A i \in 1 .. Len(q) + 1 : TxsOf(u)[i] = u[i].tx
  BY <1>2, TxsOfType
<1>6. Len(q) \in Nat
  OBVIOUS
<1> HIDE DEF u, v
<1>7. \A i \in 1 .. Len(q) + 1 : TxsOf(u)[i] = v[i]
  <2> SUFFICES ASSUME NEW i \in 1 .. Len(q) + 1 PROVE TxsOf(u)[i] = v[i]
    OBVIOUS
  <2>1. i \in 1 .. Len(q) \/ i = Len(q) + 1
    BY <1>6
  <2> QED BY <1>2, <1>4, <1>5, <2>1
<1>8. TxsOf(u) = v
  BY <1>4, <1>5, <1>7
<1> QED BY <1>8 DEF u, v

LEMMA TxsOfFirst ==
  ASSUME NEW q \in Seq(Ctx), q # << >>
  PROVE  TxsOf(q) = <<Head(q).tx>> \o TxsOf(Tail(q))
<1> DEFINE u == Tail(q)
           v == <<Head(q).tx>> \o TxsOf(u)
<1>1. Head(q) = q[1] /\ Head(q) \in Ctx /\ Head(q).tx \in Tx
  <2>1. Head(q) = q[1] /\ Head(q) \in Ctx
    OBVIOUS
  <2> QED BY <2>1, CtxUpdate
<1>2. u \in Seq(Ctx) /\ Len(u) = Len(q) - 1 /\ \A i \in 1 .. Len(q) - 1 : u[i] = q[i + 1]
  OBVIOUS
<1>3. TxsOf(q) \in Seq(Tx) /\ Len(TxsOf(q)) = Len(q)
      /\ \A i \in 1 .. Len(q) : TxsOf(q)[i] = q[i].tx
  BY TxsOfType
<1>4. TxsOf(u) \in Seq(Tx) /\ Len(TxsOf(u)) = Len(q) - 1
      /\ \A i \in 1 .. Len(q) - 1 : TxsOf(u)[i] = u[i].tx
  BY <1>2, TxsOfType
<1>5. Len(q) \in Nat /\ Len(q) > 0
  OBVIOUS
<1> HIDE DEF u
<1>6. v \in Seq(Tx) /\ Len(v) = Len(q) /\ v[1] = Head(q).tx
      /\ \A i \in 2 .. Len(q) : v[i] = TxsOf(u)[i - 1]
  BY <1>1, <1>4, <1>5
<1> HIDE DEF v
<1>7. ASSUME NEW i \in 1 .. Len(q) PROVE TxsOf(q)[i] = v[i]
  <2>1. CASE i = 1
    BY <1>1, <1>3, <1>6, <2>1
  <2>2. CASE i # 1
    <3>1. i \in 2 .. Len(q) /\ i - 1 \in 1 .. Len(q) - 1 /\ (i - 1) + 1 = i
      BY <1>5, <2>2
    <3>2. TxsOf(u)[i - 1] = u[i - 1].tx /\ u[i - 1] = q[i]
      BY <1>2, <1>4, <3>1
    <3> QED BY <1>3, <1>6, <3>1, <3>2
  <2> QED BY <2>1, <2>2
<1>8. TxsOf(q) = v
  BY <1>3, <1>6, <1>7, SameSeq
<1> QED BY <1>8 DEF u, v

LEMMA OneMore ==
  ASSUME NEW t \in Tx, NEW s \in Seq(Tx)
  PROVE  /\ <<t>> \o s \in Seq(Tx) /\ <<t>> \o s # << >>
         /\ Head(<<t>> \o s) = t /\ Tail(<<t>> \o s) = s
<1> DEFINE u == <<t>> \o s
<1>1. u \in Seq(Tx) /\ Len(u) = Len(s) + 1 /\ u[1] = t /\ Len(s) \in Nat
      /\ \A i \in 1 .. Len(s) : u[i + 1] = s[i]
  OBVIOUS
<1> HIDE DEF u
<1>2. u # << >> /\ Head(u) = t
  BY <1>1
<1>3. Tail(u) \in Seq(Tx) /\ Len(Tail(u)) = Len(s) /\ \A i \in 1 .. Len(s) : Tail(u)[i] = s[i]
  BY <1>1, <1>2
<1>4. Tail(u) = s
  BY <1>3, SameSeq
<1> QED BY <1>1, <1>2, <1>4 DEF u

LEMMA MoveOver ==
  ASSUME NEW p \in Seq(Tx), NEW s \in Seq(Tx), s # << >>
  PROVE  Append(p, Head(s)) \o Tail(s) = p \o s
<1>1. Head(s) \in Tx /\ Head(s) = s[1] /\ Tail(s) \in Seq(Tx) /\ Len(Tail(s)) = Len(s) - 1
      /\ \A i \in 1 .. Len(s) - 1 : Tail(s)[i] = s[i + 1]
  OBVIOUS
<1>2. Len(s) \in Nat /\ Len(s) > 0 /\ Len(p) \in Nat
  OBVIOUS
<1> DEFINE a == Append(p, Head(s))
           z == Tail(s)
           u == a \o z
           v == p \o s
<1>3. a \in Seq(Tx) /\ Len(a) = Len(p) + 1 /\ a[Len(p) + 1] = s[1]
      /\ \A i \in 1 .. Len(p) : a[i] = p[i]
  BY <1>1
<1>4. v \in Seq(Tx) /\ Len(v) = Len(p) + Len(s) /\ (\A i \in 1 .. Len(p) : v[i] = p[i])
      /\ \A i \in Len(p) + 1 .. Len(p) + Len(s) : v[i] = s[i - Len(p)]
  OBVIOUS
<1>5. z \in Seq(Tx) /\ Len(z) = Len(s) - 1 /\ \A i \in 1 .. Len(s) - 1 : z[i] = s[i + 1]
  BY <1>1
<1> HIDE DEF a, z
<1>6. u \in Seq(Tx) /\ Len(u) = Len(a) + Len(z) /\ (\A i \in 1 .. Len(a) : u[i] = a[i])
      /\ \A i \in Len(a) + 1 .. Len(a) + Len(z) : u[i] = z[i - Len(a)]
  <2>1. a \in Seq(Tx) /\ z \in Seq(Tx)
    BY <1>3, <1>5
  <2> HIDE DEF u, v
  <2>2. u = a \o z
    BY DEF u
  <2>3. /\ a \o z \in Seq(Tx) /\ Len(a \o z) = Len(a) + Len(z)
        /\ (\A i \in 1 .. Len(a) : (a \o z)[i] = a[i])
        /\ \A i \in Len(a) + 1 .. Len(a) + Len(z) : (a \o z)[i] = z[i - Len(a)]
    BY <2>1, ConcatFacts
  <2> QED BY <2>2, <2>3
<1> HIDE DEF u, v
<1>7. Len(u) = Len(v)
  BY <1>2, <1>3, <1>4, <1>5, <1>6
<1>8. ASSUME NEW i \in 1 .. Len(v) PROVE u[i] = v[i]
  <2>1. CASE i <= Len(p)
    <3>1. i \in 1 .. Len(p) /\ i \in 1 .. Len(a)
      BY <1>2, <1>3, <2>1
    <3> QED BY <1>3, <1>4, <1>6, <3>1
  <2>2. CASE i = Len(p) + 1
    <3>1. i \in 1 .. Len(a) /\ i \in Len(p) + 1 .. Len(p) + Len(s) /\ i - Len(p) = 1
      BY <1>2, <1>3, <2>2
    <3> QED BY <1>3, <1>4, <1>6, <2>2, <3>1
  <2>3. CASE i > Len(p) + 1
    <3>1. /\ i \in Len(a) + 1 .. Len(a) + Len(z) /\ i \in Len(p) + 1 .. Len(p) + Len(s)
          /\ i - Len(a) \in 1 .. Len(s) - 1 /\ (i - Len(a)) + 1 = i - Len(p)
      <4>1. /\ Len(a) = Len(p) + 1 /\ Len(z) = Len(s) - 1 /\ i \in Int
            /\ i <= Len(p) + Len(s)
        BY <1>2, <1>3, <1>4, <1>5
      <4> QED BY <1>2, <2>3, <4>1
    <3>2. u[i] = z[i - Len(a)] /\ z[i - Len(a)] = s[i - Len(p)]
      BY <1>5, <1>6, <3>1
    <3> QED BY <1>4, <3>1, <3>2
  <2>4. i \in Int
    OBVIOUS
  <2>5. i <= Len(p) \/ i = Len(p) + 1 \/ i > Len(p) + 1
    <3>1. \A m \in Nat, k \in Int : k <= m \/ k = m + 1 \/ k > m + 1
      OBVIOUS
    <3>2. Len(p) \in Nat
      BY <1>2
    <3> QED BY <2>4, <3>1, <3>2, Zenon
  <2> QED BY <2>1, <2>2, <2>3, <2>5
<1>9. u = v
  BY <1>4, <1>6, <1>7, <1>8, SameSeq
<1> QED BY <1>9 DEF u, v, a, z

(* A block lists same-shard transactions before cross-shard ones. *)
SamesFirst(s) ==
  \A i, j \in 1 .. Len(s) : i < j /\ IsCrossShard(s[i]) => IsCrossShard(s[j])

LEMMA SamesFirstAppend ==
  ASSUME NEW s \in Seq(Tx), NEW t \in Tx, SamesFirst(s),
         IsCrossShard(t) \/ \A i \in 1 .. Len(s) : ~IsCrossShard(s[i])
  PROVE  SamesFirst(Append(s, t))
<1> DEFINE u == Append(s, t)
<1>1. Len(u) = Len(s) + 1 /\ u[Len(s) + 1] = t /\ Len(s) \in Nat
      /\ \A i \in 1 .. Len(s) : u[i] = s[i]
  OBVIOUS
<1> HIDE DEF u
<1>2. ASSUME NEW i \in 1 .. Len(u), NEW j \in 1 .. Len(u), i < j, IsCrossShard(u[i])
      PROVE  IsCrossShard(u[j])
  <2>1. i \in 1 .. Len(s) /\ (j \in 1 .. Len(s) \/ j = Len(s) + 1)
    <3>1. i \in Int /\ j \in Int /\ 1 <= i /\ i < j /\ j <= Len(s) + 1
      BY <1>1, <1>2
    <3>2. \A n \in Nat, k \in Int, m \in Int :
            1 <= k /\ k < m /\ m <= n + 1 => k \in 1 .. n /\ (m \in 1 .. n \/ m = n + 1)
      OBVIOUS
    <3>3. Len(s) \in Nat
      BY <1>1
    <3> QED BY <3>1, <3>2, <3>3
  <2>2. IsCrossShard(s[i])
    BY <1>1, <1>2, <2>1
  <2> QED BY <1>1, <1>2, <2>1, <2>2 DEF SamesFirst
<1>3. SamesFirst(u)
  BY <1>2 DEF SamesFirst
<1> QED BY <1>3 DEF u

LEMMA SamesFirstRest ==
  ASSUME NEW s \in Seq(Tx), SamesFirst(s), s # << >>
  PROVE  /\ SamesFirst(Tail(s))
         /\ IsCrossShard(Head(s)) =>
              /\ \A i \in 1 .. Len(s) : IsCrossShard(s[i])
              /\ \A i \in 1 .. Len(Tail(s)) : IsCrossShard(Tail(s)[i])
<1>1. /\ Len(s) \in Nat /\ Len(s) > 0 /\ Head(s) = s[1] /\ Len(Tail(s)) = Len(s) - 1
      /\ \A i \in 1 .. Len(s) - 1 : Tail(s)[i] = s[i + 1]
  OBVIOUS
<1> DEFINE u == Tail(s)
<1>2. Len(u) = Len(s) - 1 /\ \A i \in 1 .. Len(s) - 1 : u[i] = s[i + 1]
  BY <1>1
<1> HIDE DEF u
<1>3. ASSUME NEW i \in 1 .. Len(u), NEW j \in 1 .. Len(u), i < j, IsCrossShard(u[i])
      PROVE  IsCrossShard(u[j])
  <2>1. i + 1 \in 1 .. Len(s) /\ j + 1 \in 1 .. Len(s) /\ i + 1 < j + 1
    BY <1>1, <1>2, <1>3
  <2>2. u[i] = s[i + 1] /\ u[j] = s[j + 1]
    BY <1>2
  <2> QED BY <1>3, <2>1, <2>2 DEF SamesFirst
<1>4. ASSUME IsCrossShard(s[1]) PROVE \A i \in 1 .. Len(s) : IsCrossShard(s[i])
  <2> SUFFICES ASSUME NEW i \in 1 .. Len(s) PROVE IsCrossShard(s[i])
    OBVIOUS
  <2>1. 1 \in 1 .. Len(s) /\ (i = 1 \/ 1 < i)
    BY <1>1
  <2> QED BY <1>4, <2>1 DEF SamesFirst
<1>5. ASSUME IsCrossShard(s[1]) PROVE \A i \in 1 .. Len(u) : IsCrossShard(u[i])
  <2> SUFFICES ASSUME NEW i \in 1 .. Len(u) PROVE IsCrossShard(u[i])
    OBVIOUS
  <2>1. i + 1 \in 1 .. Len(s) /\ u[i] = s[i + 1]
    BY <1>1, <1>2
  <2> QED BY <1>4, <1>5, <2>1
<1>6. SamesFirst(u)
  BY <1>3 DEF SamesFirst
<1> QED BY <1>1, <1>4, <1>5, <1>6 DEF u

-----------------------------------------------------------------------------
(* A queue pass, seen from the ledger.  A transaction taken from the queue *)
(* has its effect on the view of the ledger in one step (the debit) or is  *)
(* given up because it cannot have one; the view changes at no other step. *)

BeforeEffect == {"start", "preparing", "lock", "validate", "proof", "prepared",
                 "committing", "debit"}
AfterEffect == {"credit", "merkle", "committed", "finish"}
GivenUp == {"aborting", "rollback"}

View == [balance |-> LedgerBalance, nonce |-> nonce]

(* An account that holds something has an entry in its shard. *)
KnownInv == \A a \in Account : balance[a] > 0 => a \in known

NoFaults == TimeoutAt = {} /\ LogFailsAt = {}

Taken ==
  /\ pc = "take" /\ pc' \in BeforeEffect /\ queue # << >>
  /\ cur' = Head(queue) /\ queue' = Tail(queue)
  /\ UNCHANGED <<View, failed, block>>

Skipped ==
  /\ pc \in BeforeEffect /\ pc' = "take"
  /\ SpentIn(View, cur.tx)
  /\ block' = Append(block, cur.tx)
  /\ UNCHANGED <<View, queue, failed>>

Quiet ==
  /\ \/ pc \in BeforeEffect /\ pc' \in BeforeEffect
     \/ pc \in AfterEffect /\ pc' \in AfterEffect
     \/ pc \in GivenUp /\ pc' \in GivenUp
  /\ cur'.tx = cur.tx
  /\ UNCHANGED <<View, queue, failed, block>>

Refused ==
  /\ pc \in BeforeEffect /\ pc' \in GivenUp
  /\ cur'.tx = cur.tx
  /\ ~CanPay(View, cur.tx)
  /\ UNCHANGED <<View, queue, failed, block>>

Effective ==
  /\ pc \in BeforeEffect /\ pc' \in AfterEffect
  /\ cur'.tx = cur.tx
  /\ CanPay(View, cur.tx)
  /\ View' = After(View, cur.tx)
  /\ UNCHANGED <<queue, failed, block>>

Done ==
  /\ pc \in AfterEffect /\ pc' = "take"
  /\ block' = Append(block, cur.tx)
  /\ UNCHANGED <<View, queue, failed>>

PutBack ==
  /\ pc \in GivenUp /\ pc' = "take"
  /\ \/ failed' = failed
     \/ \E d \in Ctx : d.tx = cur.tx /\ failed' = Append(failed, d)
  /\ UNCHANGED <<View, queue, block>>

(* Outside the steps before the credit the view is the balances. *)
LEMMA PlainView == ASSUME pc # "credit" PROVE View = LedgerNow
  BY DEF View, LedgerBalance, LedgerNow

LEMMA SameView ==
  ASSUME pc # "credit", pc' # "credit", UNCHANGED <<balance, nonce>>
  PROVE  View' = View
  BY DEF View, LedgerBalance

LEMMA ViewType ==
  ASSUME TypeInv
  PROVE  /\ View.nonce = nonce /\ View.balance = LedgerBalance
         /\ \A t \in Tx : View.nonce[t.from] \in Nat
  BY TxFields DEF View, TypeInv, TypeOK

LEMMA TakenTurn == ASSUME TypeInv, TakeNext PROVE Taken
<1>1. pc = "take" /\ pc' = "start" /\ UNCHANGED <<balance, nonce>>
  BY DEF TakeNext
<1>2. View' = View
  BY <1>1, SameView
<1> QED BY <1>2 DEF TakeNext, Taken, BeforeEffect

LEMMA SkippedTurn == ASSUME TypeInv, ProcessedIsSpent, SkipProcessed PROVE Skipped
<1>1. pc = "start" /\ pc' = "take" /\ UNCHANGED <<balance, nonce>> /\ cur.tx \in processed
  BY DEF SkipProcessed, Succeed
<1>2. View' = View
  BY <1>1, SameView
<1>3. SpentIn(View, cur.tx)
  BY <1>1, ViewType DEF ProcessedIsSpent, SpentIn
<1> QED BY <1>1, <1>2, <1>3 DEF SkipProcessed, Succeed, Skipped, BeforeEffect

LEMMA QuietTurn ==
  ASSUME TypeInv,
         \/ LogStart \/ LogPreparing \/ AcquireLock \/ ValidateSender \/ CaptureProof
         \/ LogPrepared \/ LogCommitting \/ CreditDestination \/ UpdateMerkle
         \/ LogCommitted \/ LogAborting
  PROVE  Quiet
<1>1. /\ pc \in Busy
      /\ \/ pc \in BeforeEffect /\ pc' \in BeforeEffect
         \/ pc \in AfterEffect /\ pc' \in AfterEffect
         \/ pc \in GivenUp /\ pc' \in GivenUp
      /\ UNCHANGED <<nonce, queue, failed, block>>
  BY DEF LogStart, LogPreparing, AcquireLock, ValidateSender, CaptureProof, LogPrepared,
         LogCommitting, CreditDestination, UpdateMerkle, LogCommitted, LogAborting, LogStep,
         Busy, BeforeEffect, AfterEffect, GivenUp
<1>2. cur'.tx = cur.tx
  <2>1. CASE ValidateSender \/ LogStart \/ LogPreparing \/ LogPrepared \/ LogCommitting
             \/ LogCommitted \/ LogAborting
    <3>1. cur \in Ctx
      BY <1>1, CurFields
    <3>2. \E r : cur' = [cur EXCEPT !.rollback = r] \/ cur' = [cur EXCEPT !.state = r]
      BY <2>1 DEF ValidateSender, LogStart, LogPreparing, LogPrepared, LogCommitting,
         LogCommitted, LogAborting, LogStep, WriteLog
    <3> QED BY <3>1, <3>2 DEF Ctx
  <2>2. CASE AcquireLock \/ CaptureProof \/ CreditDestination \/ UpdateMerkle
    BY <2>2 DEF AcquireLock, CaptureProof, CreditDestination, UpdateMerkle
  <2> QED BY <2>1, <2>2
<1>3. View' = View
  <2>1. CASE CreditDestination
    <3>1. LedgerBalance' = LedgerBalance
      BY <2>1 DEF CreditDestination, LedgerBalance, Credited
    <3> QED BY <1>1, <3>1 DEF View
  <2>2. CASE ~CreditDestination
    <3>1. pc # "credit" /\ pc' # "credit" /\ UNCHANGED <<balance, nonce>>
      BY <2>2 DEF LogStart, LogPreparing, AcquireLock, ValidateSender, CaptureProof,
         LogPrepared, LogCommitting, UpdateMerkle, LogCommitted, LogAborting, LogStep
    <3> QED BY <3>1, SameView
  <2> QED BY <2>1, <2>2
<1> QED BY <1>1, <1>2, <1>3 DEF Quiet

LEMMA RefusedTurn ==
  ASSUME TypeInv, KnownInv, LockInv, LockIsTaken \/ RejectSender
  PROVE  Refused
<1>1. CASE LockIsTaken
  BY <1>1 DEF LockIsTaken, LockInv, Unlocked
<1>2. CASE RejectSender
  <2>1. /\ pc = "validate" /\ pc \in Busy /\ pc' = "aborting"
        /\ ~(cur.tx.from \in known /\ ValidInShard(cur.tx))
        /\ UNCHANGED <<balance, nonce, queue, failed, cur, block>>
    BY <1>2 DEF RejectSender, Busy
  <2>2. View' = View /\ View = LedgerNow
    BY <2>1, SameView, PlainView
  <2>3. ~CanPay(View, cur.tx)
    <3>1. CASE cur.tx.from \in known
      BY <2>1, <2>2, <3>1 DEF ValidInShard, CanPay, LedgerNow
    <3>2. CASE cur.tx.from \notin known
      <4>1. cur.tx.from \in Account /\ balance[cur.tx.from] \in Nat
            /\ cur.tx.amount \in Nat /\ cur.tx.amount > 0
        BY <2>1, CurFields
      <4>2. ~(balance[cur.tx.from] >= cur.tx.amount)
        BY <3>2, <4>1 DEF KnownInv
      <4> QED BY <2>2, <4>2 DEF CanPay, LedgerNow
    <3> QED BY <3>1, <3>2
  <2> QED BY <2>1, <2>2, <2>3 DEF Refused, BeforeEffect, GivenUp
<1> QED BY <1>1, <1>2

LEMMA EffectiveTurn == ASSUME CommitInv, DebitSource PROVE Effective
<1> DEFINE t == cur.tx
<1>1. /\ pc = "debit" /\ pc' = "credit" /\ cur' = cur
      /\ balance[t.from] >= t.amount /\ nonce[t.from] = t.nonce
      /\ balance' = [balance EXCEPT ![t.from] = @ - t.amount]
      /\ nonce' = [nonce EXCEPT ![t.from] = t.nonce + 1]
      /\ UNCHANGED <<queue, failed>>
  BY DebitSucceeds
<1>2. block' = block
  BY DEF DebitSource
<1>3. View = LedgerNow
  BY <1>1, PlainView
<1>4. LedgerBalance' = [balance' EXCEPT ![t.to] = @ + t.amount]
  BY <1>1 DEF LedgerBalance
<1>5. CanPay(View, t)
  BY <1>1, <1>3 DEF CanPay, LedgerNow
<1>6. View' = After(View, t)
  <2>1. View' = [balance |-> LedgerBalance', nonce |-> nonce']
    BY DEF View
  <2>2. View.balance = balance /\ View.nonce = nonce
    BY <1>3 DEF LedgerNow
  <2> HIDE DEF t
  <2> QED BY <1>1, <1>4, <1>5, <2>1, <2>2 DEF After
<1> QED BY <1>1, <1>2, <1>5, <1>6 DEF Effective, BeforeEffect, AfterEffect

LEMMA DoneTurn == ASSUME TypeInv, Finish PROVE Done
<1>1. pc = "finish" /\ pc' = "take" /\ UNCHANGED <<balance, nonce>>
  BY DEF Finish, Succeed
<1>2. View' = View
  BY <1>1, SameView
<1> QED BY <1>1, <1>2 DEF Finish, Succeed, Done, AfterEffect

LEMMA PutBackTurn == ASSUME TypeInv, NoStaleRollback, Rollback PROVE PutBack
<1> DEFINE d == [cur EXCEPT !.state = "Aborted"]
           e == [d EXCEPT !.retry = @ + 1]
<1>1. pc = "rollback" /\ pc \in Busy /\ pc' = "take" /\ UNCHANGED <<queue, block>>
  BY DEF Rollback, Fail, Busy
<1>2. View' = View
  BY <1>1, RollbackIsStutter, SameView
<1>3. cur \in Ctx
  BY <1>1, CurFields
<1>4. d \in Ctx /\ d.tx = cur.tx /\ Fail(d)
  BY <1>3, CtxUpdate DEF Rollback, CommitState, Ctx
<1> HIDE DEF d
<1>5. CASE d.retry + 1 < MaxAttempts
  <2>1. e \in Ctx /\ e.tx = cur.tx
    BY <1>4, <1>5, CtxUpdate DEF Ctx
  <2>2. failed' = Append(failed, e)
    BY <1>4, <1>5 DEF Fail
  <2> HIDE DEF e
  <2> QED BY <1>1, <1>2, <2>1, <2>2 DEF PutBack, GivenUp
<1>6. CASE ~(d.retry + 1 < MaxAttempts)
  <2>1. failed' = failed
    BY <1>4, <1>6 DEF Fail
  <2> QED BY <1>1, <1>2, <2>1 DEF PutBack, GivenUp
<1> QED BY <1>5, <1>6

LEMMA Turns ==
  ASSUME NoFaults, MemoryInv, KnownInv, CommitStep
  PROVE  Taken \/ Skipped \/ Quiet \/ Refused \/ Effective \/ Done \/ PutBack
<1>1. TypeInv /\ CommitInv /\ NoStaleRollback /\ ProcessedIsSpent /\ LockInv
  BY DEF MemoryInv, EarlyInv, CommitInv
<1>2. ~Timeout /\ ~LogFails
  BY DEF NoFaults, Timeout, LogFails
<1> QED BY <1>1, <1>2, TakenTurn, SkippedTurn, QuietTurn, RefusedTurn, EffectiveTurn,
        DoneTurn, PutBackTurn DEF CommitStep, Prepare, Commit, Abort

LEMMA StepKnown ==
  ASSUME EarlyInv, KnownInv, Moves
  PROVE  KnownInv'
<1>1. TypeInv /\ NoStaleRollback
  BY DEF EarlyInv, CommitInv
<1>2. CASE UNCHANGED <<balance, known>>
  BY <1>2 DEF KnownInv
<1>3. ASSUME NEW a \in Account, NEW amt \in Amount, AddBalance(a, amt)
      PROVE  KnownInv'
  BY <1>1, <1>3 DEF AddBalance, KnownInv, TypeInv, TypeOK
<1>4. ASSUME NEW a \in Account, NEW amt \in Amount, DeductBalance(a, amt)
      PROVE  KnownInv'
  <2>1. balance' = [balance EXCEPT ![a] = @ - amt] /\ a \in known /\ known' = known
    BY <1>4 DEF DeductBalance
  <2> QED BY <1>1, <2>1 DEF KnownInv, TypeInv, TypeOK
<1>5. ASSUME NEW t \in Tx, ApplySameShard(t)
      PROVE  KnownInv'
  <2>1. /\ balance' = [[balance EXCEPT ![t.from] = @ - t.amount] EXCEPT ![t.to] = @ + t.amount]
        /\ known' = known \cup {t.to} /\ balance[t.from] >= t.amount
    BY <1>5 DEF ApplySameShard, ValidInShard
  <2>2. t.from \in Account /\ t.to \in Account /\ t.amount \in Nat /\ t.amount > 0
    BY TxFields
  <2>3. balance \in [Account -> Nat]
    BY <1>1 DEF TypeInv, TypeOK
  <2>4. t.from \in known
    BY <2>1, <2>2, <2>3 DEF KnownInv
  <2> QED BY <2>1, <2>2, <2>3, <2>4 DEF KnownInv
<1>6. CASE DebitSource
  <2>1. /\ balance' = [balance EXCEPT ![cur.tx.from] = @ - cur.tx.amount] /\ known' = known
        /\ cur.tx.from \in known
    BY <1>6, DebitSucceeds DEF DebitSource, EarlyInv, CommitInv, SenderUnchanged
  <2>2. balance \in [Account -> Nat]
    BY <1>1 DEF TypeInv, TypeOK
  <2> QED BY <2>1, <2>2 DEF KnownInv
<1>7. CASE CreditDestination
  <2>1. /\ balance' = [balance EXCEPT ![cur.tx.to] = @ + cur.tx.amount]
        /\ known' = known \cup {cur.tx.to}
    BY <1>7 DEF CreditDestination, Credited
  <2>2. balance \in [Account -> Nat]
    BY <1>1 DEF TypeInv, TypeOK
  <2> QED BY <2>1, <2>2 DEF KnownInv
<1>8. CASE Rollback
  BY <1>1, <1>2, <1>8, RollbackIsStutter DEF Rollback
<1> QED BY <1>2, <1>3, <1>4, <1>5, <1>6, <1>7, <1>8 DEF Moves, Funding, BeginBlock,
    Offering, QueueCross, BeginQueue, QueuePass, TakeNext, EndQueue, SkipProcessed,
    Prepare, LogStart, LogPreparing, AcquireLock, LockIsTaken, ValidateSender,
    RejectSender, CaptureProof, LogPrepared, Commit, LogCommitting, UpdateMerkle,
    LogCommitted, Finish, Abort, LogAborting, LogStep, Timeout, LogFails, vars

LEMMA FreshKnown == ASSUME Fresh' PROVE KnownInv'
<1>1. balance' = GenesisBalance' /\ known' = DOMAIN Genesis
  BY DEF Fresh
<1> QED BY <1>1 DEF KnownInv, GenesisBalance

-----------------------------------------------------------------------------
(* A block is sound if its transactions lead from the ledger of the block  *)
(* before it to its own.  Production keeps the list of the block in step   *)
(* with the view of the ledger; a replay has on its hands what still leads *)
(* to the ledger of the block it applies, and nothing else that could have *)
(* an effect.                                                              *)

LedgerIn(at, hash) == IF hash = 0 THEN Ledger0 ELSE at[hash]

Sound(at, b) ==
  /\ b.hash \in 1 .. Len(at) /\ b.prev \in 0 .. Len(at)
  /\ SamesFirst(b.txs)
  /\ Leads(LedgerIn(at, b.prev), b.txs, LedgerIn(at, b.hash))

StoredSound ==
  /\ \A h \in 1 .. MaxBlocks : disk[h] # NoBlock => Sound(ledgerAt, disk[h])
  /\ unsaved => Sound(ledgerAt, tip)

Following == pc = "idle" => LedgerNow = LedgerIn(ledgerAt, tip.hash)

(* The transaction whose effect is in the view is as good as listed. *)
Executed == IF pc \in AfterEffect THEN Append(block, cur.tx) ELSE block

Producing ==
  ~Restarting /\ pc # "idle" =>
    /\ Leads(LedgerIn(ledgerAt, tip.hash), Executed, View)
    /\ SamesFirst(block)
    /\ pc = "batch" => \A i \in 1 .. Len(block) : ~IsCrossShard(block[i])

Target == LedgerIn(ledgerAt, disk[replay].hash)

AllSpent(L, q) == \A i \in 1 .. Len(q) : SpentIn(L, q[i].tx)
AllCross(s) == \A i \in 1 .. Len(s) : IsCrossShard(s[i])

(* First the same-shard transactions of the block, with nothing but used   *)
(* transactions in the queue; then the cross-shard ones join the queue.    *)
ReplayingBatch ==
  Restarting /\ pc = "batch" =>
    /\ SamesFirst(todo)
    /\ \/ AllSpent(View, queue) /\ Leads(View, todo, Target)
       \/ AllCross(todo) /\ Leads(View, TxsOf(queue) \o todo, Target)

Pending == IF pc \in BeforeEffect THEN <<cur.tx>> \o TxsOf(queue) ELSE TxsOf(queue)

ReplayingQueue ==
  Restarting /\ pc \in {"take"} \cup Busy =>
    /\ Leads(View, Pending, Target)
    /\ AllSpent(View, failed)
    /\ pc \in GivenUp => SpentIn(View, cur.tx)

ReplayingNext == Restarting /\ pc = "idle" => AllSpent(View, queue)

Chain ==
  /\ StoredSound /\ Following /\ Producing
  /\ ReplayingBatch /\ ReplayingQueue /\ ReplayingNext

(* Failed transactions wait only while a queue pass runs. *)
FailedInv == pc \in {"idle", "batch"} => failed = << >>

ChainInv == KnownInv /\ FailedInv /\ (onChain => Chain)

LEMMA SpentLasts ==
  ASSUME TypeInv, NEW t \in Tx, NEW u \in Tx, SpentIn(View, u)
  PROVE  SpentIn(After(View, t), u)
<1>1. CASE ~CanPay(View, t)
  BY <1>1 DEF After
<1>2. CASE CanPay(View, t)
  <2>1. /\ View.nonce = nonce /\ nonce \in [Account -> Nat] /\ nonce[t.from] = t.nonce
        /\ u.nonce < nonce[u.from]
    BY <1>2, ViewType DEF CanPay, SpentIn, TypeInv, TypeOK
  <2>2. t.from \in Account /\ u.from \in Account /\ t.nonce \in Nat /\ u.nonce \in Nat
    BY TxFields
  <2>3. After(View, t).nonce = [nonce EXCEPT ![t.from] = t.nonce + 1]
    BY <1>2, <2>1 DEF After
  <2>4. u.nonce < After(View, t).nonce[u.from]
    BY <2>1, <2>2, <2>3
  <2> QED BY <2>4 DEF SpentIn
<1> QED BY <1>1, <1>2

LEMMA ViewSpent ==
  ASSUME TypeInv, NEW t \in Tx, SpentIn(View, t)
  PROVE  After(View, t) = View /\ Takes(View, t, View)
<1>1. View.nonce[t.from] \in Nat
  BY ViewType
<1> QED BY <1>1, SpentStays

LEMMA ViewEffect ==
  ASSUME TypeInv, NEW t \in Tx, CanPay(View, t)
  PROVE  Takes(View, t, After(View, t))
<1>1. nonce \in [Account -> Nat] /\ View.nonce = nonce
  BY ViewType DEF TypeInv, TypeOK
<1>2. t.from \in Account /\ t.nonce \in Nat
  BY TxFields
<1>3. After(View, t).nonce = [nonce EXCEPT ![t.from] = t.nonce + 1]
  BY <1>1 DEF After
<1>4. t.nonce < After(View, t).nonce[t.from]
  BY <1>1, <1>2, <1>3
<1> QED BY <1>4 DEF Takes, SpentIn

(* Used transactions in front of the queue do not matter. *)
LEMMA SpentQueue ==
  ASSUME TypeInv, NEW s \in Seq(Tx), NEW M, Leads(View, s, M), AllSpent(View, queue)
  PROVE  Leads(View, TxsOf(queue) \o s, M)
<1>1. queue \in Seq(Ctx)
  BY DEF TypeInv, TypeOK
<1>2. TxsOf(queue) \in Seq(Tx) /\ Len(TxsOf(queue)) = Len(queue)
      /\ \A i \in 1 .. Len(queue) : TxsOf(queue)[i] = queue[i].tx
  BY <1>1, TxsOfType
<1>3. ASSUME NEW i \in 1 .. Len(TxsOf(queue)) PROVE Takes(View, TxsOf(queue)[i], View)
  <2>1. TxsOf(queue)[i] \in Tx /\ SpentIn(View, TxsOf(queue)[i])
    BY <1>2 DEF AllSpent
  <2> QED BY <2>1, ViewSpent
<1> QED BY <1>2, <1>3, LeadsPad

(* The current transaction is the first of what is pending before it had   *)
(* its effect.                                                             *)
LEMMA PendingFirst ==
  ASSUME TypeInv, pc \in BeforeEffect, NEW M, Leads(View, Pending, M)
  PROVE  /\ SpentIn(After(View, cur.tx), cur.tx)
         /\ Leads(After(View, cur.tx), TxsOf(queue), M)
<1>1. cur.tx \in Tx /\ queue \in Seq(Ctx)
  BY CurFields DEF BeforeEffect, Busy, TypeInv, TypeOK
<1>2. TxsOf(queue) \in Seq(Tx)
  BY <1>1, TxsOfType
<1> DEFINE u == <<cur.tx>> \o TxsOf(queue)
<1>3. Leads(View, u, M)
  BY DEF Pending
<1>4. u \in Seq(Tx) /\ u # << >> /\ Head(u) = cur.tx /\ Tail(u) = TxsOf(queue)
  BY <1>1, <1>2, OneMore
<1> HIDE DEF u
<1>5. SpentIn(After(View, Head(u)), Head(u)) /\ Leads(After(View, Head(u)), Tail(u), M)
  BY <1>3, <1>4, LeadsFirst
<1> QED BY <1>4, <1>5

LEMMA TurnReplays ==
  ASSUME TypeInv, TypeInv', Restarting, UNCHANGED <<disk, replay, ledgerAt>>,
         pc \in {"take"} \cup Busy, ReplayingQueue,
         Taken \/ Skipped \/ Quiet \/ Refused \/ Effective \/ Done \/ PutBack
  PROVE  ReplayingQueue'
<1> DEFINE M == Target
<1>1. /\ Leads(View, Pending, M) /\ AllSpent(View, failed)
      /\ pc \in GivenUp => SpentIn(View, cur.tx)
  BY DEF ReplayingQueue
<1>2. Target' = M
  BY DEF Target
<1> HIDE DEF M
<1>3. SUFFICES /\ Leads(View', Pending', M)
               /\ \A i \in 1 .. Len(failed') : SpentIn(View', failed'[i].tx)
               /\ pc' \in GivenUp => SpentIn(View', cur'.tx)
  BY <1>2 DEF ReplayingQueue, AllSpent
<1>4. queue \in Seq(Ctx) /\ failed \in Seq(Ctx)
  BY DEF TypeInv, TypeOK
<1>5. /\ pc = "take" => pc \notin BeforeEffect /\ pc \notin GivenUp
      /\ pc' = "take" => pc' \notin BeforeEffect /\ pc' \notin GivenUp
      /\ \A p \in BeforeEffect : p \notin AfterEffect /\ p \notin GivenUp /\ p \in Busy
      /\ \A p \in AfterEffect : p \notin GivenUp
      /\ \A p \in AfterEffect \cup GivenUp : p \notin BeforeEffect /\ p \in Busy
  BY DEF BeforeEffect, AfterEffect, GivenUp, Busy
<1>6. pc \in Busy => cur.tx \in Tx
  BY CurFields
<1>7. CASE Taken
  <2>1. /\ pc = "take" /\ pc' \in BeforeEffect /\ queue # << >>
        /\ cur' = Head(queue) /\ queue' = Tail(queue) /\ View' = View /\ failed' = failed
    BY <1>7 DEF Taken
  <2>2. Pending' = <<Head(queue).tx>> \o TxsOf(Tail(queue))
    BY <2>1 DEF Pending, TxsOf
  <2>3. Pending' = Pending
    BY <1>4, <1>5, <2>1, <2>2, TxsOfFirst DEF Pending
  <2> QED BY <1>1, <1>5, <2>1, <2>3 DEF AllSpent
<1>8. CASE Skipped
  <2>1. /\ pc \in BeforeEffect /\ pc' = "take" /\ SpentIn(View, cur.tx)
        /\ View' = View /\ UNCHANGED <<queue, failed>>
    BY <1>8 DEF Skipped
  <2>2. After(View, cur.tx) = View
    BY <1>5, <1>6, <2>1, ViewSpent
  <2>3. Leads(View, TxsOf(queue), M)
    BY <1>1, <2>1, <2>2, PendingFirst
  <2>4. Pending' = TxsOf(queue)
    BY <1>5, <2>1 DEF Pending, TxsOf
  <2> QED BY <1>1, <1>5, <2>1, <2>3, <2>4 DEF AllSpent
<1>9. CASE Quiet
  <2>1. /\ pc \in BeforeEffect <=> pc' \in BeforeEffect
        /\ pc \in GivenUp <=> pc' \in GivenUp
        /\ cur'.tx = cur.tx /\ View' = View /\ UNCHANGED <<queue, failed>>
    BY <1>5, <1>9 DEF Quiet
  <2>2. Pending' = Pending
    BY <2>1 DEF Pending, TxsOf
  <2> QED BY <1>1, <2>1, <2>2 DEF AllSpent
<1>10. CASE Refused
  <2>1. /\ pc \in BeforeEffect /\ pc' \in GivenUp /\ cur'.tx = cur.tx
        /\ ~CanPay(View, cur.tx) /\ View' = View /\ UNCHANGED <<queue, failed>>
    BY <1>10 DEF Refused
  <2>2. After(View, cur.tx) = View
    BY <2>1 DEF After
  <2>3. SpentIn(View, cur.tx) /\ Leads(View, TxsOf(queue), M)
    BY <1>1, <2>1, <2>2, PendingFirst
  <2>4. Pending' = TxsOf(queue)
    BY <1>5, <2>1 DEF Pending, TxsOf
  <2> QED BY <1>1, <2>1, <2>3, <2>4 DEF AllSpent
<1>11. CASE Effective
  <2>1. /\ pc \in BeforeEffect /\ pc' \in AfterEffect /\ cur'.tx = cur.tx
        /\ View' = After(View, cur.tx) /\ UNCHANGED <<queue, failed>>
    BY <1>11 DEF Effective
  <2>2. Leads(View', TxsOf(queue), M)
    BY <1>1, <2>1, PendingFirst
  <2>3. Pending' = TxsOf(queue)
    BY <1>5, <2>1 DEF Pending, TxsOf
  <2>4. ASSUME NEW i \in 1 .. Len(failed) PROVE SpentIn(View', failed[i].tx)
    <3>1. failed[i] \in Ctx /\ SpentIn(View, failed[i].tx)
      BY <1>1, <1>4 DEF AllSpent
    <3>2. failed[i].tx \in Tx
      BY <3>1, CtxUpdate
    <3> QED BY <1>5, <1>6, <2>1, <3>1, <3>2, SpentLasts
  <2> QED BY <1>5, <2>1, <2>2, <2>3, <2>4
<1>12. CASE Done
  <2>1. pc \in AfterEffect /\ pc' = "take" /\ View' = View /\ UNCHANGED <<queue, failed>>
    BY <1>12 DEF Done
  <2>2. Pending' = Pending
    BY <1>5, <2>1 DEF Pending, TxsOf
  <2> QED BY <1>1, <1>5, <2>1, <2>2 DEF AllSpent
<1>13. CASE PutBack
  <2>1. /\ pc \in GivenUp /\ pc' = "take" /\ View' = View /\ queue' = queue
        /\ \/ failed' = failed
           \/ \E d \in Ctx : d.tx = cur.tx /\ failed' = Append(failed, d)
    BY <1>13 DEF PutBack
  <2>2. Pending' = Pending
    BY <1>5, <2>1 DEF Pending, TxsOf
  <2>3. \A i \in 1 .. Len(failed) : SpentIn(View, failed[i].tx)
    BY <1>1 DEF AllSpent
  <2>4. ASSUME NEW d \in Ctx, d.tx = cur.tx, failed' = Append(failed, d),
               NEW i \in 1 .. Len(failed')
        PROVE  SpentIn(View, failed'[i].tx)
    <3>1. /\ Len(failed') = Len(failed) + 1 /\ failed'[Len(failed) + 1] = d
          /\ Len(failed) \in Nat
      BY <1>4, <2>4
    <3>2. \A j \in 1 .. Len(failed) : failed'[j] = failed[j]
      BY <1>4, <2>4
    <3>3. i \in 1 .. Len(failed) \/ i = Len(failed) + 1
      BY <3>1
    <3> QED BY <1>1, <2>1, <2>3, <2>4, <3>1, <3>2, <3>3
  <2> QED BY <1>1, <1>5, <2>1, <2>2, <2>3, <2>4
<1> QED BY <1>7, <1>8, <1>9, <1>10, <1>11, <1>12, <1>13

LEMMA TurnProduces ==
  ASSUME TypeInv, ~Restarting, UNCHANGED <<tip, replay, ledgerAt>>,
         pc \in {"take"} \cup Busy, Producing,
         Taken \/ Skipped \/ Quiet \/ Refused \/ Effective \/ Done \/ PutBack
  PROVE  Producing'
<1> DEFINE L == LedgerIn(ledgerAt, tip.hash)
<1>1. Leads(L, Executed, View) /\ SamesFirst(block)
  BY DEF Producing, Busy
<1>2. LedgerIn(ledgerAt, tip.hash)' = L
  BY DEF LedgerIn, Ledger0, GenesisBalance
<1> HIDE DEF L
<1>3. pc' # "batch"
  BY DEF Taken, Skipped, Quiet, Refused, Effective, Done, PutBack, BeforeEffect, AfterEffect,
         GivenUp
<1>4. SUFFICES Leads(L, Executed', View') /\ SamesFirst(block')
  BY <1>2, <1>3 DEF Producing, SamesFirst, IsCrossShard
<1>5. block \in Seq(Tx)
  BY DEF TypeInv, TypeOK
<1>6. pc \in Busy => cur.tx \in Tx /\ IsCrossShard(cur.tx)
  BY CurFields DEF TypeInv, CurInv, CrossTx
<1>7. /\ pc = "take" => pc \notin AfterEffect
      /\ pc' = "take" => pc' \notin AfterEffect
      /\ \A p \in BeforeEffect \cup GivenUp : p \notin AfterEffect /\ p \in Busy
      /\ \A p \in AfterEffect : p \in Busy /\ p \notin BeforeEffect \cup GivenUp
  BY DEF BeforeEffect, AfterEffect, GivenUp, Busy
<1>8. pc \in Busy => SamesFirst(Append(block, cur.tx))
  BY <1>1, <1>5, <1>6, SamesFirstAppend
<1>9. CASE Taken \/ Refused \/ PutBack
  <2>1. View' = View /\ block' = block /\ pc \notin AfterEffect /\ pc' \notin AfterEffect
    BY <1>7, <1>9 DEF Taken, Refused, PutBack
  <2> QED BY <1>1, <2>1 DEF Executed
<1>10. CASE Skipped
  <2>1. /\ pc \in BeforeEffect /\ pc' = "take" /\ View' = View /\ SpentIn(View, cur.tx)
        /\ block' = Append(block, cur.tx)
    BY <1>10 DEF Skipped
  <2>2. Takes(View, cur.tx, View)
    BY <1>6, <1>7, <2>1, ViewSpent
  <2>3. Leads(L, block, View)
    BY <1>1, <1>7, <2>1 DEF Executed
  <2>4. Leads(L, block', View)
    BY <1>5, <1>6, <1>7, <2>1, <2>2, <2>3, LeadsAppend
  <2> QED BY <1>7, <1>8, <2>1, <2>4 DEF Executed
<1>11. CASE Quiet
  <2>1. /\ pc \in AfterEffect <=> pc' \in AfterEffect
        /\ cur'.tx = cur.tx /\ View' = View /\ block' = block
    BY <1>7, <1>11 DEF Quiet
  <2> QED BY <1>1, <2>1 DEF Executed
<1>12. CASE Effective
  <2>1. /\ pc \in BeforeEffect /\ pc' \in AfterEffect /\ cur'.tx = cur.tx
        /\ CanPay(View, cur.tx) /\ View' = After(View, cur.tx) /\ block' = block
    BY <1>12 DEF Effective
  <2>2. Takes(View, cur.tx, View')
    BY <1>6, <1>7, <2>1, ViewEffect
  <2>3. Leads(L, block, View)
    BY <1>1, <1>7, <2>1 DEF Executed
  <2>4. Leads(L, Append(block, cur.tx), View')
    BY <1>5, <1>6, <1>7, <2>1, <2>2, <2>3, LeadsAppend
  <2> QED BY <1>1, <2>1, <2>4 DEF Executed
<1>13. CASE Done
  <2>1. pc \in AfterEffect /\ pc' = "take" /\ View' = View /\ block' = Append(block, cur.tx)
    BY <1>13 DEF Done
  <2> QED BY <1>1, <1>7, <1>8, <2>1 DEF Executed
<1> QED BY <1>9, <1>10, <1>11, <1>12, <1>13

(* One more ledger changes nothing about the blocks made before. *)
LEMMA SoundLasts ==
  ASSUME NEW at \in Seq(LedgerState), NEW l \in LedgerState, NEW b, Sound(at, b)
  PROVE  Sound(Append(at, l), b)
<1> DEFINE u == Append(at, l)
<1>1. Len(u) = Len(at) + 1 /\ Len(at) \in Nat /\ \A i \in 1 .. Len(at) : u[i] = at[i]
  OBVIOUS
<1> HIDE DEF u
<1>2. \A h \in 0 .. Len(at) : LedgerIn(u, h) = LedgerIn(at, h)
  BY <1>1 DEF LedgerIn
<1>3. b.hash \in 1 .. Len(at) /\ b.prev \in 0 .. Len(at)
  BY DEF Sound
<1>4. b.hash \in 1 .. Len(u) /\ b.prev \in 0 .. Len(u) /\ b.hash \in 0 .. Len(at)
  BY <1>1, <1>3
<1>5. LedgerIn(u, b.prev) = LedgerIn(at, b.prev) /\ LedgerIn(u, b.hash) = LedgerIn(at, b.hash)
  BY <1>2, <1>3, <1>4
<1>6. Sound(u, b)
  BY <1>4, <1>5 DEF Sound
<1> QED BY <1>6 DEF u

LEMMA Fields ==
  ASSUME RecoveryInv
  PROVE  /\ TypeInv /\ TypeOK /\ RTypeOK /\ MemoryInv /\ NodeInv
         /\ queue \in Seq(Ctx) /\ block \in Seq(Tx) /\ todo \in Seq(Tx)
         /\ balance \in [Account -> Nat] /\ nonce \in [Account -> Nat]
  BY MemoryTypes DEF RecoveryInv, NodeInv, RTypeOK, TypeOK

LEMMA Ledger0Constant == Ledger0' = Ledger0
  BY DEF Ledger0, GenesisBalance

(* What a step leaves to show that keeps the stored blocks, the tip and    *)
(* the replay where they are.                                              *)
LEMMA SameBlocks ==
  ASSUME Chain, UNCHANGED <<disk, tip, unsaved, replay, ledgerAt>>, pc' # "idle",
         Restarting \/ Producing',
         ~Restarting \/ (ReplayingBatch /\ ReplayingQueue)'
  PROVE  Chain'
<1>1. StoredSound'
  BY DEF Chain, StoredSound, Sound, SamesFirst, IsCrossShard, LedgerIn, Ledger0, GenesisBalance
<1>2. Restarting' <=> Restarting
  BY DEF Restarting
<1> QED BY <1>1, <1>2 DEF Chain, Following, Producing, ReplayingBatch, ReplayingQueue,
        ReplayingNext

LEMMA ProduceChain ==
  ASSUME RecoveryInv, Chain, ProduceBlock
  PROVE  Chain'
<1> DEFINE L == LedgerIn(ledgerAt, tip.hash)
<1>1. /\ ~Restarting /\ pc = "idle" /\ pc' = "batch" /\ block' = << >>
      /\ UNCHANGED <<balance, nonce>> /\ UNCHANGED <<disk, tip, unsaved, replay, ledgerAt>>
  BY DEF ProduceBlock, BeginBlock, nodeVars
<1>2. L' = L
  BY <1>1 DEF LedgerIn, Ledger0, GenesisBalance
<1>3. View' = View /\ View = LedgerNow /\ LedgerNow = L
  BY <1>1, SameView, PlainView DEF Chain, Following
<1> HIDE DEF L
<1>4. Leads(L, << >>, View)
  BY <1>3, LeadsNowhere
<1>5. Executed' = << >>
  BY <1>1 DEF Executed, AfterEffect
<1>6. SamesFirst(block)' /\ \A i \in 1 .. Len(block') : ~IsCrossShard(block'[i])
  BY <1>1 DEF SamesFirst
<1>7. Leads(L', Executed', View')
  BY <1>2, <1>3, <1>4, <1>5
<1>8. Producing'
  BY <1>6, <1>7 DEF Producing, L, IsCrossShard
<1> QED BY <1>1, <1>8, SameBlocks

(* A same-shard transaction executes in one step. *)
LEMMA ShardEffect ==
  ASSUME TypeInv, NEW t \in Tx, ApplySameShard(t)
  PROVE  CanPay(View, t) /\ View' = After(View, t) /\ Takes(View, t, View')
<1>1. /\ pc = "batch" /\ pc' = "batch" /\ balance[t.from] >= t.amount /\ nonce[t.from] = t.nonce
      /\ balance' = [[balance EXCEPT ![t.from] = @ - t.amount] EXCEPT ![t.to] = @ + t.amount]
      /\ nonce' = [nonce EXCEPT ![t.from] = t.nonce + 1]
  BY DEF ApplySameShard, ValidInShard
<1>2. View = LedgerNow
  BY <1>1, PlainView
<1>3. LedgerBalance' = balance'
  BY <1>1 DEF LedgerBalance
<1>4. View' = [balance |-> balance', nonce |-> nonce']
  BY <1>3 DEF View
<1>5. View.balance = balance /\ View.nonce = nonce
  BY <1>2 DEF LedgerNow
<1>6. CanPay(View, t)
  BY <1>1, <1>5 DEF CanPay
<1>7. View' = After(View, t)
  BY <1>1, <1>4, <1>5, <1>6 DEF After
<1> QED BY <1>6, <1>7, ViewEffect

LEMMA SubmitChain ==
  ASSUME RecoveryInv, Chain, SubmitTx
  PROVE  Chain'
<1> DEFINE L == LedgerIn(ledgerAt, tip.hash)
<1>1. ~Restarting /\ UNCHANGED <<disk, tip, unsaved, replay, ledgerAt>>
  BY DEF SubmitTx, nodeVars
<1>2. PICK t \in Tx : QueueCross(t) \/ ApplySameShard(t)
  BY DEF SubmitTx
<1>3. pc = "batch" /\ pc' = "batch"
  BY <1>2 DEF QueueCross, ApplySameShard
<1>4. Executed = block /\ Executed' = block'
  BY <1>3 DEF Executed, AfterEffect
<1>5. /\ Leads(L, block, View) /\ SamesFirst(block)
      /\ \A i \in 1 .. Len(block) : ~IsCrossShard(block[i])
  BY <1>1, <1>3, <1>4 DEF Chain, Producing
<1>6. L' = L
  BY <1>1 DEF LedgerIn, Ledger0, GenesisBalance
<1> HIDE DEF L
<1>7. /\ Leads(L, block', View') /\ SamesFirst(block')
      /\ \A i \in 1 .. Len(block') : ~IsCrossShard(block'[i])
  <2>1. CASE QueueCross(t)
    <3>1. View' = View /\ block' = block
      BY <2>1, SameView DEF QueueCross
    <3> QED BY <1>5, <3>1
  <2>2. CASE ApplySameShard(t)
    <3>1. block' = Append(block, t) /\ ~IsCrossShard(t) /\ block \in Seq(Tx) /\ TypeInv
      BY <2>2, Fields DEF ApplySameShard
    <3>2. Takes(View, t, View')
      BY <2>2, <3>1, ShardEffect
    <3>3. Leads(L, block', View')
      BY <1>5, <3>1, <3>2, LeadsAppend
    <3>4. SamesFirst(block')
      BY <1>5, <3>1, SamesFirstAppend
    <3>5. /\ Len(block') = Len(block) + 1 /\ block'[Len(block) + 1] = t /\ Len(block) \in Nat
          /\ \A i \in 1 .. Len(block) : block'[i] = block[i]
      BY <3>1
    <3>6. ASSUME NEW i \in 1 .. Len(block') PROVE ~IsCrossShard(block'[i])
      <4>1. i \in 1 .. Len(block) \/ i = Len(block) + 1
        BY <3>5
      <4> QED BY <1>5, <3>1, <3>5, <4>1
    <3> QED BY <3>3, <3>4, <3>6
  <2> QED BY <1>2, <2>1, <2>2
<1>8. Producing'
  BY <1>4, <1>6, <1>7 DEF Producing, L, IsCrossShard, SamesFirst
<1> QED BY <1>1, <1>3, <1>8, SameBlocks

LEMMA EnterChain ==
  ASSUME RecoveryInv, Chain, FailedInv, EnterQueue
  PROVE  Chain'
<1>1. /\ pc = "batch" /\ pc' = "take" /\ todo = << >>
      /\ UNCHANGED <<balance, nonce, queue, failed, block>>
      /\ UNCHANGED <<disk, tip, unsaved, replay, ledgerAt>>
  BY DEF EnterQueue, BeginQueue, nodeVars
<1>2. View' = View
  BY <1>1, SameView
<1>3. ASSUME ~Restarting PROVE Producing'
  <2>1. Executed' = Executed
    BY <1>1 DEF Executed, AfterEffect
  <2>2. LedgerIn(ledgerAt, tip.hash)' = LedgerIn(ledgerAt, tip.hash)
    BY <1>1 DEF LedgerIn, Ledger0, GenesisBalance
  <2>3. Leads(LedgerIn(ledgerAt, tip.hash), Executed, View) /\ SamesFirst(block)
    BY <1>1, <1>3 DEF Chain, Producing
  <2>4. Leads(LedgerIn(ledgerAt, tip.hash)', Executed', View') /\ SamesFirst(block)'
    BY <1>1, <1>2, <2>1, <2>2, <2>3 DEF SamesFirst, IsCrossShard
  <2> QED BY <1>1, <2>4 DEF Producing
<1>4. ASSUME Restarting PROVE ReplayingQueue'
  <2>1. Target' = Target
    BY <1>1 DEF Target, LedgerIn, Ledger0, GenesisBalance
  <2>2. TypeInv /\ queue \in Seq(Ctx)
    BY Fields
  <2>3. TxsOf(queue) \in Seq(Tx) /\ TxsOf(queue) \o << >> = TxsOf(queue) /\ << >> \in Seq(Tx)
    BY <2>2, TxsOfType
  <2>4. Leads(View, TxsOf(queue) \o << >>, Target)
    <3>1. CASE AllSpent(View, queue) /\ Leads(View, todo, Target)
      BY <1>1, <2>2, <2>3, <3>1, SpentQueue
    <3>2. CASE Leads(View, TxsOf(queue) \o todo, Target)
      BY <1>1, <3>2
    <3> QED BY <1>1, <1>4, <3>1, <3>2 DEF Chain, ReplayingBatch
  <2>5. Pending' = TxsOf(queue)
    BY <1>1 DEF Pending, TxsOf, BeforeEffect
  <2>6. failed' = << >>
    BY <1>1 DEF FailedInv
  <2>7. Leads(View', Pending', Target')
    BY <1>2, <2>1, <2>3, <2>4, <2>5
  <2> QED BY <1>1, <2>6, <2>7 DEF ReplayingQueue, AllSpent, GivenUp
<1>5. ReplayingBatch'
  BY <1>1 DEF ReplayingBatch
<1> QED BY <1>1, <1>3, <1>4, <1>5, SameBlocks

LEMMA CommitChain ==
  ASSUME NoFaults, RecoveryInv, TypeInv', KnownInv, Chain, CommitStep
  PROVE  Chain'
<1>1. /\ pc \in {"take"} \cup Busy /\ pc' \in {"take"} \cup Busy
      /\ UNCHANGED <<disk, tip, unsaved, replay, ledgerAt>>
  BY CommitStepPoints DEF CommitStep, nodeVars
<1>2. Taken \/ Skipped \/ Quiet \/ Refused \/ Effective \/ Done \/ PutBack
  BY Turns DEF RecoveryInv
<1>3. TypeInv
  BY Fields
<1>4. Restarting \/ Producing'
  BY <1>1, <1>2, <1>3, TurnProduces DEF Chain
<1>5. ~Restarting \/ ReplayingQueue'
  BY <1>1, <1>2, <1>3, TurnReplays DEF Chain
<1>6. pc' # "idle" /\ pc' # "batch"
  BY <1>1 DEF Busy
<1>7. ReplayingBatch'
  BY <1>6 DEF ReplayingBatch
<1> QED BY <1>1, <1>4, <1>5, <1>6, <1>7, SameBlocks

(* What is left to show of a step that ends between two blocks. *)
LEMMA BetweenBlocks ==
  ASSUME StoredSound', pc' = "idle",
         LedgerNow' = LedgerIn(ledgerAt', tip'.hash),
         Restarting' => AllSpent(View', queue')
  PROVE  Chain'
  BY DEF Chain, Following, Producing, ReplayingBatch, ReplayingQueue, ReplayingNext, Busy,
         AllSpent, SpentIn, LedgerIn, Ledger0, GenesisBalance

LEMMA CreateChain ==
  ASSUME RecoveryInv, Chain, CreateBlock
  PROVE  Chain'
<1> DEFINE at == ledgerAt
           l == LedgerNow
<1>1. /\ ~Restarting /\ pc = "take" /\ pc' = "idle"
      /\ UNCHANGED <<balance, nonce, block, disk, replay>>
      /\ tip' = [height |-> tip.height + 1, hash |-> made + 1, prev |-> tip.hash,
                 time |-> clock, txs |-> block]
      /\ ledgerAt' = Append(at, l)
  BY DEF CreateBlock, EndQueue
<1>2. at \in Seq(LedgerState) /\ l \in LedgerState /\ Len(at) = made
  BY Fields DEF NodeInv, LedgerNow, LedgerState
<1>3. tip.hash \in 0 .. made /\ made \in Nat
  <2>1. tip \in Block /\ tip.hash <= made /\ made \in Nat
    BY RecoveryConstants, Fields DEF RecoveryConstants, NodeInv, RTypeOK
  <2> QED BY <2>1, BlockFields
<1>4. View = l /\ Leads(LedgerIn(at, tip.hash), block, View) /\ SamesFirst(block)
  <2>1. Executed = block
    BY <1>1 DEF Executed, AfterEffect
  <2> QED BY <1>1, <2>1, PlainView DEF Chain, Producing
<1>5. l' = l
  BY <1>1 DEF LedgerNow
<1> HIDE DEF at, l
<1> DEFINE u == Append(at, l)
<1>6. Len(u) = made + 1 /\ u[made + 1] = l /\ \A i \in 1 .. made : u[i] = at[i]
  BY <1>2
<1> HIDE DEF u
<1>7. LedgerIn(u, made + 1) = l /\ LedgerIn(u, tip.hash) = LedgerIn(at, tip.hash)
  BY <1>3, <1>6 DEF LedgerIn
<1>8. tip'.hash = made + 1 /\ tip'.prev = tip.hash /\ tip'.txs = block
  BY <1>1
<1>9. Sound(u, tip')
  <2>1. made + 1 \in 1 .. Len(u) /\ tip.hash \in 0 .. Len(u)
    BY <1>3, <1>6
  <2> QED BY <1>4, <1>7, <1>8, <2>1 DEF Sound
<1>10. \A h \in 1 .. MaxBlocks : disk[h] # NoBlock => Sound(u, disk[h])
  BY <1>2, SoundLasts DEF Chain, StoredSound, at, u
<1>11. ledgerAt' = u
  BY <1>1 DEF u
<1>12. StoredSound'
  BY <1>1, <1>9, <1>10, <1>11 DEF StoredSound
<1>13. LedgerNow' = LedgerIn(ledgerAt', tip'.hash)
  BY <1>5, <1>7, <1>8, <1>11 DEF l
<1>14. ~Restarting'
  BY <1>1 DEF Restarting
<1> QED BY <1>1, <1>12, <1>13, <1>14, BetweenBlocks

LEMMA StoredIsSound ==
  ASSUME RecoveryInv, StoredSound, unsaved
  PROVE  \A h \in 1 .. MaxBlocks : Stored[h] # NoBlock => Sound(ledgerAt, Stored[h])
<1>1. disk \in [1 .. MaxBlocks -> Block \cup {NoBlock}] /\ NodeInv
  BY Fields DEF RTypeOK
<1>2. tip.height \in 1 .. MaxBlocks
  BY <1>1, StoredNode
<1>3. \A h \in 1 .. MaxBlocks : Stored[h] = tip \/ Stored[h] = disk[h]
  BY <1>1, <1>2 DEF Stored
<1> QED BY <1>3 DEF StoredSound

LEMMA SaveChain ==
  ASSUME RecoveryInv, Chain, SaveBlock \/ SaveFails
  PROVE  Chain'
<1>1. /\ unsaved /\ disk' \in {disk, Stored} /\ unsaved' = FALSE
      /\ UNCHANGED <<tip, ledgerAt, replay>> /\ UNCHANGED <<pc, balance, nonce, queue>>
  BY DEF SaveBlock, SaveFails, vars
<1>2. pc = "idle" /\ ~Restarting
  BY <1>1, Fields DEF NodeInv
<1>3. \A h \in 1 .. MaxBlocks : disk'[h] # NoBlock => Sound(ledgerAt, disk'[h])
  BY <1>1, StoredIsSound DEF Chain, StoredSound
<1>4. StoredSound'
  BY <1>1, <1>3 DEF StoredSound
<1>5. LedgerNow' = LedgerIn(ledgerAt', tip'.hash)
  BY <1>1, <1>2 DEF Chain, Following, LedgerNow
<1>6. pc' = "idle" /\ ~Restarting'
  BY <1>1, <1>2 DEF Restarting
<1> QED BY <1>4, <1>5, <1>6, BetweenBlocks

LEMMA CrashChain ==
  ASSUME EarlyCrashes, RecoveryInv, Chain, CrashAndRestart
  PROVE  Chain'
<1>1. /\ disk' \in DiskAtCrash /\ unsaved' = FALSE /\ ledgerAt' = ledgerAt
      /\ tip' = GenesisBlock(clock') /\ pc' = "idle"
      /\ balance' = GenesisBalance /\ nonce' = [a \in Account |-> 0]
  BY DEF CrashAndRestart
<1>2. queue' = << >>
  BY CrashClears DEF RecoveryInv, Fresh
<1>3. \A h \in 1 .. MaxBlocks : disk'[h] # NoBlock => Sound(ledgerAt, disk'[h])
  BY <1>1, StoredIsSound DEF DiskAtCrash, Chain, StoredSound
<1>4. StoredSound'
  BY <1>1, <1>3 DEF StoredSound
<1>5. tip'.hash = 0
  BY <1>1 DEF GenesisBlock
<1>6. LedgerNow' = LedgerIn(ledgerAt', tip'.hash)
  BY <1>1, <1>5 DEF LedgerNow, LedgerIn, Ledger0
<1>7. AllSpent(View', queue')
  BY <1>2 DEF AllSpent
<1> QED BY <1>1, <1>4, <1>6, <1>7, BetweenBlocks

LEMMA RefuseChain ==
  ASSUME RecoveryInv, Chain, RefuseStoredBlock
  PROVE  Chain'
<1>1. /\ Restarting /\ pc = "idle"
      /\ UNCHANGED <<disk, tip, unsaved, ledgerAt>> /\ UNCHANGED <<pc, cur, balance, nonce, queue>>
  BY DEF RefuseStoredBlock, vars
<1>2. View' = View
  BY <1>1, SameView
<1>3. StoredSound'
  BY <1>1 DEF Chain, StoredSound
<1>4. LedgerNow' = LedgerIn(ledgerAt', tip'.hash)
  BY <1>1 DEF Chain, Following, LedgerNow
<1>5. AllSpent(View', queue')
  BY <1>1, <1>2 DEF Chain, ReplayingNext
<1> QED BY <1>1, <1>3, <1>4, <1>5, BetweenBlocks

LEMMA EmptyChain ==
  ASSUME RecoveryInv, Chain, ApplyEmptyBlock
  PROVE  Chain'
<1>1. /\ Restarting /\ pc = "idle" /\ tip' = disk[replay]
      /\ disk[replay] # NoBlock /\ disk[replay].prev = tip.hash /\ disk[replay].txs = << >>
      /\ UNCHANGED <<disk, unsaved, ledgerAt>> /\ UNCHANGED <<pc, cur, balance, nonce, queue>>
  BY DEF ApplyEmptyBlock, Extends, vars
<1>2. View' = View
  BY <1>1, SameView
<1>3. ~unsaved /\ replay \in 1 .. MaxBlocks
  BY <1>1, Fields, ReplayedBlock DEF NodeInv
<1>4. StoredSound'
  BY <1>1, <1>3 DEF Chain, StoredSound
<1>5. Leads(LedgerIn(ledgerAt, tip.hash), << >>, LedgerIn(ledgerAt, disk[replay].hash))
  BY <1>1, <1>3 DEF Chain, StoredSound, Sound
<1>6. LedgerIn(ledgerAt, tip.hash) = LedgerIn(ledgerAt, disk[replay].hash)
  BY <1>5, LeadsNowhere
<1>7. LedgerNow' = LedgerIn(ledgerAt', tip'.hash)
  BY <1>1, <1>6 DEF Chain, Following, LedgerNow
<1>8. AllSpent(View', queue')
  BY <1>1, <1>2 DEF Chain, ReplayingNext
<1> QED BY <1>1, <1>4, <1>7, <1>8, BetweenBlocks

LEMMA ApplyChain ==
  ASSUME RecoveryInv, Chain, ApplyStoredBlock
  PROVE  Chain'
<1>1. /\ Restarting /\ pc = "idle" /\ pc' = "batch" /\ todo' = disk[replay].txs
      /\ disk[replay] # NoBlock /\ disk[replay].prev = tip.hash
      /\ UNCHANGED <<disk, tip, unsaved, replay, ledgerAt>> /\ UNCHANGED <<balance, nonce, queue>>
  BY DEF ApplyStoredBlock, BeginBlock, Extends
<1>2. View' = View /\ View = LedgerNow /\ LedgerNow = LedgerIn(ledgerAt, tip.hash)
  BY <1>1, SameView, PlainView DEF Chain, Following
<1>3. replay \in 1 .. MaxBlocks
  BY <1>1, Fields, ReplayedBlock
<1>4. SamesFirst(todo') /\ Leads(LedgerIn(ledgerAt, tip.hash), todo', Target)
  BY <1>1, <1>3 DEF Chain, StoredSound, Sound, Target
<1>5. Target' = Target
  BY <1>1 DEF Target, LedgerIn, Ledger0, GenesisBalance
<1>6. AllSpent(View', queue')
  BY <1>1, <1>2 DEF Chain, ReplayingNext
<1>7. Leads(View', todo', Target')
  BY <1>2, <1>4, <1>5
<1>8. ReplayingBatch'
  BY <1>4, <1>6, <1>7 DEF ReplayingBatch, SamesFirst, IsCrossShard, AllSpent, SpentIn
<1>9. ReplayingQueue'
  BY <1>1 DEF ReplayingQueue, Busy
<1> QED BY <1>1, <1>8, <1>9, SameBlocks

LEMMA ReplayTxChain ==
  ASSUME RecoveryInv, Chain, ReplayTx
  PROVE  Chain'
<1> DEFINE t == Head(todo)
           M == Target
<1>1. /\ Restarting /\ pc = "batch" /\ todo # << >> /\ todo' = Tail(todo)
      /\ UNCHANGED <<disk, tip, unsaved, replay, ledgerAt>>
      /\ \/ IsCrossShard(t) /\ QueueCross(t)
         \/ ~IsCrossShard(t) /\ ValidInShard(t) /\ ApplySameShard(t)
         \/ ~IsCrossShard(t) /\ ~ValidInShard(t) /\ UNCHANGED vars
  BY DEF ReplayTx
<1>2. TypeInv /\ queue \in Seq(Ctx) /\ todo \in Seq(Tx)
  BY Fields
<1>3. t \in Tx /\ Tail(todo) \in Seq(Tx)
  BY <1>1, <1>2
<1>4. /\ SamesFirst(todo)
      /\ \/ AllSpent(View, queue) /\ Leads(View, todo, M)
         \/ AllCross(todo) /\ Leads(View, TxsOf(queue) \o todo, M)
  BY <1>1 DEF Chain, ReplayingBatch
<1>5. /\ SamesFirst(Tail(todo))
      /\ IsCrossShard(t) => AllCross(todo) /\ AllCross(Tail(todo))
  BY <1>1, <1>2, <1>4, SamesFirstRest DEF AllCross
<1>6. Target' = M
  BY <1>1 DEF Target, LedgerIn, Ledger0, GenesisBalance
<1> HIDE DEF M
<1>7. pc' = "batch"
  BY <1>1 DEF QueueCross, ApplySameShard, vars
<1>8. CASE IsCrossShard(t)
  <2>1. queue' = Append(queue, NewCtx(t)) /\ View' = View
    BY <1>1, <1>8, SameView DEF QueueCross
  <2>2. NewCtx(t) \in Ctx /\ NewCtx(t).tx = t
    BY <1>3, NewCtxType DEF NewCtx
  <2>3. TxsOf(queue') = Append(TxsOf(queue), t)
    BY <1>2, <2>1, <2>2, TxsOfAppend
  <2>4. TxsOf(queue) \in Seq(Tx)
    BY <1>2, TxsOfType
  <2>5. TxsOf(queue') \o Tail(todo) = TxsOf(queue) \o todo
    BY <1>1, <1>2, <2>3, <2>4, MoveOver
  <2>6. Leads(View, TxsOf(queue) \o todo, M)
    BY <1>2, <1>4, SpentQueue
  <2>7. Leads(View', TxsOf(queue') \o todo', Target')
    BY <1>1, <1>6, <2>1, <2>5, <2>6
  <2>8. AllCross(todo') /\ SamesFirst(todo')
    BY <1>1, <1>5, <1>8
  <2>9. ReplayingBatch'
    BY <2>7, <2>8 DEF ReplayingBatch, AllCross, SamesFirst, IsCrossShard, TxsOf
  <2> QED BY <1>1, <1>7, <2>9, SameBlocks DEF ReplayingQueue, Busy
<1>9. CASE ~IsCrossShard(t)
  <2>1. AllSpent(View, queue) /\ Leads(View, todo, M)
    <3>1. ~AllCross(todo)
      <4>1. 1 \in 1 .. Len(todo) /\ todo[1] = t
        BY <1>1, <1>2
      <4> QED BY <1>9, <4>1 DEF AllCross
    <3> QED BY <1>4, <3>1
  <2>2. SpentIn(After(View, t), t) /\ Leads(After(View, t), Tail(todo), M)
    BY <1>1, <1>2, <2>1, LeadsFirst
  <2>3. View' = After(View, t) /\ queue' = queue
    <3>1. CASE ApplySameShard(t)
      BY <1>2, <1>3, <3>1, ShardEffect DEF ApplySameShard
    <3>2. CASE ~ValidInShard(t) /\ UNCHANGED vars
      <4>1. View = LedgerNow
        BY <1>1, PlainView
      <4>2. ~CanPay(View, t)
        BY <3>2, <4>1 DEF ValidInShard, CanPay, LedgerNow
      <4>3. View' = View
        BY <1>1, <3>2, SameView DEF vars
      <4> QED BY <3>2, <4>2, <4>3 DEF After, vars
    <3> QED BY <1>1, <1>9, <3>1, <3>2
  <2>4. \A i \in 1 .. Len(queue') : SpentIn(View', queue'[i].tx)
    <3> SUFFICES ASSUME NEW i \in 1 .. Len(queue) PROVE SpentIn(View', queue[i].tx)
      BY <2>3
    <3>1. queue[i] \in Ctx /\ SpentIn(View, queue[i].tx)
      BY <1>2, <2>1 DEF AllSpent
    <3>2. queue[i].tx \in Tx
      BY <3>1, CtxUpdate
    <3> QED BY <1>2, <1>3, <2>3, <3>1, <3>2, SpentLasts
  <2>5. Leads(View', todo', Target')
    BY <1>1, <1>6, <2>2, <2>3
  <2>6. SamesFirst(todo')
    BY <1>1, <1>5
  <2>7. ReplayingBatch'
    BY <2>4, <2>5, <2>6 DEF ReplayingBatch, AllSpent, SamesFirst, IsCrossShard
  <2> QED BY <1>1, <1>7, <2>7, SameBlocks DEF ReplayingQueue, Busy
<1> QED BY <1>8, <1>9

LEMMA AppliedChain ==
  ASSUME RecoveryInv, Chain, AppendApplied
  PROVE  Chain'
<1>1. /\ Restarting /\ pc = "take" /\ pc' = "idle" /\ queue = << >> /\ queue' = failed
      /\ tip' = disk[replay]
      /\ UNCHANGED <<balance, nonce>> /\ UNCHANGED <<disk, unsaved, ledgerAt>>
  BY DEF AppendApplied, EndQueue
<1>2. View' = View /\ View = LedgerNow /\ LedgerNow' = LedgerNow
  BY <1>1, SameView, PlainView DEF LedgerNow
<1>3. ~unsaved
  BY <1>1, Fields DEF NodeInv
<1>4. StoredSound'
  BY <1>1, <1>3 DEF Chain, StoredSound
<1>5. Leads(View, Pending, Target) /\ AllSpent(View, failed)
  BY <1>1 DEF Chain, ReplayingQueue
<1>6. Pending = << >>
  BY <1>1 DEF Pending, BeforeEffect, TxsOf
<1>7. View = Target
  BY <1>5, <1>6, LeadsNowhere
<1>8. LedgerNow' = LedgerIn(ledgerAt', tip'.hash)
  BY <1>1, <1>2, <1>7 DEF Target
<1>9. AllSpent(View', queue')
  BY <1>1, <1>2, <1>5
<1> QED BY <1>1, <1>4, <1>8, <1>9, BetweenBlocks

LEMMA StutterChain ==
  ASSUME Chain, UNCHANGED <<vars, nodeVars>>
  PROVE  Chain'
<1>1. UNCHANGED <<balance, nonce, queue, failed, cur, pc, block>>
      /\ UNCHANGED <<disk, tip, unsaved, replay, todo, ledgerAt>>
  BY DEF vars, nodeVars
<1>2. View' = View /\ Executed' = Executed /\ Target' = Target /\ Pending' = Pending
  BY <1>1 DEF View, LedgerBalance, Executed, Target, LedgerIn, Ledger0, GenesisBalance,
     Pending, TxsOf
<1>3. Restarting' = Restarting /\ LedgerNow' = LedgerNow /\ TxsOf(queue)' = TxsOf(queue)
  BY <1>1 DEF Restarting, LedgerNow, TxsOf
<1>4. (StoredSound /\ Following)'
  BY <1>1, <1>3 DEF Chain, StoredSound, Following
<1>5. (Producing /\ ReplayingNext)'
  BY <1>1, <1>2, <1>3 DEF Chain, Producing, ReplayingNext
<1>6. ReplayingBatch'
  BY <1>1, <1>2, <1>3 DEF Chain, ReplayingBatch
<1>7. ReplayingQueue'
  BY <1>1, <1>2, <1>3 DEF Chain, ReplayingQueue
<1> QED BY <1>4, <1>5, <1>6, <1>7 DEF Chain

LEMMA StepFailed ==
  ASSUME RecoveryInv, FailedInv, [RNext]_<<vars, nodeVars>>
  PROVE  FailedInv'
<1>1. CASE CommitStep
  BY <1>1, CommitStepPoints DEF FailedInv, Busy
<1>2. CASE ~CommitStep
  BY <1>2 DEF RNext, ProduceBlock, BeginBlock, SubmitTx, QueueCross, ApplySameShard,
     OffChainTransfer, AddBalance, DeductBalance, EnterQueue, BeginQueue, CreateBlock,
     EndQueue, SaveBlock, SaveFails, CrashAndRestart, RefuseStoredBlock, ApplyEmptyBlock,
     ApplyStoredBlock, ReplayTx, AppendApplied, vars, FailedInv
<1> QED BY <1>1, <1>2

(* Faults of this theorem: a replay of a block on which a timeout or a log *)
(* error strikes does not repeat what production did.                      *)
LEMMA StepChain ==
  ASSUME NoFaults, EarlyCrashes, RecoveryInv, RecoveryInv', ChainInv,
         [RNext]_<<vars, nodeVars>>
  PROVE  ChainInv'
<1>1. KnownInv'
  <2>1. CASE CrashAndRestart
    BY <2>1, CrashClears, FreshKnown DEF RecoveryInv
  <2>2. CASE ~CrashAndRestart
    BY <2>2, NodeMoves, StepKnown, Fields DEF ChainInv, MemoryInv
  <2> QED BY <2>1, <2>2
<1>2. FailedInv'
  BY StepFailed DEF ChainInv
<1>3. ASSUME onChain' PROVE Chain'
  <2>1. onChain /\ ~OffChainTransfer
    BY <1>3 DEF RNext, ProduceBlock, SubmitTx, OffChainTransfer, EnterQueue, CommitStep,
       CreateBlock, SaveBlock, SaveFails, CrashAndRestart, RefuseStoredBlock,
       ApplyEmptyBlock, ApplyStoredBlock, ReplayTx, AppendApplied, nodeVars
  <2>2. Chain /\ KnownInv /\ FailedInv
    BY <2>1 DEF ChainInv
  <2>3. TypeInv'
    BY DEF RecoveryInv, MemoryInv, EarlyInv, CommitInv
  <2> QED BY <2>1, <2>2, <2>3, ProduceChain, SubmitChain, EnterChain, CommitChain,
          CreateChain, SaveChain, CrashChain, RefuseChain, EmptyChain, ApplyChain,
          ReplayTxChain, AppliedChain, StutterChain DEF RNext
<1> QED BY <1>1, <1>2, <1>3 DEF ChainInv

LEMMA InitChain == RInit => ChainInv
<1> SUFFICES ASSUME RInit PROVE ChainInv
  OBVIOUS
<1>1. /\ pc = "idle" /\ queue = << >> /\ failed = << >> /\ ~Restarting /\ ~unsaved
      /\ balance = GenesisBalance /\ known = DOMAIN Genesis
      /\ nonce = [a \in Account |-> 0] /\ tip.hash = 0
      /\ disk = [h \in 1 .. MaxBlocks |-> NoBlock]
  BY DEF RInit, Init, Restarting, GenesisBlock
<1>2. KnownInv
  BY <1>1 DEF KnownInv, GenesisBalance
<1>3. StoredSound
  BY <1>1 DEF StoredSound
<1>4. Following
  BY <1>1 DEF Following, LedgerNow, LedgerIn, Ledger0
<1>5. Producing /\ ReplayingBatch /\ ReplayingQueue /\ ReplayingNext
  BY <1>1 DEF Producing, ReplayingBatch, ReplayingQueue, ReplayingNext
<1> QED BY <1>1, <1>2, <1>3, <1>4, <1>5 DEF ChainInv, FailedInv, Chain

(* Without timeouts and log errors, and with crashes before the Prepared   *)
(* record is on disk: whatever blocks are lost, forked, refused or         *)
(* replayed, a node whose accounts only transactions have touched holds    *)
(* between blocks exactly the balances and nonces its last block left when *)
(* it was made.                                                            *)
THEOREM LedgerIsTheChains ==
  ASSUME NoFaults, EarlyCrashes PROVE RSpec => []LedgerFollowsChain
<1>1. RecoveryFaults
  BY DEF RecoveryFaults, NoFaults, EarlyFaultsOnly, EarlyLogFaults
<1>2. RSpec => []RecoveryInv
  BY <1>1, RecoveryInvariant
<1>3. RecoveryInv /\ RecoveryInv' /\ ChainInv /\ [RNext]_<<vars, nodeVars>> => ChainInv'
  BY StepChain
<1>4. ChainInv => LedgerFollowsChain
  BY DEF ChainInv, Chain, Following, LedgerFollowsChain, LedgerAfter, LedgerIn
<1> QED BY <1>2, <1>3, <1>4, InitChain, PTL DEF RSpec
=============================================================================
