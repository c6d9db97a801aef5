------------------------- MODULE CrossShardRecovery -------------------------
(***************************************************************************)
(* The coordinator inside a node that stores its blocks, crashes and       *)
(* restarts.  Shard state, queue, locks, idempotency keys and the chain    *)
(* are in memory; the commit log and the stored blocks are on disk.  A     *)
(* restart builds a new coordinator, which reads the commit log back       *)
(* (recover_from_crash), sets the genesis balances, makes a genesis block  *)
(* and applies the stored blocks one after the other (NodeState::new,      *)
(* main.rs).  apply_block takes a block that follows the last one in       *)
(* height, hash and time and runs its transactions through the same        *)
(* process_parallel and process_cross_shard_queue as block production.     *)
(*                                                                         *)
(* The time of a block is the clock at which its process ran: the genesis  *)
(* block of a process is stamped when it starts, blocks get later times    *)
(* in the order they are made.  Stored blocks are therefore older than the *)
(* genesis block of a restarted process unless the clock was set back.     *)
(***************************************************************************)
EXTENDS CrossShardCommit, SequencesExt

CONSTANTS
  CrashAt,            \* control points at which the process may die
  MaxCrashes,         \* bound on crashes
  MaxBlocks,          \* bound on the blocks made
  SaveMayFail,        \* whether storage.save_block may fail
  OffChain,           \* whether deposits and deductions happen
  ClockMaySetBack,    \* whether a restart may find an earlier clock
  NoBlock             \* no block stored at this height

ASSUME RecoveryConstants ==
  /\ CrashAt \subseteq Point
  /\ MaxCrashes \in Nat
  /\ MaxBlocks \in Nat
  /\ {SaveMayFail, OffChain, ClockMaySetBack} \subseteq BOOLEAN

VARIABLES
  disk,      \* stored blocks by height
  latest,    \* height of the block the key "latest" points to
  tip,       \* last block of the chain in memory
  clock,     \* when the process started
  made,      \* blocks made so far: their hashes
  unsaved,   \* a block has been made and not yet stored
  replay,    \* height of the stored block NodeState::new looks at
  todo,      \* transactions of the block being applied
  crashes,   \* crashes so far
  ledgerAt,  \* auxiliary: the ledger after each block, when it was made
  onChain    \* auxiliary: nothing but transactions has moved funds so far

nodeVars == <<disk, latest, tip, clock, made, unsaved, replay, todo, crashes,
              ledgerAt, onChain>>

(* hash and prev stand for the hashes; block 0 is genesis. *)
Block == [height: Nat, hash: Nat, prev: Nat, time: Nat, txs: Seq(Tx)]
Ledger0 == [balance |-> GenesisBalance, nonce |-> [a \in Account |-> 0]]
LedgerNow == [balance |-> balance, nonce |-> nonce]

RTypeOK ==
  /\ TypeOK
  /\ disk \in [1 .. MaxBlocks -> Block \cup {NoBlock}]
  /\ latest \in 0 .. MaxBlocks
  /\ tip \in Block
  /\ clock \in 0 .. MaxCrashes
  /\ made \in 0 .. MaxBlocks
  /\ unsaved \in BOOLEAN
  /\ replay \in 0 .. MaxBlocks + 1
  /\ todo \in Seq(Tx)
  /\ crashes \in 0 .. MaxCrashes
  /\ onChain \in BOOLEAN

(* create_genesis_block *)
GenesisBlock(t) == [height |-> 0, hash |-> 0, prev |-> 0, time |-> t, txs |-> << >>]

RInit ==
  /\ Init
  /\ disk = [h \in 1 .. MaxBlocks |-> NoBlock]
  /\ latest = 0
  /\ tip = GenesisBlock(0)
  /\ clock = 0
  /\ made = 0
  /\ unsaved = FALSE
  /\ replay = 0
  /\ todo = << >>
  /\ crashes = 0
  /\ ledgerAt = << >>
  /\ onChain = TRUE

Restarting == replay # 0

-----------------------------------------------------------------------------
(* Block production: produce_block drains the mempool, creates the block   *)
(* and stores it.                                                          *)

ProduceBlock ==
  /\ ~Restarting /\ ~unsaved
  /\ made < MaxBlocks
  /\ BeginBlock
  /\ UNCHANGED nodeVars

SubmitTx ==
  /\ ~Restarting
  /\ CountInput /\ \E t \in Tx : QueueCross(t) \/ ApplySameShard(t)
  /\ UNCHANGED nodeVars

OffChainTransfer ==
  /\ OffChain /\ ~Restarting
  /\ CountInput
  /\ \E a \in Account, amt \in Amount : AddBalance(a, amt) \/ DeductBalance(a, amt)
  /\ onChain' = FALSE
  /\ UNCHANGED <<disk, latest, tip, clock, made, unsaved, replay, todo, crashes,
                 ledgerAt>>

EnterQueue ==
  /\ todo = << >>
  /\ BeginQueue
  /\ UNCHANGED nodeVars

CommitStep ==
  /\ TakeNext \/ SkipProcessed \/ Prepare \/ Commit \/ Abort \/ Timeout \/ LogFails
  /\ UNCHANGED nodeVars

CreateBlock ==
  /\ ~Restarting
  /\ EndQueue
  /\ made' = made + 1
  /\ tip' = [height |-> tip.height + 1, hash |-> made + 1, prev |-> tip.hash,
             time |-> clock, txs |-> block]
  /\ unsaved' = TRUE
  /\ ledgerAt' = Append(ledgerAt, LedgerNow)
  /\ UNCHANGED <<disk, latest, clock, replay, todo, crashes, onChain>>

Stored == [disk EXCEPT ![tip.height] = tip]

SaveBlock ==
  /\ unsaved
  /\ disk' = Stored
  /\ latest' = tip.height
  /\ unsaved' = FALSE
  /\ UNCHANGED <<tip, clock, made, replay, todo, crashes, ledgerAt, onChain>>
  /\ UNCHANGED vars

(* produce_block returns the error; the block stays in the chain in memory *)
(* and the next one is stored above the gap.                               *)
SaveFails ==
  /\ SaveMayFail /\ unsaved
  /\ unsaved' = FALSE
  /\ UNCHANGED <<disk, latest, tip, clock, made, replay, todo, crashes, ledgerAt,
                 onChain>>
  /\ UNCHANGED vars

-----------------------------------------------------------------------------
(* Crash and restart.                                                      *)

(* The states recover_from_crash acts on. *)
Unfinished(c) == c # NoCtx /\ c.state \in {"Prepared", "Committing"}
Finished_AnyRecord(c) == c # NoCtx
Finished(c) == c # NoCtx /\ c.state = "Committed"

(* recover_from_crash on the log files: committed transactions become      *)
(* idempotency keys, prepared and committing ones go back to the queue, in *)
(* the order of the directory listing, with the rollback data they were    *)
(* logged with; only their files stay.                                     *)
RecoverFrom(log) ==
  /\ processed' = {t \in Tx : Finished(log[t])}
  /\ queue' \in SetToSeqs({log[t] : t \in {u \in Tx : Unfinished(log[u])}})
  /\ wal' = [t \in Tx |-> IF Unfinished(log[t]) THEN log[t] ELSE NoCtx]

(* A write of the log that the crash cuts short leaves an unreadable file. *)
LogAtCrash ==
  IF pc \in LogPoint THEN {wal, [wal EXCEPT ![cur.tx] = NoCtx]} ELSE {wal}

(* save_block writes the block, its height and the key "latest"; a crash   *)
(* in between leaves the key as it was.                                    *)
DiskAtCrash == IF unsaved THEN {disk, Stored} ELSE {disk}

CrashAndRestart ==
  /\ pc \in CrashAt
  /\ crashes < MaxCrashes
  /\ crashes' = crashes + 1
  /\ \E log \in LogAtCrash : RecoverFrom(log)
  /\ disk' \in DiskAtCrash
  /\ balance' = GenesisBalance
  /\ known' = DOMAIN Genesis
  /\ nonce' = [a \in Account |-> 0]
  /\ failed' = << >>
  /\ cur' = NoCtx
  /\ pc' = "idle"
  /\ locks' = {}
  /\ block' = << >>
  /\ net' = 0
  /\ clock' \in IF ClockMaySetBack THEN 0 .. crashes' ELSE {crashes'}
  /\ tip' = GenesisBlock(clock')
  /\ unsaved' = FALSE
  /\ replay' = IF latest = 0 THEN 0 ELSE 1
  /\ todo' = << >>
  /\ UNCHANGED <<inputs, latest, made, ledgerAt, onChain>>

(* validate_block: the block follows the last one in height, hash and time. *)
Extends_AnyHash(b) == b # NoBlock /\ b.height = tip.height + 1 /\ b.time >= tip.time
Extends(b) ==
  /\ b # NoBlock
  /\ b.height = tip.height + 1
  /\ b.prev = tip.hash
  /\ b.time >= tip.time

NextReplay == replay' = IF replay = latest THEN 0 ELSE replay + 1

(* The block is missing or refused; NodeState::new logs it and goes on. *)
RefuseStoredBlock ==
  /\ Restarting /\ pc = "idle"
  /\ ~Extends(disk[replay])
  /\ NextReplay
  /\ UNCHANGED <<disk, latest, tip, clock, made, unsaved, todo, crashes, ledgerAt,
                 onChain>>
  /\ UNCHANGED vars

(* A block without transactions leaves the queue alone. *)
ApplyEmptyBlock ==
  /\ Restarting /\ pc = "idle"
  /\ Extends(disk[replay])
  /\ disk[replay].txs = << >>
  /\ tip' = disk[replay]
  /\ NextReplay
  /\ UNCHANGED <<disk, latest, clock, made, unsaved, todo, crashes, ledgerAt, onChain>>
  /\ UNCHANGED vars

ApplyStoredBlock ==
  /\ Restarting /\ pc = "idle"
  /\ Extends(disk[replay])
  /\ disk[replay].txs # << >>
  /\ todo' = disk[replay].txs
  /\ BeginBlock
  /\ UNCHANGED <<disk, latest, tip, clock, made, unsaved, replay, crashes, ledgerAt,
                 onChain>>

(* The transactions of the stored block enter process_parallel in order; a *)
(* same-shard transaction that is not valid is skipped.                    *)
ReplayTx ==
  /\ Restarting /\ pc = "batch"
  /\ todo # << >>
  /\ LET t == Head(todo)
     IN  IF IsCrossShard(t) THEN QueueCross(t) /\ UNCHANGED inputs
         ELSE IF ValidInShard(t) THEN ApplySameShard(t) /\ UNCHANGED inputs
         ELSE UNCHANGED vars
  /\ todo' = Tail(todo)
  /\ UNCHANGED <<disk, latest, tip, clock, made, unsaved, replay, crashes, ledgerAt,
                 onChain>>

AppendApplied ==
  /\ Restarting
  /\ EndQueue
  /\ tip' = disk[replay]
  /\ NextReplay
  /\ UNCHANGED <<disk, latest, clock, made, unsaved, todo, crashes, ledgerAt, onChain>>

RNext ==
  \/ ProduceBlock \/ SubmitTx \/ OffChainTransfer
  \/ EnterQueue \/ CommitStep \/ CreateBlock
  \/ SaveBlock \/ SaveFails
  \/ CrashAndRestart
  \/ RefuseStoredBlock \/ ApplyEmptyBlock \/ ApplyStoredBlock
  \/ ReplayTx \/ AppendApplied

RSpec == RInit /\ [][RNext]_<<vars, nodeVars>>

-----------------------------------------------------------------------------
(* Properties.                                                             *)

LedgerAfter(hash) == IF hash = 0 THEN Ledger0 ELSE ledgerAt[hash]

(* Between blocks, the balances and nonces of a node are those its chain   *)
(* had when its last block was made, whatever crashes, refused blocks,     *)
(* forks on the disk and replays led there: apply_block executes a block   *)
(* as block production did.  Deposits and deductions leave no trace in any *)
(* block and are excepted.                                                 *)
LedgerFollowsChain ==
  pc = "idle" /\ onChain => LedgerNow = LedgerAfter(tip.hash)

(* A restarted node that has looked at all stored blocks has the chain up  *)
(* to the last one of them ("Apply block to restore state", main.rs:465).  *)
RestartRestores ==
  [][Restarting /\ replay' = 0 /\ crashes' = crashes => tip'.height = latest]_nodeVars
=============================================================================
