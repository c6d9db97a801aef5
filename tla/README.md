# Sultan: a TLA+ model of the node and the wallet

This directory holds TLA+ modules for the Sultan L1 node (`src/sultan-core`) and the browser wallet
(`src/wallet-extension`), configurations that check them with TLC, and proofs that TLAPS checks. The modules are
written from the Rust and TypeScript code; `PROJECT.json` maps every definition to the lines it stands for.

Contents: [the system](#the-system) · [the modules](#the-modules) · [runs](#runs) · [bounds](#bounds) ·
[fairness](#fairness) · [proofs](#proofs) · [what is left out](#what-is-left-out) · [plan](#plan)

## The system

The repository contains a node in Rust, a wallet extension in TypeScript, a DeFi page, bridges, bots, a website
and deployment scripts. The **node** is one process on the tokio runtime: a block loop (one tick every two
seconds), an HTTP server whose handlers run concurrently, a message loop for blocks of other nodes, and managers
that are shared by all of them. Every field of a manager sits behind a `RwLock` of its own. Handlers therefore
interleave at every `await`, and what is read under one lock may be stale when the next one is taken.

The **wallet** is a React program. JavaScript runs to completion between two awaits, so its concurrency is that
of calls that are under way at once: leaving a screen does not cancel what it started, timers and polls run in
between, a handler works on the values of the render it was made in, and only IndexedDB and localStorage survive
a reload.

| Component | State it keeps | Operations | Hard behaviour | What makes it correct |
|---|---|---|---|---|
| Sharding coordinator (`sharding_production.rs`) | balances and nonces per shard, cross-shard queue, transaction locks, idempotency keys, commit log on disk | `process_parallel`, `process_cross_shard_queue`, two-phase commit, rollback, `add_balance`, `deduct_balance`, `expand_shards` | timeouts and I/O errors between the steps of a commit, three attempts in three blocks, stale rollback data | a transfer happens whole or not at all and once; funds are conserved; locks are released; the queue drains |
| Recovery (`recover_from_crash`, `NodeState::new`, `apply_block`) | commit log and blocks on disk | restart, replay | a crash at any point, also during recovery; blocks that were not stored; blocks of an abandoned branch; time of the new genesis block | the replay rebuilds the ledger; no idempotency key without its transfer |
| Sharded blockchain (`sharded_blockchain_production.rs`) | chain, mempool, transaction history | `submit_transaction`, `create_block`, `validate_block`, `apply_block` | creation and application execute the same block in different ways | the same blocks give the same ledger |
| Node (`main.rs`) | references to all managers, validator identity | `produce_block`, RPC handlers, message loop | check, lock and act in separate steps; order of locks | one block per height; no deadlock |
| Staking (`staking.rs`) | validators, delegations, unbonding queue, total, height, histories | create, delegate, undelegate, slash, jail, rewards, unbonding | four-step undelegation, locks held across awaits, slash of tokens on the move | tokens are accounted for; stakes match delegations; rewards stay within inflation |
| Governance (`governance.rs`) | proposals, votes, next number, snapshots, cooldowns | submit, vote, tally, sign, pause, execute, advance | checks under one lock and changes under another | one vote per account, effects only after an accepted tally, decisions are final |
| Consensus (`consensus.rs`) | validator set, votes, round, proposer | the node calls `add_validator`, `select_proposer_for_height`, `record_proposal`; votes, slash and jail have no caller | | one proposer per height and validator set |
| Block sync (`block_sync.rs`) | pending blocks, votes, sync state | constructed by the node, never called | | |
| P2P (`p2p.rs`) | peers, bans, rate limits, seen messages | subscribe, broadcast, ban | lost, duplicated, reordered messages | banned peers stay out, a message counts once |
| Token factory (`token_factory.rs`) | metadata with supply and maximum, balances, faucet claims, each in a lock of its own | create, mint, transfer, burn, claim from the faucet | a look-up and an insertion under two locks; supply and balances change one after the other | balances never exceed the supply nor the supply its maximum; a transfer loses nothing |
| Exchange (`native_dex.rs`) | pools (reserves, shares) in one lock, `pools.json`; the tokens are balances of the factory under the address of the pool | create a pair, swap, add and remove liquidity | reserves change first and transfers follow one by one; a failure in the middle; products and differences that wrap; a restart that forgets the tokens | a pool has what it counts; shares are backed and keep their worth; a pair is never stuck |
| Bridge and fees (`bridge_integration.rs`, `bridge_fees.rs`) | pending and finished bridge transactions, fee statistics, treasury | submit, process, mint, propose and sign treasury | pending list overwritten after verification, duplicate submissions | a deposit is minted once |
| Storage and configuration (`storage.rs`, `config.rs`) | RocksDB keys, feature flags | save and load | several puts that belong together | a block that is the latest can be read |
| Wallet session (`useWallet.tsx`, `security.ts`, `storage.secure.ts`) | session with its timer, PIN and PIN hash in memory, failed attempts, encrypted wallet | unlock, lock, create, import, delete, backup, expiry, poll, reload | a late unlock overtakes a lock, an expiry or a newer wallet; a deletion that fails half-way; a counter shared by three screens | a locked wallet keeps nothing; session, PIN and wallet shown belong together; refused PINs are bounded; an idle wallet gets locked |
| Second factor (`totp.ts`, `TOTPSetup.tsx`, `TOTPVerify.tsx`, `Unlock.tsx`) | secret and backup codes in localStorage, step of the dialog | set up, verify, use a backup code, regenerate, switch off | `verify2FA` reads, awaits and writes everything back; a PIN check or verification of a screen that was left still opens or navigates | a backup code works once; no answer passes the second step without the factor; the codes shown work |
| Accounts (`wallet.ts`, `useWallet.tsx`, `CreateWallet.tsx`, `ImportWallet.tsx`, `Settings.tsx`) | stored phrase, open wallet, list of accounts, selection | create, import, unlock, back up, delete, derive, switch | two calls that write and open in any order; an index computed from an old render | the keys in use can be recovered; the account picked is the one used |
| API client and screens (`sultanAPI.ts`, `Send.tsx`, `Stake.tsx`, `Governance.tsx`, `BecomeValidator.tsx`) | forms, confirmations, loading flags | transfer, stake, unstake, claim, vote, propose | lost and late answers, repeated POSTs, refusals with status 200, texts of amounts compared by `parseFloat` | a success shown is one; what was confirmed is what is sent, and is covered; every wait ends |

`PROJECT.json` lists the components with their status, those that are not modelled with the reason, and under
`hazards` the places in the code where things can go wrong in ways a test hardly reaches.

How the parts interact: the block loop takes the write lock of the blockchain, runs the batch and the queue of the
coordinator, stores the block, then calls staking (rewards, matured unbondings, which it pays out with `add_balance`)
and governance (height, total stake), and broadcasts. RPC handlers call staking and governance directly and move funds
with `deduct_balance`. The handlers of the exchange call the exchange, which calls the token factory as any other
caller does: there is no lock around a request. Executing a proposal calls staking (inflation, slash) and the
configuration (feature flags). The message loop applies blocks of other nodes and counts missed blocks, which may
slash. The screens of the wallet read and change the provider (`useWallet`), which calls storage and security; they
send JSON to the RPC handlers of the node through `restApi`, which times out and repeats.

## The modules

| Module | Models | Depends on |
|---|---|---|
| `TransferLedger` | the abstract specification: accounts, atomic transfers, deposits, withdrawals | |
| `CrossShardCommit` | the sharding coordinator: batch, queue, two-phase commit with log, locks, retries, timeouts, rollback | refines `TransferLedger` |
| `CrossShardRecovery` | the coordinator inside a node that stores blocks, crashes, recovers and replays | extends `CrossShardCommit` |
| `Staking` | the staking manager, the handlers that call it and the staking half of the block loop | |
| `Governance` | the governance manager and the handler that executes proposals | |
| `TokenFactory` | tokens and balances of the factory, each call cut between its two locks | |
| `NativeDex` | the exchange: pairs, swaps, additions and removals step by step, `pools.json`, the restart | extends `TokenFactory` |
| `WalletSession` | lockout, session, timer and poll of the wallet, its stored PIN | |
| `TwoFactor` | authenticator and backup codes, the setup dialog, both steps of the unlock screen and the ways around it | |
| `WalletAccounts` | phrases stored and in use, accounts, the screens and dialogs that change them | |
| `WalletForms` | amounts as shown and as read back, form checks, what is signed and what the node verifies | |
| `WalletRequests` | Send, Stake and Governance, the request loop, the network and the handlers of the node | extends `WalletForms` |
| `...Proofs` | theorems (`CrossShardProofs`: about the coordinator and its recovery; `WalletUnlockProofs`: about `WalletSession` and `TwoFactor`; `NativeDexProofs`: about `TokenFactory` and `NativeDex`) | the module of the name, `FiniteSums` |
| `FiniteSums` | lemmas about sums over finite sets, induction | |
| `MC...` | instances for TLC | |

A definition with an underscore, `Fail_Uncounted`, is a faulty variant of the definition before the
underscore. No specification uses it; `PROJECT.json` (`mutants`) says which property it breaks.

### CrossShardCommit

One behaviour is a sequence of blocks. `BeginBlock` starts a block, `QueueCross` and `ApplySameShard` are the
two halves of `process_parallel` for one transaction, `BeginQueue` and `TakeNext` start the queue pass, and
`pc` walks through `execute_cross_shard_commit`: each log write, the lock, validation, proof, debit, credit
and Merkle update is a step, because a timeout cancels the future at an await and a failed log write leaves
the function through `?`. `Timeout` and `LogFails` are these faults; the constants `TimeoutAt` and
`LogFailsAt` name the control points where they may strike, so that a run can ask about one kind of fault at a
time. `Fail` counts the attempt and either keeps the transaction for the next block or drops it; `Rollback`
does what `rollback_phase` does, with whatever rollback data the context holds.

The state corresponds one to one: `balance`, `known` and `nonce` are the shards, `queue`, `failed`, `locks`,
`processed` and `wal` the fields of `ShardingCoordinator` and its log directory, `cur` the context in
progress, `block` what will be listed in the block. `net` is auxiliary: deposits minus deductions.

Abstractions, each a statement about the code:

* One block at a time. The node holds the write lock of the blockchain for the whole of block creation and
  application; only the 60-second timeout of `process_parallel` lets same-shard tasks outlive the block.
* The transactions of a batch run one after the other. Transactions of one sender are in one shard, and a shard
  runs its own transactions in order under its state lock.
* A cross-shard transaction is identified by its fields, which is what the idempotency key hashes.
* Signatures are valid; a client signs what it submits. Amounts are positive, as `validate` demands.
* Shards stay healthy (nothing in the node clears the flag) and their number does not change.
* Balances are natural numbers: genesis supply is far below `u64::MAX`. The saturating operations are
  modelled as `Nat` subtraction guarded by the checks the code makes.

### CrossShardRecovery

Adds the disk, the chain and the process. `ProduceBlock` and `CreateBlock` are the two ends of `create_block`;
`SaveBlock` and `SaveFails` what `produce_block` does next. A block that could not be stored stays in the chain in
memory and leaves a gap on disk. `CrashAndRestart` may strike at any control point in `CrashAt`, also during a replay
and between the writes of `save_block`; it loses all memory, may tear a log write, reads the log back
(`RecoverFrom`), sets the genesis balances and makes a genesis block. `RefuseStoredBlock`, `ApplyEmptyBlock`,
`ApplyStoredBlock`, `ReplayTx`, the coordinator's own steps and `AppendApplied` are `NodeState::new`, which offers
the stored blocks to `apply_block` one after the other.

A stored block is accepted if it follows the last one in height, hash and time. Its time is the `clock` at which
its process ran; the genesis block of the new process carries the time of the restart. Stored blocks are therefore
older than genesis and refused, unless the clock was set back: `RecoveryRestart` shows the first, `Recovery` explores
everything that replays do in the second case. Since a refused chain starts over at height 1, the disk comes to hold
blocks of several branches. `ledgerAt` and `onChain` are auxiliary: the ledger after each block when it was made, and
whether only transactions have moved funds.

### Staking

Requests are jobs with a control point each. Two locks are held across awaits and modelled as such: `lock` is
the write lock of `validators`, which `create_validator`, `delegate`, `slash_validator` and `unjail_validator`
take before they read the height; `HeightLocked` is the write lock of `current_height`, which
`distribute_block_rewards` takes before it waits for `validators`. The two can wait for each other for ever;
`OnlyLockCycleBlocks` says that nothing else in the module ever does. `undelegate` takes four locks one after the
other and is four steps. `handle_delegate` takes the amount off the account, registers a validator of the
consensus engine, then delegates; a refusal refunds nothing, and `gone` counts such tokens together with the
slashed unbondings. Rewards use the floored divisions of the code with a percentage instead of the 18-digit
fraction. `blocks_signed`, timestamps and the reward history are left out.

### Governance

Calls are jobs where the code changes locks in the middle: `submit_proposal` (cooldown, active proposals,
number, insertion, with `next_proposal_id` locked from the number on), `vote` (checked under `proposals`,
appended under `votes`), and the handler that executes a proposal (a copy is checked, the proposal is executed,
the features of the copy are activated). Tally, signature and pause hold `proposals` for their whole length and
are one step. `Spec` has every operation of the library. That includes `advance_proposal_phases`, which no code of
the node calls: in the node as it is, proposals stay in their discussion period and everything after it is what the
library would do. Staking appears through what a proposal did to it (`changes`).

### TokenFactory

`tokens` and `balances` are the two maps of the factory. A call that changes both is cut where it changes locks, and
what it carries from one step to the next is in `calls[c]`: a creation looks the denom up (`Announce`), stores the
metadata (`Register`) and sets the balance of the creator (`Fund`), a mint raises the supply (`Issue`) and credits
(`Credit`), a burn debits (`Withdraw`) and lowers the supply (`Reduce`). A transfer changes balances only and is one
step (`Move`): it debits, then adds with `checked_add`, and when that fails the debit stays. Integers are those below
`Word`. The same operators serve the handlers (`CreateToken`, `MintTo`, `Burn`, `Transfer`) and the exchange. Signatures
are taken to be valid: a handler checks one against the key that comes with the request, and anyone may ask for
anything. `contested` is auxiliary: denoms whose metadata was stored over other metadata, because two creations
had both looked before. `made` bounds the calls.

### NativeDex

An order (`orders[c]`) is a request in progress with the step it makes next (`at`). A swap, an addition and a removal
change the reserves in one step (`SellA`, `SellB`, `AddLiquidity`, `RemoveLiquidity`, all under the lock of the pools)
and then go through their calls of the factory; `Payment` is the transfer an order makes next, `After` the step that
follows, `Fail` the `?` that ends it. `CreatePair` pays first and stores the pool last (`AnnounceShares`, `IssueShares`,
`OpenPool`). `FactoryStep` is everything users do with tokens in between. Arithmetic is that of the release build:
plain products and differences wrap, checked ones end the request, a division by zero ends the node (`Abort`).
`Save` writes `pools.json`; `Restart` may come at any step, reads the pools back, or none when the file was being
written, and starts the factory empty, because nothing saves it. A new node does not know of what its predecessor had
under way.

Four variables are auxiliary. `missed` is what reserves count and no transfer will bring: payments that failed, and
everything after a restart. `unburnt` are shares that a removal took off the pool and could not burn. `overdrawn` are the
pools from which a removal took more than there was, so that their reserves wrapped: the properties except those, and
`OnlyOverlapOverdraws` says when that can be.

Facts about the code that the model contains and the reader should know:

* A swap or an addition that its user cannot pay changes the price of the pool all the same: the reserves are raised
  before the transfers (`native_dex.rs:377`) and `?` leaves them raised. What `SULTAN_TECHNICAL_DEEP_DIVE.md:1424` says of
  a reserve, "Amount of token A in pool", then holds only up to `missed`.
* The last removal of a pool leaves it in the table with empty reserves; the next addition divides by zero
  (`native_dex.rs:349`), and the profile says `panic = "abort"`, although `CODE_AUDIT_PHASE6.md:342` has "Proper error
  handling (no panics)".
* Two removals of the same shares, or a removal that overlaps a transfer of its shares, both take from the reserves;
  the second burn fails, and what it took stays with the pool and belongs to nobody. When together they take more than
  there is, the plain subtraction wraps (`native_dex.rs:448`): `overdrawn`. `CODE_AUDIT_PHASE6.md:341` has "Overflow-safe
  arithmetic throughout".
* Two creations of one denom may both succeed (`token_factory.rs:735`): the second replaces supply and maximum under the
  balances of the first, and what holders have may then be above the maximum, although the head of the file (line 7)
  lists "max_supply enforcement". The properties except these denoms (`contested`).
* `main.rs:618` loads "persisted token state if exists", but `save_to_storage` of the factory has no caller: after a
  restart there are pools whose tokens and shares are gone.
* The fee of a swap is computed by a product that wraps. From `2^128 / fee_rate` on a swap may pay less than its fee,
  which is why `SharesKeepTheirWorth` excepts those (`FeeWraps`).

### WalletSession

A call (`calls[c]`) is an unlock, a backup of the phrase, a creation or import (`save`), or a deletion, at one of its
awaits. `ReadWallet`, `DecryptsWallet`/`RejectsPin` and `FinishUnlock` are the stretches of `unlock`; `loadWallet`
and `unlock` both record a refused PIN (`Refuse`). `OpenWallet` is the state all three ways of opening leave: only
`unlock` stores a PIN hash and passes `startSession` a function that clears it. `SessionTimer` is the timer of
`security.ts`, which does not tell the provider; `PollSession` is the interval that does; `CheckWallet` is the mount
after a `Reload`. `Tick` advances the lockout and the session. Any call may be overtaken by locks, expiry, other calls
and database errors (`WriteFails`, `ReadFails`). `failed` is a history variable: PINs refused since the window began.

### TwoFactor

A verification of an authenticator code is two steps, `SubmitTotp` or `SubmitSetup`, which read the stored state, and
`FinishTotpUnlock` or `FinishSetup`, which write that state back (`WriteBack`) and go on. A backup code is spent at
once. The dialog of the settings walks through `setup.step`; `StartSetup` stores the secret and the codes before any
code was verified, so the second factor is on from there. Leaving the dialog marks its verifications (`Leave`): they
still write, and tell nobody. `Success` navigates, also from an unlock screen that was left, and the guard of the
routes decides where that ends.

A PIN check is two steps as well, `SubmitPin` and `FinishPin`: `unlock` is awaited, the wallet is open when it answers,
and only then does the screen ask for the second step or navigate. The user may leave in between, and at any other time
(`Visit`: "Restore with Recovery Phrase", Cancel of the import, Back and Forward of the browser); `GoTo` is the guard of
the routes, which sends a locked wallet to a new unlock screen and lets an open one through. Screen `public` stands for
creation and import, whose calls (`BeginPhrase`, `FinishPhrase`) open the wallet by its phrase, without a second step.
`factor` records that the open wallet had its second step or needs none, `astray` that it had none and the user left the
unlock screen. `SecondFactorAtUnlock` says that a wallet with neither is at the second step.

`overwritten` records that a verification wrote over a change made while it waited: the two properties about codes
except exactly that case, which the code allows. A wallet is stored from the start and there is one page: deletion, which
locks and keeps the stored secret, and a second tab are left out.

A fact about the code that the model contains and the reader should know:

* The second step is left out by whoever leaves the unlock screen. `unlock(pin)` opens the wallet before `setStep('totp')`
  (`Unlock.tsx:64`), and the routes ask only whether it is locked (`App.tsx:51`). Restore with Recovery Phrase while the
  PIN is checked, then Cancel (`ImportWallet.tsx:170`), or Back at the second step, therefore show the dashboard after the
  PIN alone, although the head of `Unlock.tsx` (line 5) has "If 2FA is enabled, shows TOTP verification after PIN". TLC
  shows it when the invariant `screen = "home" => factor` is added to the run; `SecondFactorAtUnlock` says what does hold.

### WalletAccounts

The screens of creation, import, unlock and the dialogs of Settings with what they hold (`screen`), the provider
(`provider`), the stored wallet (`stored`) and calls cut at their awaits. `/create` and `/import` are public routes, so
a wallet can be made over a stored one at any time; `navigate` after an await works from any screen, while setting the
state of a screen that was left does nothing (`mounted`). `activeAccountIndex` survives locking. `overlaps` records
what the calls that overlapped were about: after two calls on the stored wallet the open wallet may not be the stored
one, after two derivations an index may come twice. The properties except these overlaps and nothing else.

### WalletForms, WalletRequests

`WalletForms` has the pure parts: `FormatSLTN` (commas from 1,000 on), `ParseFloat` (stops at the first comma),
`ValidateAmount`, `MapProposalStatus`, and the text a signature is made over against the one
`verify_transaction_signature` rebuilds. The text of an amount is a record, the text of a message the sequence of its
keys.

`WalletRequests` has one call per confirmation. `Start` sets the loading flag and captures the amount and the wallet
object of the render; `GetNonce`, `SignTransaction`, `Fetch`, `NoAnswer`, `FetchAgain` are the stretches of the call,
`Continue` is the decision of `restApi` to retry, succeed or fail, `End` what the screen does with it. The network
(`net`) loses requests, loses answers (`NodeHandles` without `Deliver`) and delivers requests whose sender has given
up. `Verdict` is the handler of each endpoint: `/tx` answers a bad signature with status 200 and no hash, staking
refuses a signature with an error status, claims are refused, unstakings are carried out while the delegation lasts,
votes and proposals once. `BalanceShown` and its like allow what a screen read before and the 0 after a failed query.

Facts about the code that the model contains and the reader should know:

* The wallet signs a transfer as JSON with its keys in alphabetical order, the node verifies another order
  (`main.rs:1145`): the node refuses every transfer of the wallet, which `NoneVerifies` in
  `WalletRequestsProofs` proves. The comment at `wallet.ts:291` says that the order "ensures signature matches node
  verification".
* A balance from 1,000 SLTN on is shown with commas and read back as its leading group, so the forms refuse more
  than they should and never too little (`ConfirmedIsCovered`: transfers, stakes and unstakings; the deposit of a
  proposal is compared by `Number`, which makes no number of a text with commas, and then passes). `BecomeValidator`,
  which asks for 10,000, cannot be started with any balance (`FundingStaysClosed`,
  a theorem; no run spends time on it).
* An unstaking whose answer was lost is repeated and may be carried out twice (`AppliedBounded` has `MaxRetries` for
  it); a repeated vote or proposal is refused and shown as an error although the first one counted.

## Runs

| Run | Kind | Question and answer |
|---|---|---|
| `CommitEarly` | pass | With faults only before rollback data exists: does the two-phase commit refine atomic transfers? Yes (`ImplementsLedger`), with no lock left and no log file recovery would wrongly act on. |
| `CommitAnyFault` | pass | With faults anywhere: what still holds? Undo data is exact and on disk whenever funds have moved, commits run under their lock, attempts are bounded, the queue drains. |
| `CommitTimeoutLoss` | violation | A timeout between debit and credit: the rollback takes a credit back that never happened. |
| `Recovery` | pass | Crashes before the `Prepared` record, during replay, twice in a row, with blocks that could not be stored and blocks of other branches on disk, with deposits: funds add up, keys are spent, and as long as only transactions moved funds the ledger is the one the chain had (`LedgerFollowsChain`). |
| `RecoveryRestart` | violation | After a restart with a clock that goes forward every stored block is refused and the node starts over. |
| `Staking` | pass | Interleaved delegations, undelegations, slashes, rewards and payouts: no token is lost or doubled, stakes match delegations, the total is never overstated, rewards never exceed the inflation on the stake held; nobody waits for ever except in the cycle of the locks of height and validators. |
| `Governance` | pass | Interleaved submissions, votes, tallies, signatures, pauses, executions: votes are sound, effects only after an accepted tally, applied once, decisions final. |
| `Exchange` | pass | Two requests under way, to the exchange or the factory, with amounts next to the width of the integers and a restart at any step: holders never have more than the supply, transfers lose nothing, pools cover what they count and owe, shares are backed, keep their worth and have both reserves, a pair is never stuck half made, and only overlapping removals overdraw. |
| `WalletSession` | pass | Two calls under way with locks, expiry, polls, reloads and database errors: a locked wallet keeps no session or PIN, session, PIN and wallet shown fit, refused PINs are bounded, and a wallet left alone gets locked for good. |
| `TwoFactor` | pass | Two calls under way (verifications, PIN checks, creations, imports) with everything else the screens allow: a wallet opened by its PIN gets past the second step by a factor, or by a user who leaves the unlock screen, and in no other way; backup codes work once and the codes shown work, unless a verification wrote over a later change. |
| `WalletAccounts` | pass | Two calls under way, screens left in between: the keys in use are the stored ones and the accounts are in the order of their indices, unless calls that change them overlapped. |
| `WalletRequests` | pass | Two confirmations over a network that loses and delays: success is true, requests carry what was confirmed, repetitions are bounded, amounts are covered, every wait ends. |

The violations are listed with the sentence they contradict under `findings` in `PROJECT.json`. Both delimit a
passing run: `CommitEarly` excludes the fault of `CommitTimeoutLoss`, `Recovery` needs the clock that
`RecoveryRestart` does not have.

No run checks a type invariant: each is a theorem for all constants (below), after TLC had agreed to it. The state of
the factory is in the one run of the exchange, whose steps include all of the factory's own.

`CHECK_DEADLOCK FALSE` stands where a system may really stop: in `Staking` because of the lock cycle above (and
`OnlyLockCycleBlocks` takes over what the check would have said), in `CrossShardRecovery` and `Governance` because
blocks and calls are bounded and nothing else happens afterwards, in `NativeDex` because calls are bounded and a node
that aborted may not be started again. All other runs check for deadlock.

## Bounds

| Module | Bound | Why it is enough |
|---|---|---|
| `CrossShardCommit` | 3 accounts in 2 shards, one without an account entry at the start; amounts 1 and 2; `MaxInputs` 2 or 3 | both directions across shards, transfers within a shard, a missing account, two transactions that compete for a nonce, a deposit that lets a retry succeed; `MAX_RETRY_ATTEMPTS` is the code's 3 |
| `CrossShardRecovery` | 2 accounts, 2 inputs, 3 blocks, 2 crashes | a crash during the replay after a crash; a gap with a block above it; two branches on the disk; a third attempt in the third block |
| `Staking` | 2 concurrent requests of 3 in all, 2 delegators, 2 validators (one known to the consensus engine), 2 blocks, thresholds of 1 or 2 | every pair of operations interleaves, with a third to set the stage; unbonding matures in the second block; the delegator limit and the jail term are reached. A slash of 80 % and a reward rate of 150 % make amounts of 1 to 3 survive the floored divisions |
| `Governance` | 2 concurrent calls of 5 in all, 2 proposals, 2 voters, 2 validators, periods of 1 block, 3 blocks | submit, vote, tally and two concurrent executions, signatures or pauses need five calls; the second proposal tests numbers and limits |
| `NativeDex`, `TokenFactory` | 1 pair of 2 tokens and its share token, 2 users, one of whom receives the fees; 2 requests at a time of 5 in all, 1 restart; numbers below 65, amounts 5 and 47, supplies of 47 with a maximum of 60; a fee of 1/2 with 1/4 for the protocol | two creations of tokens and a pair leave two requests to overlap. 5 and 47 have no common factor, so roundings differ. A pair is paid 5 and 5 (product 25), 5 and 47 (235, which wraps to 40) or 47 and 47 (2209, which wraps to 64, the last number, whose root aborts). Products of reserves wrap or not, sums of reserves are refused at the first or at a later one, and mints reach the maximum and are refused by it |
| `WalletSession` | 2 PINs, 2 calls at a time, 3 wallet objects, 3 attempts, lockout and session of 1 tick | each pair of calls overlaps with every timer; a fresh object exists beside the shown one and that of the session; the double count reaches the limit from both sides. Times are kept as what is left of them, so the length of a tick does not matter |
| `TwoFactor` | 2 verifications or openings at a time, 2 batches of 2 codes, 2 attempts | two late verifications, a PIN check of a screen that was left and another of the next one, a second setup or a regeneration between reading and writing, one code spent and one left |
| `WalletAccounts` | 3 phrases, 2 PINs, 2 calls at a time, 2 accounts | the stored, the open and a new phrase differ; two creations, or two derivations, overlap |
| `WalletRequests` | two decimals, commas from 10 on; balances 1.05 and 12.50 SLTN; 2 attempts, 2 confirmations; 0.60 typed or what is shown | a balance below and one above the comma, an amount with a zero after the point, MAX, a stake that covers two unstakings and not three; one confirmation runs late into the other. Decimals and group are constants, 9 and 1000 in the code |

Symmetry is used for jobs and validators (`Staking`: jobs only), for the calls of `TwoFactor` and `NativeDex`, and
for phrases, PINs and calls of `WalletAccounts`: safety runs in which no constant tells them apart.

## Fairness

* `CommitAnyFault`: weak fairness of starting a block, of starting its queue pass, and of the queue pass itself.
  The block loop ticks for ever (`run_block_production` ignores the error of a block), and tokio runs a task that
  can run. Faults and inputs have no fairness; faults may strike every time, and the queue still drains because
  each attempt is counted.
* `WalletSession`: time passes, timers fire, the poll and the mount run, and an awaited call returns, with a result
  or an error. The user has no fairness; `IdleGetsLocked` is about users that stop.
* `WalletRequests`: a call that can go on does. The network and the node need none: `fetch` has a timeout, so a
  request nobody answers ends as well.

## Proofs

`CrossShardProofs` proves of `CrossShardCommit`, for every set of accounts, shards, transactions, attempts, bounds and faults
that satisfy `CoordinatorConstants` and `Sentinels`:

* `TypeCorrect`: `TypeOK` is invariant. Balances never go negative although the debit has no check of its own:
  `CurInv` carries the check of the prepare phase to the commit phase (nothing else moves the sender's funds in
  between), and bounds the attempts of queued transactions.
* `UndoDataIsDurable` and `CommitStaysLocked`, under any faults. `CommitInv` says what each control point between
  validation and the end knows: the lock is held, the sender is as it was captured (`SenderUnchanged`), the log
  equals the context once funds have moved (`CommittingLogged`), the nonce is used once it is over (`NonceUsed`).
* `ProcessedStaysSpent` and `CommitImplementsLedger`, if faults only strike early (`EarlyFaultsOnly`). `EarlyInv`
  adds that a context taken from the queue has no rollback data of an earlier attempt (`NoStaleRollback`): a
  rollback then changes nothing (`RollbackIsStutter`), and every step of the coordinator is a step of the ledger
  or stutters (`StepRefines`). The debit is the step that transfers; the credit stutters because `LedgerBalance`
  counts the amount between the two. `EarlyFaultsOnly` is needed: `CommitTimeoutLoss` is a counterexample without it.
* `LocksAreReleased` and `RecoverableLogs`, if log writes fail only before the lock (`EarlyLogFaults`); timeouts may
  strike anywhere. `LockInv` says whose lock is held at each control point, `LogInv` that a queued transaction is in a
  state recovery discards.
* `FundsAreConserved`, if faults strike early and there are finitely many accounts. It is a corollary of the
  refinement: `LedgerStepConserves` shows that the ledger keeps the sum of its balances up to `net`, and between blocks
  `LedgerBalance` is `balance`.

Of `CrossShardRecovery` the same module proves four theorems, for any number of blocks, crashes and inputs. The state
contains that of the coordinator but there are more steps, so the lemmas about the coordinator are stated for `Moves`,
which covers the transactions a replay offers as well as those of users. All four assume `EarlyCrashes`: a crash before
the `Prepared` record is on disk. From then on recovery acts on the log, on balances that were just reset to genesis.

* `RecoveryTypes` and `ProcessedSpentAfterRestart`, with early faults (`RecoveryFaults`). `EarlyLog` adds that the record
  of the transaction in work is one recovery discards, which makes a crash leave the coordinator as it was at the start
  (`CrashClears`). `NodeInv` bounds the disk, the tip and the place of the replay; `BlockAtHand` says that the block that
  is being replayed is stored.
* `FundsSurviveRestarts`, with the same faults and finitely many accounts: the refinement of the ledger is lost at a crash
  only, and there the sum starts over from the genesis balances.
* `LedgerIsTheChains`, without timeouts and log errors (`NoFaults`). A stored block does not say which of its transactions
  had an effect, and a replay decides again. `Leads(L, txs, M)` says that offering `txs` to ledger `L` one by one, those
  whose nonce is used being passed over, ends in `M`. `ChainInv` says that each stored block leads from the ledger of its
  parent to its own (`StoredSound`), that the block in production leads from the tip to the present ledger (`Producing`),
  and, of a replay, that what is left of the block and of the queue leads from the present ledger to that of the block
  (`ReplayingBatch`, `ReplayingQueue`). A step of a queue pass then is one of a few turns as seen from the ledger (`Taken`,
  `Skipped`, `Effective`, ...). It needs two facts a reader may not expect: an account with funds has an entry in its shard
  (`KnownInv`), or a replay could miss a sender; and a block lists its same-shard transactions first (`SamesFirst`),
  because a replay executes them first.

`WalletUnlockProofs` proves of `WalletSession` `SessionTypes`, `LockedIsEmpty`, `SessionsFit` and `GuessesAreBounded`
for any number of calls, attempts, PINs and ticks that satisfies `WalletSessionConstants`. `GuessesBounded` is not
inductive: the bound is approached by calls that passed the lockout check before the pause began. `GuessInv` counts
them (`Pending`): outside a pause every refused PIN is in the counter of attempts, during a pause the refused ones and
the pending ones together stay within the bound, and each step that refuses takes its call out of `Pending`.
`FreshExists` (a new object is neither the shown one nor that of the session) is what `SessionsFit` needs of
`Cardinality(WalletId) > 2`.

Of `TwoFactor` it proves `TwoFactorTypes`, `BackupCodesWorkOnce`, `SecondFactorGuards` and `ShownCodesAreStored` from
`TwoFactorConstants` and `Sentinel`. The inductive invariant adds `SpentCodesGone` (spent codes are not stored unless a
verification wrote over a change, and all codes that are stored, spent or held by a verification are of batches given
out, so a new batch is new), `DialogIsOpen` (the dialog is only on the home screen and its own verifications end with
it, so that a late one cannot move another dialog to the step that shows codes) and `PinIsAsked` (a screen checks one PIN
at a time and the check ends being the screen's when that is left, so that its answer finds the screen it was asked on
and counts within its attempts). `SecondFactorGuards` has the exception of the property: it is not a theorem of this
code that the home screen takes the second factor.

`FiniteSums` holds what proofs about sums need. `SumFunctionOnSet` of the community modules is a fold in the order of a
`CHOOSE`; the lemmas show that any element may be taken first, and with it what a change of one summand, a part of the
set, an injection or a larger function does to the sum. Induction over finite sets (`SubsetInduction`) and over numbers
(`StrongInduction`) is stated for a set of those for which something holds, not for an operator, because the provers
cannot instantiate an operator; it follows from the library's theorem that well-founded relations have minimal elements.

`GovernanceProofs` proves all properties of the run for any accounts, contents, powers, periods, proposals and calls
(`GovernanceConstants`): `TypeCorrect`, `Final`, `SoundVotes`, `Applied` and `Majority`. `TypeInv` adds
`NumbersTaken` (one call at most holds a number that is not a proposal yet, and numbers and calls that may still take
one stay within the bound), which makes `DecisionIsFinal` true; `PhaseInv` adds that a proposal is tallied when its
voting period ends, calls are about proposals there are and nothing is known of a number without one. `VotesCovered`
(no vote outweighs its account's stake in the snapshot) and one vote per account give `SoundVotes` by a sum over the
injection from votes to accounts (`PowerWithinStake`). In `MajorityInv` a call that executes a proposal carries a copy
of one that was carried (`ExecutingIsCarried`), and votes appended after a tally do not touch the ones it counted.

`WalletRequestsProofs` proves the four invariants of the run, types and `FundingStaysClosed` from the assumptions of
`WalletForms` and `WalletRequests`. Two parts are about data: `ShownAmount` (an amount shown with commas and read up
to the first is no more than it was, and less than the first amount with a comma if it has one), by induction over the
digits, and `NoneVerifies` (the text signed begins with another key than the text verified). In the inductive
invariant `WInv`, `AttemptInv` counts for each confirmation: requests carried out and requests on the way are together
no more than the attempts sent (`AppliedBounded` says nothing of the ones on the way, so is not inductive);
`EffectInv` relates what was carried out to what the node remembers, and `Covered` to what a screen is about to
confirm at each step.

`WalletAccountsProofs` proves `TypeCorrect`, `KeysInReach` and `AccountsStayInOrder` for any phrases, PINs, accounts and
calls under way. `AInv` says what overlapping calls leave out: calls that clash have been recorded (`Recorded`), unless
recorded a call that is about to open a wallet holds what is stored (`OpenInv`) and nothing is written while a phrase is
shown (`PhraseInv`), and the index a derivation computed is still the length of the list (`ListInv`). TLC checked it
before it was proved, as the others.

`StakingProofs` proves every property of the run but `OnlyLockCycleBlocks`, for any accounts, validators, rates,
thresholds and requests under way (`StakingConstants`, `Sentinels`):

* `TypeCorrect` and `LockIsExclusive`. `STypeOK` is not inductive, because steps write entries without looking again:
  `LockInv` says that the job between reading an entry and writing it holds the lock of validators, `ValidatorsInv`
  that this entry is there (for a registration: absent) and that no delegation is to a validator without one,
  `ProducerInv` that rewards are computed for a positive total and that nothing matured is left over from a block.
* `EveryTokenSomewhere`: each action moves an amount from one of the sums in `TokensAccountedFor` to another. The lemmas
  say what an appended, reduced or removed entry does to the sum of a list, what a job that changes does to the amounts
  under way, and that splitting the queue in two (`Matured`, `Pending`) or cutting unbondings by a slash loses nothing
  but what `gone` counts.
* `StakesMatch` and `TotalIsBacked`, from `StakesInv`: `DelegatedInv` compares the delegated stake of a validator with its
  delegations and the undelegations between their two steps, `UnslashedInv` says that the total of an unslashed
  validator is the sum of its two stakes, `TotalInv` bounds `total`. The second needs the first: a reduction that clips
  both at zero keeps them in step only because the delegated stake holds what an undelegation took. `TotalInv` needs
  neither: what is clipped off the total is clipped at zero, and a validator never loses more than the total does.
* `RewardsAreCovered`. Per validator the delegators are given no more than the pool (`PoolSuffices`: floored divisions
  by the delegated stake, which by `DelegatedInv` is at least what is delegated), the validator no more than the rest of
  its share (`ShareSuffices`, which needs that the delegated stake is part of the total: nobody was slashed), and the
  shares add up (`RewardsSuffice`; `SumSwap` turns the sum over delegators into one over validators).

`NativeDexProofs` proves every property of the run `Exchange`, for any addresses, denoms, pairs, amounts, rates,
orders under way and restarts, and every width of the integers. It assumes `FactoryConstants` and `DexConstants` (a
share token has its pair as creator, is no token of its own pair and shares no denom with another pair; fees are less
than the whole and the protocol's part is no more than the fee; the address of a pool is no treasury) and that the
sentinels are no values (`FactorySentinels`, `DexSentinels`).

* `FactoryTypes`, `SuppliesCoverBalances`, `SuppliesWithinMax` and `TransfersAreLossless` of `FactorySpec`, the
  factory without the exchange, from `FactoryInv`. `SupplyCoversBalances` counts, besides the balances, what calls
  have added to a supply and not yet to a balance or taken from a balance and not yet from the supply (`UnderWay`);
  with that part it is inductive. That a mint is never refused at its second step and that a transfer never meets a
  balance without room both follow from it: two balances together are at most the supply, and the supply fits.
  `SupplyWithinMax` needs `CallsWithin`, because the supply and the maximum of a creation were compared a step before
  they are stored.
* `ExchangeTypes`, `ReservesAreCovered`, `ExchangeKeepsSupplies`, `SharesAlwaysHaveReserves` and
  `RegisteredPairsAlwaysOpen` of `DexSpec`, from `DexInv`. It adds to the properties what an order and the call it makes
  know of each other (`OrdersMatch`), and three facts per pair: `PairSound` (before a pool is stored only creations work on
  its pair), `PairOpens` (of a share token on record without a pool, exactly one creation is about to open it, and
  its shares have not been touched), `SharesBooked` (the supply of the share token and the additions that have not minted are
  at most the shares of the pool and the removals that have not burnt) and `Backed` (of stored and of saved pools,
  because a restart exchanges them). `Owing` in `PoolsAreCovered` is negative for reserves that are counted and
  not yet paid; each step of an order moves one amount from one term of the inequality to another (`CoverStep`).
* `ExchangeLosesNothing` of `DexSpec`: the payments of an order are moves of the factory (`PaymentLossless`), the other
  steps leave the balances alone or move a call on, and a restart after which the supplies are what they were has
  found none, so `SupplyCoversBalances` says that there was nothing to lose.
* `SharesAreAlwaysBacked` puts `SupplyCoversBalances` of the share token and `SharesBooked` together; `OnlyOverlapsOverdraw`
  follows from it, since the balance a removal checks is part of the shares that exist.
* `SharesAlwaysKeepTheirWorth` is about arithmetic: `SwapAmounts` (the product of the reserves does not fall, by the
  floor of `AmountOut` and a fee that is not negative), `AddedShares` and `Share` (a floored share of a product that
  wrapped is still at most the exact share). `Worth` multiplies the two ratios of an addition or a removal; provers need
  each monotone step of it separately (`ProductsGrow`).

`Isqrt` is defined by what it is and its existence proved (`RootExists`); that Newton's method in `integer_sqrt` finds it
is checked by TLC for every number below the width (`NewtonFindsRoots` in `MCNativeDex`), because it is induction over
data.

Model-checked only: the liveness properties `QueueDrains`, `IdleGetsLocked` and `LoadingEnds` and the `ENABLED` of
`OnlyLockCycleBlocks`, which are out of the prover's reach. Every other property of a passing run is a theorem.

## What is left out

* The message loop and replication between nodes. A node started with `--validator` knows its own validator only and
  produces height 1 at once (`main.rs:508`), so two producers part at their first block and there is no agreement to
  state; an observer appends what its one producer sends in order and drops the rest. `block_sync.rs` and the votes of
  `consensus.rs`, which would make the difference, have no caller in the node.
* `expand_shards`, the 60-second timeout of a batch, shard health, `add_transaction` (no caller), the history index.
* Hashes, Merkle roots, signatures and encodings, key derivation and encryption: they are taken to be what they
  should be. The one exception is the text that is signed, which `WalletForms` models.
* Persistence and restart of staking and governance, and the lock order between `persist_to_storage` and
  `submit_proposal`.
* In the wallet: what lies behind the closed first step of `BecomeValidator`, the read-only screens, NFTs, prices and
  presentation, the CSP and logging helpers, the unused exports of `security.ts`.
* The DeFi page: `connectWallet` is a stub that answers "not connected", and every handler that would change state
  returns at once without a wallet.
* In the token factory: the faucet, names and descriptions, queries, and `save_to_storage`, which has no caller. The
  `creation_fee` is not charged by the code either. `mint_internal` is modelled as the exchange calls it; the bridge calls
  it too.
* In the exchange: `collect_protocol_fees_with_signature` (no caller), volumes and statistics, quotes, the minimum amounts
  of a request (one that misses them is refused before anything changed), and a handler that is dropped half-way because its
  connection closed. A write of `pools.json` that overlaps another one is taken to leave the later contents.
* Bridge, fees, storage layout and configuration: planned. External code (libp2p, RocksDB, foreign
  chains) and parts without shared state (bot, explorer, website, scripts, superseded chain code) are not.

## Plan

| Module | State and next step | Theorems worth proving |
|---|---|---|
| `TransferLedger`, `CrossShardCommit` | done | done |
| `CrossShardRecovery` | done | done |
| `WalletSession`, `TwoFactor` | done | done |
| `WalletAccounts`, `WalletRequests` | done | done |
| `Staking` | next: persistence and restart | done |
| `Governance` | next: persistence, restart and its lock cycle | done |
| `TokenFactory`, `NativeDex` | next: the faucet and its two locks | done |
| `Bridge` | to write: submission, parallel processing, `mint_internal` of the factory, fees, treasury | a deposit is minted once |
| `expand_shards` in `CrossShardCommit` | to write: moved accounts, empty nonce trackers, queued transactions with old shard numbers | |

Runs are few and each has to earn its place: a new module brings one passing run, and a violation run stays only
while its lesson is not part of a constant or a property of a passing run.
