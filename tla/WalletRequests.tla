---------------------------- MODULE WalletRequests ----------------------------
(***************************************************************************)
(* What the wallet's screens send to a node: screens Send, Stake and       *)
(* Governance, the request loop of api/sultanAPI.ts and the handlers of    *)
(* sultan-core that answer it.  BecomeValidator never gets so far: see     *)
(* FundingStaysClosed.                                                     *)
(*                                                                         *)
(* A handler of a screen works on the values of the render it was created  *)
(* in: a call keeps the amount and the wallet object it began with.  It    *)
(* goes on when its screen is left, but then shows nothing.  Between two   *)
(* awaits nothing else runs.                                               *)
(*                                                                         *)
(* The network may lose a request, lose the answer, or deliver a request   *)
(* after its sender has given up.  The pause between two attempts, titles, *)
(* memos, recipients and the list of validators are left out; so is the    *)
(* nonce, which no handler that accepts a request of these screens reads.  *)
(* Answers to reads are not followed one by one: a screen shows what it    *)
(* may have read.                                                          *)
(*                                                                         *)
(* A definition X_Suffix is a faulty variant of X that the specification   *)
(* does not use; PROJECT.json names the property that tells them apart.    *)
(***************************************************************************)
EXTENDS WalletForms, FiniteSets

CONSTANTS
  MaxRetries,   \* MAX_RETRIES: attempts of one request
  MaxCalls,     \* bound: confirmations in a behaviour
  Typed,        \* bound: amounts the user types, in base units
  Accounts,     \* bound: balances of the account, each with the status of the proposal
  Stake,        \* the account's stake at the start
  Rewards,      \* its pending rewards
  FundAmount,   \* the fixed stake of a validator
  MinDeposit,   \* MIN_DEPOSIT of a proposal
  None

Status == {"DiscussionPeriod", "VotingPeriod"}

ASSUME WalletRequestsConstants ==
  /\ Accounts \subseteq [balance: Nat, status: Status]
  /\ {MaxRetries, MaxCalls} \subseteq Nat \ {0}
  /\ Typed \cup {Stake, Rewards, FundAmount, MinDeposit} \subseteq Nat
  /\ Group * Unit <= FundAmount

Id == 1 .. MaxCalls
StakeOps == {"stake", "unstake", "claim"}
GovernanceOps == {"vote", "propose"}
Op == {"transfer"} \cup StakeOps \cup GovernanceOps
Balances == {account.balance : account \in Accounts}
Amount == Typed \cup Balances \cup {MinDeposit} \cup 0 .. Stake
AmountText == {Plain(x) : x \in Amount} \cup {FormatSLTN(x) : x \in Amount}

VARIABLES
  node,     \* the account and the proposal at the node
  wallet,   \* None, or whether the wallet object of the provider is "live" or "destroyed"
  screen,   \* the screen open now
  calls,    \* one call per confirmation
  net,      \* requests on their way
  applied   \* how often the node has carried out each confirmation

ui == <<wallet, screen>>
vars == <<node, wallet, screen, calls, net, applied>>

Call == [op: Op, amount: Amount, stage: {"nonce", "sign", "wait", "pause", "done"},
         live: BOOLEAN, mounted: BOOLEAN, attempt: 1 .. MaxRetries]
Flags == {"isLoading", "isVoting", "isSubmitting"}

ASSUME NoneIsNothing == None \notin Call \cup Op \cup {"live", "destroyed"}

WRTypeOK ==
  /\ node \in [balance: Balances, staked: 0 .. Stake, voted: BOOLEAN, proposed: BOOLEAN,
               status: Status]
  /\ wallet \in {None, "live", "destroyed"}
  /\ screen \in [name: {"home", "send", "stake", "governance"},
                 step: {"form", "confirm", "pin", "success", "detail", "submit"},
                 action: Op \cup {None}, amount: AmountText, loading: SUBSET Flags,
                 notices: SUBSET Id]
  /\ calls \in [Id -> Call \cup {None}]
  /\ \A r \in net : /\ r \in [id: Id, attempt: 1 .. MaxRetries, op: Op, amount: Amount]
                    /\ calls[r.id] # None
  /\ applied \in [Id -> 0 .. MaxRetries]

Screen(name) == [name |-> name, step |-> "form", action |-> None, amount |-> Plain(0),
                 loading |-> {}, notices |-> {}]

Init ==
  /\ \E account \in Accounts :
       node = [balance |-> account.balance, status |-> account.status, staked |-> Stake,
               voted |-> FALSE, proposed |-> FALSE]
  /\ wallet = "live"
  /\ screen = Screen("home")
  /\ calls = [id \in Id |-> None]
  /\ net = {}
  /\ applied = [id \in Id |-> 0]

---------------------------------------------------------------------------
(* What a screen may show: what it read last, or 0 after a query that failed. *)
BalanceShown == {0, node.balance}
StakeShown == {0, Stake, node.staked}
RewardsShown == {0, Rewards}

---------------------------------------------------------------------------
(* The wallet and its screens. *)

Running == {id \in Id : calls[id] # None /\ calls[id].stage # "done"}

(* The bound MaxCalls: a screen opens, and a form is sent, while a call is left. *)
CallsLeft == \E id \in Id : calls[id] = None

(* The screen goes: its calls run on unseen. *)
Unmount(keys) ==
  calls' = [id \in Id |-> IF id \in Running
                          THEN [calls[id] EXCEPT !.mounted = FALSE, !.live = @ /\ keys]
                          ELSE calls[id]]

(* Also by the one button of the success view of Send. *)
Navigate(name) ==
  /\ wallet # None
  /\ name = "home" \/ CallsLeft
  /\ screen' = Screen(name)
  /\ Unmount(TRUE)
  /\ UNCHANGED <<node, wallet, net, applied>>

(* Locking destroys the wallet object, by hand or from the poll. *)
Lock ==
  /\ wallet # None
  /\ wallet' = None
  /\ screen' = Screen("home")
  /\ Unmount(FALSE)
  /\ UNCHANGED <<node, net, applied>>

(* The session timer destroys the wallet object; the screen stays until    *)
(* the poll sees it.                                                       *)
SessionExpires ==
  /\ wallet = "live"
  /\ wallet' = "destroyed"
  /\ calls' = [id \in Id |-> IF id \in Running THEN [calls[id] EXCEPT !.live = FALSE]
                             ELSE calls[id]]
  /\ UNCHANGED <<node, screen, net, applied>>

Unlock ==
  /\ wallet = None
  /\ wallet' = "live"
  /\ UNCHANGED <<node, screen, calls, net, applied>>

OnlyScreen == UNCHANGED <<node, wallet, calls, net, applied>>
At(name, step) == screen.name = name /\ screen.step = step
Goto(step) == screen' = [screen EXCEPT !.step = step] /\ OnlyScreen

Flag(op) ==
  CASE op = "vote" -> "isVoting" [] op = "propose" -> "isSubmitting" [] OTHER -> "isLoading"

(* A handler sets the flag of its screen and runs up to its first await;   *)
(* executeTransaction reads the nonce before it signs, the others sign     *)
(* first.                                                                  *)
Start(op, amount) ==
  \E id \in Id :
    /\ calls[id] = None /\ \A j \in 1 .. id - 1 : calls[j] # None
    /\ Flag(op) \notin screen.loading
    /\ screen' = [screen EXCEPT !.loading = @ \cup {Flag(op)}]
    /\ calls' = [calls EXCEPT ![id] =
         [op |-> op, amount |-> amount, stage |-> IF op = "transfer" THEN "nonce" ELSE "sign",
          live |-> wallet = "live", mounted |-> TRUE, attempt |-> 1]]
    /\ UNCHANGED <<node, wallet, net, applied>>

(* The amounts of a form: typed, or what is shown as available (MAX). *)
TypedTexts == {Plain(x) : x \in Typed}
Texts(available) == TypedTexts \cup {FormatSLTN(available)}

Enter(op, step, text) ==
  /\ CallsLeft /\ screen.loading = {}
  /\ screen' = [screen EXCEPT !.step = step, !.action = op, !.amount = text]
  /\ OnlyScreen

---------------------------------------------------------------------------
(* Send: form, review, PIN. *)

ValidateForm(text, available) == ValidateAmount(text, FormatSLTN(available))
SendForm == At("send", "form")
SendReview == At("send", "confirm")
SendPin == At("send", "pin")

HandleContinue ==
  /\ SendForm
  /\ \E b \in BalanceShown : \E t \in Texts(b) :
       ValidateForm(t, b) /\ Enter("transfer", "confirm", t)

HandleConfirmToPin == SendReview /\ Goto("pin")
BackToForm == SendReview /\ Goto("form")
BackToReview == SendPin /\ screen.loading = {} /\ Goto("confirm")

ExecuteTransaction == Start("transfer", BaseUnits(screen.amount))

(* The right PIN; any other changes nothing here. *)
SendPinSubmit == SendPin /\ ExecuteTransaction

---------------------------------------------------------------------------
(* Stake: form, PIN. *)

StakeForm == At("stake", "form")
StakePin == At("stake", "pin")
ClaimOffered(rewards) == Greater(FormatSLTN(rewards), Plain(0))

(* An edit that nothing waits for is part of its handler. *)
EditWhileWaiting ==
  /\ StakeForm /\ screen.loading # {}
  /\ \E t \in TypedTexts : screen' = [screen EXCEPT !.amount = t]
  /\ OnlyScreen

HandleStake ==
  /\ StakeForm
  /\ \E b \in BalanceShown : \E t \in Texts(b) :
       ValidateAmount(t, FormatSLTN(b)) /\ Enter("stake", "pin", t)

HandleUnstake ==
  /\ StakeForm
  /\ \E b \in StakeShown : \E t \in Texts(b) :
       ValidateAmount(t, FormatSLTN(b)) /\ Enter("unstake", "pin", t)

HandleClaimRewards ==
  /\ StakeForm
  /\ \E b \in RewardsShown : ClaimOffered(b)
  /\ Enter("claim", "pin", screen.amount)

(* Also while the call runs: it goes on. *)
HandleCancelPin ==
  /\ StakePin
  /\ screen' = [screen EXCEPT !.step = "form", !.action = None]
  /\ OnlyScreen

ExecuteStake == screen.action = "stake" /\ Start("stake", BaseUnits(screen.amount))
ExecuteUnstake == screen.action = "unstake" /\ Start("unstake", BaseUnits(screen.amount))
ExecuteClaim == screen.action = "claim" /\ Start("claim", 0)

StakePinSubmit == StakePin /\ (ExecuteStake \/ ExecuteUnstake \/ ExecuteClaim)

---------------------------------------------------------------------------
(* Governance: list, proposal, new proposal.  No PIN is asked for. *)

ProposalList == At("governance", "form")
SubmitForm == At("governance", "submit")

OpenProposal == ProposalList /\ CallsLeft /\ Goto("detail")
NewProposal == ProposalList /\ CallsLeft /\ Goto("submit")
BackToList == screen.name = "governance" /\ screen.step # "form" /\ Goto("form")

(* getProposals: the status the list was filled with. *)
ListedStatus == MapProposalStatus(node.status)

(* Number() of a stake with commas is not 0 either. *)
VoteOffered(staked) ==
  /\ At("governance", "detail")
  /\ ListedStatus = "VotingPeriod"
  /\ staked > 0

HandleVote == (\E b \in StakeShown : VoteOffered(b)) /\ Start("vote", 0)

DepositPasses(text, available) ==
  BaseUnits(text) >= MinDeposit /\ ~Greater(text, FormatSLTN(available))

HandleSubmitProposal ==
  /\ SubmitForm
  /\ \E t \in TypedTexts \cup {Plain(MinDeposit)}, b \in BalanceShown :
       DepositPasses(t, b) /\ Start("propose", BaseUnits(t))

---------------------------------------------------------------------------
(* BecomeValidator: both of its tests read the text of the balance. *)

HasMinimumStake(balance) == ParseFloat(FormatSLTN(balance)) >= FundAmount

(* Get Started, the only way on from the overview. *)
GetStartedOffered(balance) == HasMinimumStake(balance)
CanFund(balance) == ValidateAmount(Plain(FundAmount), FormatSLTN(balance))

---------------------------------------------------------------------------
(* Calls. *)

Failed_Loading(s, op) == s

Failed(s, op) == [s EXCEPT !.loading = @ \ {Flag(op)}]

(* Also from another view of the screen, to which the user has gone on. *)
StepAfter(op) == IF op = "transfer" THEN "success" ELSE "form"

Succeeded(s, id, op) ==
  [s EXCEPT !.loading = @ \ {Flag(op)},
            !.notices = @ \cup {id},
            !.step = StepAfter(op),
            !.action = IF op \in StakeOps THEN None ELSE @,
            !.amount = IF op \in {"stake", "unstake"} THEN Plain(0) ELSE @]

(* The call ends, and tells its screen if that is still there. *)
End(id, ok) ==
  LET c == calls[id]
  IN  /\ calls' = [calls EXCEPT ![id].stage = "done", ![id].attempt = 1, ![id].live = FALSE,
                                ![id].mounted = FALSE]
      /\ screen' = IF ~c.mounted THEN screen
                   ELSE IF ok THEN Succeeded(screen, id, c.op) ELSE Failed(screen, c.op)
      /\ UNCHANGED wallet

Body_OfForm(id) ==
  [id |-> id, attempt |-> calls[id].attempt, op |-> calls[id].op,
   amount |-> BaseUnits(screen.amount)]

Body(id) ==
  [id |-> id, attempt |-> calls[id].attempt, op |-> calls[id].op, amount |-> calls[id].amount]

(* One attempt of restApi. *)
Fetch(id) ==
  /\ calls' = [calls EXCEPT ![id].stage = "wait"]
  /\ net' = net \cup {Body(id)}
  /\ UNCHANGED <<node, ui, applied>>

GoesTo(id, stage) ==
  calls' = [calls EXCEPT ![id].stage = stage] /\ UNCHANGED <<node, ui, net, applied>>

(* getNonce answers 0 when it fails: it never stops a call. *)
GetNonce(id) ==
  /\ calls[id].stage = "nonce"
  /\ IF calls[id].op = "transfer" THEN GoesTo(id, "sign") ELSE Fetch(id)

(* The staking calls read the nonce after this, the others post. *)
SignTransaction(id) ==
  /\ calls[id].stage = "sign"
  /\ IF ~calls[id].live THEN End(id, FALSE) /\ UNCHANGED <<node, net, applied>>
     ELSE IF calls[id].op \in StakeOps THEN GoesTo(id, "nonce") ELSE Fetch(id)

FetchAgain(id) == calls[id].stage = "pause" /\ Fetch(id)

MayRetry(attempt) == attempt < MaxRetries

(* A status of RETRYABLE_STATUS_CODES, or fetch throws. *)
Retryable(answer) == answer \in {"busy", "lost"}

HasSchema_None(op) == FALSE

(* Answers to /tx and /staking must have a hash; the others are not looked at. *)
HasSchema(op) == op \notin GovernanceOps
Accepted(op, answer) == answer = "ok" \/ (answer = "noHash" /\ ~HasSchema(op))

(* The loop of restApi goes on with an answer, or with what fetch throws. *)
Continue(id, answer) ==
  IF Retryable(answer) /\ MayRetry(calls[id].attempt)
  THEN calls' = [calls EXCEPT ![id].stage = "pause", ![id].attempt = @ + 1] /\ UNCHANGED ui
  ELSE End(id, Accepted(calls[id].op, answer))

(* fetch throws, or the timeout aborts it. *)
NoAnswer(id) ==
  /\ calls[id].stage = "wait"
  /\ \E answer \in {"lost", "timeout"} : Continue(id, answer)
  /\ UNCHANGED <<node, net, applied>>

---------------------------------------------------------------------------
(* The node and the network. *)

Refused == [answer |-> "refused", node |-> node]

TransferVerdict == [answer |-> IF Verifies("transfer") THEN "ok" ELSE "noHash", node |-> node]
StakeVerdict == [answer |-> IF Verifies("stake") THEN "ok" ELSE "refused", node |-> node]

UnstakeVerdict(amount) ==
  IF 0 < amount /\ amount <= node.staked
  THEN [answer |-> "ok", node |-> [node EXCEPT !.staked = @ - amount]] ELSE Refused

VoteVerdict_Again ==
  IF node.status = "VotingPeriod" THEN [answer |-> "ok", node |-> [node EXCEPT !.voted = TRUE]]
  ELSE Refused

VoteVerdict ==
  IF node.status = "VotingPeriod" /\ ~node.voted
  THEN [answer |-> "ok", node |-> [node EXCEPT !.voted = TRUE]] ELSE Refused

ProposalVerdict ==
  IF node.proposed THEN Refused ELSE [answer |-> "ok", node |-> [node EXCEPT !.proposed = TRUE]]

(* What the node makes of a request: the answer, and the account after it. *)
Verdict(r) ==
  CASE r.op = "transfer" -> TransferVerdict
    [] r.op = "stake"    -> StakeVerdict
    [] r.op = "claim"    -> Refused
    [] r.op = "unstake"  -> UnstakeVerdict(r.amount)
    [] r.op = "vote"     -> VoteVerdict
    [] r.op = "propose"  -> ProposalVerdict

(* An answer reaches the attempt that waits for it, or nobody. *)
Deliver(r, answer) ==
  IF calls[r.id].stage = "wait" /\ calls[r.id].attempt = r.attempt THEN Continue(r.id, answer)
  ELSE UNCHANGED <<calls, ui>>

NodeHandles(r) ==
  LET v == Verdict(r)
  IN  /\ net' = net \ {r}
      /\ node' = v.node
      /\ applied' = [applied EXCEPT ![r.id] = IF v.answer = "ok" THEN @ + 1 ELSE @]
      /\ Deliver(r, v.answer) \/ UNCHANGED <<calls, ui>>

(* 429, or a status of a proxy in between: nothing was done. *)
NodeBusy(r) == net' = net \ {r} /\ Deliver(r, "busy") /\ UNCHANGED <<node, applied>>

---------------------------------------------------------------------------
CallStep(id) ==
  /\ id \in Running
  /\ GetNonce(id) \/ SignTransaction(id) \/ NoAnswer(id) \/ FetchAgain(id)

User ==
  \/ \E name \in {"home", "send", "stake", "governance"} : Navigate(name)
  \/ HandleContinue \/ HandleConfirmToPin \/ BackToForm \/ BackToReview \/ SendPinSubmit
  \/ HandleStake \/ HandleUnstake \/ HandleClaimRewards \/ EditWhileWaiting
  \/ HandleCancelPin \/ StakePinSubmit
  \/ OpenProposal \/ NewProposal \/ BackToList \/ HandleVote \/ HandleSubmitProposal
  \/ Lock \/ Unlock

Next ==
  \/ User
  \/ SessionExpires
  \/ \E id \in Id : CallStep(id)
  \/ \E r \in net : NodeHandles(r) \/ NodeBusy(r)

Spec == Init /\ [][Next]_vars

(* Promises and timers run: a call that can go on does. *)
FairSpec == Spec /\ \A id \in Id : WF_vars(CallStep(id))
---------------------------------------------------------------------------
(* Properties. *)

(* A screen that reports a success is right: the node has carried that     *)
(* confirmation out (Send.tsx:206, Stake.tsx:275, Governance.tsx:184),     *)
(* although it answers some refusals with status 200.                      *)
SuccessIsTrue == \A id \in screen.notices : applied[id] > 0

(* What is sent is what was confirmed, whatever the user has done to the   *)
(* form while the nonce was read or an attempt was repeated                *)
(* (Stake.tsx:253, cancel at 360).                                         *)
SentAsConfirmed == \A r \in net : r.op = calls[r.id].op /\ r.amount = calls[r.id].amount

(* However often it is sent, a confirmed vote or proposal counts once, and *)
(* an unstaking at most once per attempt (sultanAPI.ts:204).               *)
AppliedBounded ==
  \A id \in Id : applied[id] <= IF calls[id] # None /\ calls[id].op = "unstake"
                               THEN MaxRetries ELSE 1

(* An amount the forms let pass is covered by the account, although they   *)
(* compare texts and the text of the balance has commas or is a fallback   *)
(* (security.ts:751).                                                      *)
ConfirmedIsCovered ==
  \A id \in Id :
    calls[id] # None => /\ calls[id].op \in {"transfer", "stake"} => calls[id].amount <= node.balance
                        /\ calls[id].op = "unstake" => calls[id].amount <= Stake

(* A screen that is waiting stops waiting: with an answer, or with an      *)
(* error after the last attempt (Send.tsx:215).                            *)
LoadingEnds == screen.loading # {} ~> screen.loading = {}

(* No balance leads past the first step of BecomeValidator, which asks for *)
(* 10,000 SLTN (BecomeValidator.tsx:100, 327) of a text that has commas    *)
(* from 1,000 SLTN on; what lies behind that step is therefore left out.   *)
FundingStaysClosed == \A b \in BalanceShown : ~GetStartedOffered(b) /\ ~CanFund(b)
=============================================================================
