----------------------------- MODULE Governance -----------------------------
(***************************************************************************)
(* The governance manager of sultan-core (governance.rs) and the handler   *)
(* that executes proposals (main.rs).  Calls run as concurrent jobs; every *)
(* field of the manager has a lock of its own, so a call that reads one    *)
(* field and then writes another is several steps.                         *)
(*                                                                         *)
(* Blocks move the height of the manager forward.  The library offers more *)
(* than the node uses: advance_proposal_phases, update_staking_snapshot,   *)
(* sign_upgrade_proposal and emergency_pause_vote have no caller in        *)
(* main.rs.  NodeNext is what the node runs, Next the whole library.       *)
(*                                                                         *)
(* A definition X_Suffix is a faulty variant of X that the specification   *)
(* does not use; PROJECT.json names the property that tells them apart.    *)
(***************************************************************************)
EXTENDS Integers, Sequences, SequencesExt, FiniteSets, FiniteSetsExt, Functions

CONSTANTS
  Job,               \* calls that may be in progress at a time
  Account,           \* voters
  Proposer,          \* the accounts among them that submit proposals
  Validator,         \* validators that sign upgrades and vote to pause
  MaxProposals,      \* bound on proposals
  Content,           \* what may be proposed: records of kind and parameters
  Option,            \* options that are voted for
  Power,             \* voting powers that callers of vote pass
  Snapshot,          \* stakes of the accounts at some height
  Bonded,            \* values of total_bonded_tokens
  DiscussionBlocks,  \* DISCUSSION_PERIOD_BLOCKS
  VotingBlocks,      \* VOTING_PERIOD_BLOCKS
  CooldownBlocks,    \* PROPOSAL_COOLDOWN_BLOCKS
  MaxActive,         \* MAX_ACTIVE_PROPOSALS_PER_ADDRESS
  UpgradeThreshold,  \* UPGRADE_MULTISIG_THRESHOLD
  MaxHeight,         \* bound on blocks
  MaxCalls,          \* bound on calls
  None               \* no proposal, snapshot, tally, height; no job

(* Community pool and emergency proposals execute like text proposals. *)
Kind == {"ParameterChange", "SoftwareUpgrade", "TextProposal", "SlashingProposal"}

VoteOption == {"Yes", "No", "Abstain", "NoWithVeto"}

(* Keys of a parameter change; the value of a bad feature is not a flag. *)
Parameter == {"inflation_rate", "feature", "bad_feature"}

ASSUME GovernanceConstants ==
  /\ Proposer \subseteq Account
  /\ Content \subseteq [kind: Kind, parameters: SUBSET Parameter]
  /\ Option \subseteq VoteOption
  /\ Power \subseteq Nat \ {0}
  /\ Snapshot \subseteq [Account -> Nat]
  /\ Bonded \subseteq Nat
  /\ {MaxActive, UpgradeThreshold} \subseteq Nat \ {0}
  /\ {DiscussionBlocks, VotingBlocks, CooldownBlocks, MaxProposals, MaxHeight,
      MaxCalls} \subseteq Nat

(* A snapshot is a map from finitely many accounts, and only finitely many *)
(* calls are in progress at a time.                                        *)
ASSUME GovernanceFinite == IsFiniteSet(Job) /\ IsFiniteSet(Account)

Id == 1 .. MaxProposals
ProposalStatus == {"DiscussionPeriod", "VotingPeriod", "Passed", "Rejected",
                   "Failed", "Executed", "EmergencyPaused"}
Vote == [voter: Account, option: Option, power: Nat]
TallyResult == [yes: Nat, no: Nat, abstain: Nat, veto: Nat, stake: Nat]
Proposal == [proposer: Proposer, content: Content, status: ProposalStatus,
             submitted: Nat, snapshot: Snapshot \cup {None},
             tally: TallyResult \cup {None}, signatures: SUBSET Validator,
             pauseVotes: SUBSET Validator]

(* What a call in progress knows. *)
Asked == [op: {"submit"}, at: {"checked", "allowed"}, proposer: Proposer,
          content: Content, height: Nat]
Numbered == [op: {"submit"}, at: {"numbered"}, proposer: Proposer,
             content: Content, height: Nat, id: Id, snapshot: Snapshot \cup {None}]
Voting == [op: {"vote"}, at: {"verified"}, id: Id, vote: Vote]
Executing == [op: {"execute"}, at: {"passed", "executed"}, id: Id]
Call == Asked \cup Numbered \cup Voting \cup Executing

ASSUME NoneIsNothing ==
  None \notin Proposal \cup Snapshot \cup TallyResult \cup Call \cup Nat

VARIABLES
  proposals,     \* proposals
  votes,         \* votes
  nextId,        \* next_proposal_id
  height,        \* current_height
  bonded,        \* total_bonded_tokens
  lastProposal,  \* last_proposal_by_address
  snapshots,     \* staking_snapshots, by height
  call,          \* calls in progress
  calls,         \* calls so far
  changes,       \* auxiliary: changes to the staking manager per proposal
  activated      \* auxiliary: proposals whose feature has been activated

vars == <<proposals, votes, nextId, height, bonded, lastProposal, snapshots,
          call, calls, changes, activated>>

GTypeOK ==
  /\ proposals \in [Id -> Proposal \cup {None}]
  /\ votes \in [Id -> Seq(Vote)]
  /\ nextId \in 1 .. MaxProposals + 1
  /\ height \in 0 .. MaxHeight
  /\ bonded \in Nat
  /\ lastProposal \in [Proposer -> Nat \cup {None}]
  /\ DOMAIN snapshots \subseteq 0 .. MaxHeight /\ Range(snapshots) \subseteq Snapshot
  /\ Cardinality(DOMAIN snapshots) <= VotingBlocks + 1
  /\ call \in [Job -> Call \cup {None}]
  /\ calls \in 0 .. MaxCalls
  /\ changes \in [Id -> Nat]
  /\ activated \subseteq Id

Init ==
  /\ proposals = [id \in Id |-> None]
  /\ votes = [id \in Id |-> << >>]
  /\ nextId = 1
  /\ height = 0
  /\ bonded = 0
  /\ lastProposal = [a \in Proposer |-> None]
  /\ snapshots = << >>
  /\ call = [j \in Job |-> None]
  /\ calls = 0
  /\ changes = [id \in Id |-> 0]
  /\ activated = {}

-----------------------------------------------------------------------------
CountCall == calls < MaxCalls /\ calls' = calls + 1
Start(j, c) == CountCall /\ call[j] = None /\ call' = [call EXCEPT ![j] = c]
At(j, op, at) == call[j] # None /\ call[j].op = op /\ call[j].at = at
Return(j) == call' = [call EXCEPT ![j] = None]

Exists(id) == proposals[id] # None
HasStatus(id, s) == Exists(id) /\ proposals[id].status \in s
VotingStart(p) == p.submitted + DiscussionBlocks
VotingEnd(p) == VotingStart(p) + VotingBlocks

ledgerVars == <<proposals, votes, nextId, lastProposal, snapshots>>
chainVars == <<height, bonded>>
effectVars == <<changes, activated>>

-----------------------------------------------------------------------------
(* The producer tells the manager the height and the stake of each block.  *)

UpdateHeight ==
  /\ height < MaxHeight
  /\ height' = height + 1
  /\ UNCHANGED <<ledgerVars, bonded, call, calls, effectVars>>

UpdateTotalBonded ==
  /\ bonded' \in Bonded \ {bonded}
  /\ UNCHANGED <<ledgerVars, height, call, calls, effectVars>>

-----------------------------------------------------------------------------
(* submit_proposal: the two limits are checked under locks of their own;   *)
(* from the number of the proposal to its insertion next_proposal_id is    *)
(* locked.                                                                 *)

InCooldown(a) ==
  lastProposal[a] # None /\ height < lastProposal[a] + CooldownBlocks

Submitting == {j \in Job : call[j] # None /\ call[j].op = "submit"
                           /\ call[j].at # "numbered"}

SubmitProposal(j, a, c) ==
  /\ nextId + Cardinality(Submitting) <= MaxProposals
  /\ ~InCooldown(a)
  /\ Start(j, [op |-> "submit", at |-> "checked", proposer |-> a, content |-> c,
               height |-> height])
  /\ UNCHANGED <<ledgerVars, chainVars, effectVars>>

ActiveProposals(a) ==
  {id \in Id : HasStatus(id, {"VotingPeriod"}) /\ proposals[id].proposer = a}

CheckActive(j) ==
  /\ At(j, "submit", "checked")
  /\ IF Cardinality(ActiveProposals(call[j].proposer)) >= MaxActive
       THEN Return(j)
       ELSE call' = [call EXCEPT ![j].at = "allowed"]
  /\ UNCHANGED <<ledgerVars, chainVars, calls, effectVars>>

NumberLocked == \E j \in Job : At(j, "submit", "numbered")
NextNumber_Same == nextId
NextNumber == nextId + 1

TakeNumber(j) ==
  /\ At(j, "submit", "allowed")
  /\ ~NumberLocked
  /\ nextId' = NextNumber
  /\ LET c == call[j]
     IN  /\ lastProposal' = [lastProposal EXCEPT ![c.proposer] = c.height]
         /\ call' = [call EXCEPT ![j] =
              [op |-> "submit", at |-> "numbered", proposer |-> c.proposer,
               content |-> c.content, height |-> c.height, id |-> nextId,
               snapshot |-> IF c.height \in DOMAIN snapshots
                              THEN snapshots[c.height] ELSE None]]
  /\ UNCHANGED <<proposals, votes, snapshots, chainVars, calls, effectVars>>

InsertProposal(j) ==
  /\ At(j, "submit", "numbered")
  /\ LET c == call[j]
     IN  /\ proposals' = [proposals EXCEPT ![c.id] =
              [proposer |-> c.proposer, content |-> c.content,
               status |-> "DiscussionPeriod", submitted |-> c.height,
               snapshot |-> c.snapshot, tally |-> None, signatures |-> {},
               pauseVotes |-> {}]]
         /\ votes' = [votes EXCEPT ![c.id] = << >>]
  /\ Return(j)
  /\ UNCHANGED <<nextId, lastProposal, snapshots, chainVars, calls, effectVars>>

(* update_staking_snapshot keeps the snapshots of one voting period. *)
KeptHeights == {h \in DOMAIN snapshots \cup {height} : h + VotingBlocks >= height}

UpdateStakingSnapshot(s) ==
  /\ CountCall
  /\ snapshots' = [h \in KeptHeights |-> IF h = height THEN s ELSE snapshots[h]]
  /\ UNCHANGED <<proposals, votes, nextId, lastProposal, chainVars, call, effectVars>>

(* advance_proposal_phases *)
AdvancePhases ==
  /\ \E id \in Id : HasStatus(id, {"DiscussionPeriod"})
  /\ proposals' = [id \in Id |->
       IF HasStatus(id, {"DiscussionPeriod"}) /\ height >= VotingStart(proposals[id])
         THEN [proposals[id] EXCEPT !.status = "VotingPeriod"] ELSE proposals[id]]
  /\ UNCHANGED <<votes, nextId, lastProposal, snapshots, chainVars, call, calls,
                 effectVars>>

-----------------------------------------------------------------------------
(* vote: the proposal is checked under the lock of proposals, the vote is  *)
(* appended under the lock of votes.                                       *)

(* The power a vote counts with: never more than the account had staked    *)
(* when the proposal started, if a snapshot of that height was taken.      *)
VerifiedPower(p, a, power) ==
  IF p.snapshot = None THEN power ELSE Min({power, p.snapshot[a]})

CastVote(j, id, a, option, power) ==
  /\ HasStatus(id, {"VotingPeriod"})
  /\ height <= VotingEnd(proposals[id])
  /\ proposals[id].snapshot # None => proposals[id].snapshot[a] > 0
  /\ Start(j, [op |-> "vote", at |-> "verified", id |-> id,
               vote |-> [voter |-> a, option |-> option,
                         power |-> VerifiedPower(proposals[id], a, power)]])
  /\ UNCHANGED <<ledgerVars, chainVars, effectVars>>

HasVoted_Never(a, id) == FALSE
HasVoted(a, id) == \E i \in DOMAIN votes[id] : votes[id][i].voter = a

AppendVote(j) ==
  /\ At(j, "vote", "verified")
  /\ LET c == call[j]
     IN  IF HasVoted(c.vote.voter, c.id)
           THEN UNCHANGED votes
           ELSE votes' = [votes EXCEPT ![c.id] = Append(@, c.vote)]
  /\ Return(j)
  /\ UNCHANGED <<proposals, nextId, lastProposal, snapshots, chainVars, calls,
                 effectVars>>

-----------------------------------------------------------------------------
(* tally_proposal *)

PowerOf(vs, options) ==
  SumFunctionOnSet([i \in DOMAIN vs |-> vs[i].power],
                   {i \in DOMAIN vs : vs[i].option \in options})

Count(vs, stake) ==
  [yes |-> PowerOf(vs, {"Yes"}), no |-> PowerOf(vs, {"No", "NoWithVeto"}),
   abstain |-> PowerOf(vs, {"Abstain"}), veto |-> PowerOf(vs, {"NoWithVeto"}),
   stake |-> stake]

(* MIN_QUORUM and VETO_THRESHOLD are 33.4 %, PASS_THRESHOLD is one half. *)
QuorumReached_NoStake(t) == (t.yes + t.no + t.abstain) * 1000 >= 334 * t.stake
QuorumReached(t) ==
  t.stake > 0 /\ (t.yes + t.no + t.abstain) * 1000 >= 334 * t.stake
Vetoed(t) == t.veto * 1000 > 334 * (t.yes + t.no + t.abstain)
Accepted(t) == QuorumReached(t) /\ ~Vetoed(t) /\ 2 * t.yes > t.yes + t.no

Outcome(t) ==
  IF Vetoed(t) THEN "Failed" ELSE IF Accepted(t) THEN "Passed" ELSE "Rejected"

TallyProposal(id) ==
  /\ CountCall
  /\ HasStatus(id, {"VotingPeriod"})
  /\ height > VotingEnd(proposals[id])
  /\ LET t == Count(votes[id], bonded)
     IN  proposals' = [proposals EXCEPT ![id].tally = t, ![id].status = Outcome(t)]
  /\ UNCHANGED <<votes, nextId, lastProposal, snapshots, chainVars, call, effectVars>>

-----------------------------------------------------------------------------
(* sign_upgrade_proposal and emergency_pause_vote                          *)

SignUpgradeProposal(id, v) ==
  /\ CountCall
  /\ HasStatus(id, {"Passed"})
  /\ proposals[id].content.kind = "SoftwareUpgrade"
  /\ v \notin proposals[id].signatures
  /\ LET signed == proposals[id].signatures \cup {v}
         done == Cardinality(signed) >= UpgradeThreshold
     IN  proposals' = [proposals EXCEPT ![id].signatures = signed,
                         ![id].status = IF done THEN "Executed" ELSE @]
  /\ UNCHANGED <<votes, nextId, lastProposal, snapshots, chainVars, call, effectVars>>

(* EMERGENCY_PAUSE_THRESHOLD: 67 % of the validators, rounded up. *)
PauseThreshold == (67 * Cardinality(Validator) + 99) \div 100

MayPause(id) == HasStatus(id, {"VotingPeriod", "Passed"})

EmergencyPauseVote(id, v) ==
  /\ CountCall
  /\ MayPause(id)
  /\ v \notin proposals[id].pauseVotes
  /\ LET pausing == proposals[id].pauseVotes \cup {v}
         reached == Cardinality(pausing) >= PauseThreshold
     IN  proposals' = [proposals EXCEPT ![id].pauseVotes = pausing,
                         ![id].status = IF reached THEN "EmergencyPaused" ELSE @]
  /\ UNCHANGED <<votes, nextId, lastProposal, snapshots, chainVars, call, effectVars>>

-----------------------------------------------------------------------------
(* handle_execute_proposal: a copy of the proposal is checked, the         *)
(* proposal is executed, and the features of the copy are activated.       *)

BeginExecute(j, id) ==
  /\ HasStatus(id, {"Passed"})
  /\ Start(j, [op |-> "execute", at |-> "passed", id |-> id])
  /\ UNCHANGED <<ledgerVars, chainVars, effectVars>>

Executable_CheckedBefore(id) == Exists(id)
Executable(id) == HasStatus(id, {"Passed"})

(* The changes execute_proposal_internal may have made to the staking      *)
(* manager when it ends, and whether it ends well: parameters are applied  *)
(* in the order of a hash map up to the first bad one, and a slash fails   *)
(* when the validator is not there.                                        *)
Execution(c) ==
  CASE c.kind = "ParameterChange" ->
         LET rate == IF "inflation_rate" \in c.parameters THEN 1 ELSE 0
         IN  IF "bad_feature" \in c.parameters
               THEN {<<n, FALSE>> : n \in 0 .. rate} ELSE {<<rate, TRUE>>}
    [] c.kind = "SlashingProposal" -> {<<1, TRUE>>, <<0, FALSE>>}
    [] OTHER -> {<<0, TRUE>>}

Execute(j) ==
  /\ At(j, "execute", "passed")
  /\ LET id == call[j].id
     IN  IF ~Executable(id)
           THEN Return(j) /\ UNCHANGED <<proposals, changes>>
           ELSE \E result \in Execution(proposals[id].content) :
                  /\ changes' = [changes EXCEPT ![id] = @ + result[1]]
                  /\ IF result[2]
                       THEN /\ proposals' = [proposals EXCEPT ![id].status = "Executed"]
                            /\ call' = [call EXCEPT ![j].at = "executed"]
                       ELSE Return(j) /\ UNCHANGED proposals
  /\ UNCHANGED <<votes, nextId, lastProposal, snapshots, chainVars, calls, activated>>

ActivateFeatures(j) ==
  /\ At(j, "execute", "executed")
  /\ LET id == call[j].id
     IN  activated' = IF "feature" \in proposals[id].content.parameters
                        THEN activated \cup {id} ELSE activated
  /\ Return(j)
  /\ UNCHANGED <<ledgerVars, chainVars, calls, changes>>

-----------------------------------------------------------------------------
Finish(j) ==
  \/ CheckActive(j) \/ TakeNumber(j) \/ InsertProposal(j)
  \/ AppendVote(j)
  \/ Execute(j) \/ ActivateFeatures(j)

NodeCall ==
  \/ \E j \in Job :
       \/ \E a \in Proposer, c \in Content : SubmitProposal(j, a, c)
       \/ \E id \in Id, a \in Account, o \in Option, n \in Power :
            CastVote(j, id, a, o, n)
       \/ \E id \in Id : BeginExecute(j, id)
  \/ \E id \in Id : TallyProposal(id)

LibraryCall ==
  \/ AdvancePhases
  \/ \E s \in Snapshot : UpdateStakingSnapshot(s)
  \/ \E id \in Id, v \in Validator : SignUpgradeProposal(id, v) \/ EmergencyPauseVote(id, v)

NodeNext ==
  UpdateHeight \/ UpdateTotalBonded \/ NodeCall \/ \E j \in Job : Finish(j)

Next == NodeNext \/ LibraryCall

Spec == Init /\ [][Next]_vars

-----------------------------------------------------------------------------
(* Properties.                                                             *)

(* No account votes twice on a proposal, also when two of its votes are    *)
(* verified at the same time (vote).                                       *)
OneVotePerVoter ==
  \A id \in Id : \A i, k \in DOMAIN votes[id] :
    votes[id][i].voter = votes[id][k].voter => i = k

(* Who staked when a proposal started decides about it: all its votes      *)
(* together never weigh more than the stake of the snapshot ("Flash        *)
(* staking is not allowed", governance.rs:486).                            *)
PowerBoundBySnapshot ==
  \A id \in Id : Exists(id) /\ proposals[id].snapshot # None =>
    PowerOf(votes[id], VoteOption) <= SumFunction(proposals[id].snapshot)

(* The votes a tally finds are sound: one per account, each with no more   *)
(* than that account's stake at the start, however votes interleave.       *)
VotesAreSound == OneVotePerVoter /\ PowerBoundBySnapshot

Follows(s) ==
  CASE s = "DiscussionPeriod" -> {"VotingPeriod"}
    [] s = "VotingPeriod"     -> {"Passed", "Rejected", "Failed", "EmergencyPaused"}
    [] s = "Passed"           -> {"Executed", "EmergencyPaused"}
    [] OTHER                  -> {}

(* A proposal goes through its phases in one direction: what was rejected, *)
(* vetoed, executed or paused stays so, its tally stands, and no other     *)
(* proposal takes its number (tally_proposal, emergency_pause_vote,        *)
(* execute_proposal, submit_proposal).                                     *)
DecisionIsFinal ==
  [][\A id \in Id : Exists(id) =>
       LET p == proposals[id]
           q == proposals'[id]
       IN  /\ q # None
           /\ q.status = p.status \/ q.status \in Follows(p.status)
           /\ [q EXCEPT !.status = p.status, !.tally = p.tally,
                        !.signatures = p.signatures, !.pauseVotes = p.pauseVotes] = p
           /\ p.tally # None => q.tally = p.tally]_vars

(* t counts some of the first votes of vs, and they carry the proposal. *)
Carried(t, vs) ==
  /\ t # None
  /\ \E n \in 0 .. Len(vs) :
       LET counted == SubSeq(vs, 1, n)
       IN  /\ t.yes = PowerOf(counted, {"Yes"})
           /\ t.yes + t.no + t.abstain = PowerOf(counted, VoteOption)
           /\ t.yes > t.no
           /\ 2 * t.veto < PowerOf(counted, VoteOption)
  /\ (t.yes + t.no + t.abstain) * 3 >= t.stake /\ t.stake > 0

(* A proposal that took effect was accepted: its tally counts votes that   *)
(* are on record, each once and none left out but those that arrived after *)
(* it; they are a third of the stake, the ayes outweigh the noes, and less *)
(* than half of them are vetoes (tally_proposal).                          *)
EffectNeedsMajority ==
  \A id \in Id :
    HasStatus(id, {"Passed", "Executed"}) \/ changes[id] > 0 \/ id \in activated =>
      Carried(proposals[id].tally, votes[id])

(* Executing changes the staking manager once: two executions at the same  *)
(* time, or one that races a pause, never apply a proposal again, and a    *)
(* paused one has no effect.  A proposal with a bad parameter is excepted: *)
(* it fails halfway and may be tried again.                                *)
AppliedOnce ==
  \A id \in Id : Exists(id) /\ "bad_feature" \notin proposals[id].content.parameters =>
    changes[id] = IF /\ proposals[id].status = "Executed"
                     /\ \/ proposals[id].content.kind = "SlashingProposal"
                        \/ /\ proposals[id].content.kind = "ParameterChange"
                           /\ "inflation_rate" \in proposals[id].content.parameters
                    THEN 1 ELSE 0
=============================================================================
