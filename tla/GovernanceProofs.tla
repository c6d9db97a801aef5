-------------------------- MODULE GovernanceProofs --------------------------
(***************************************************************************)
(* Proofs about Governance for any accounts, contents, snapshots and       *)
(* periods, any number of calls in progress and of proposals.              *)
(***************************************************************************)
EXTENDS Governance, FiniteSums, SequenceTheorems

LEMMA Periods ==
  /\ MaxProposals \in Nat /\ MaxHeight \in Nat /\ MaxCalls \in Nat
  /\ VotingBlocks \in Nat /\ DiscussionBlocks \in Nat
  BY GovernanceConstants DEF GovernanceConstants

LEMMA CallFields ==
  ASSUME NEW c \in Call
  PROVE  /\ c # None
         /\ c.op = "submit" /\ c.at # "numbered" => c \in Asked
         /\ c.op = "submit" /\ c.at = "numbered" => c \in Numbered
         /\ c.op = "vote" => c \in Voting
         /\ c.op = "execute" => c \in Executing
  BY NoneIsNothing DEF Call, Asked, Numbered, Voting, Executing

LEMMA NotNone ==
  /\ \A p \in Proposal : p # None
  /\ \A c \in Call : c # None
  /\ \A t \in TallyResult : t # None
  /\ \A s \in Snapshot : s # None
  /\ \A n \in Nat : n # None
  BY NoneIsNothing

LEMMA MinIsBound ==
  ASSUME NEW m \in Nat, NEW n \in Nat
  PROVE  Min({m, n}) \in Nat /\ Min({m, n}) <= m /\ Min({m, n}) <= n
<1>1. \E x \in {m, n} : \A y \in {m, n} : x <= y
  OBVIOUS
<1>2. Min({m, n}) \in {m, n} /\ \A y \in {m, n} : Min({m, n}) <= y
  BY <1>1 DEF Min
<1> QED BY <1>2

(* The numbers of proposals: from TakeNumber to InsertProposal one call    *)
(* holds the last number, and every proposal has one that was taken.       *)
NumbersTaken ==
  /\ nextId + Cardinality(Submitting) <= MaxProposals + 1
  /\ \A id \in Id : Exists(id) => id < nextId
  /\ \A j \in Job : At(j, "submit", "numbered") =>
       call[j].id < nextId /\ ~Exists(call[j].id)
  /\ \A j, k \in Job :
       At(j, "submit", "numbered") /\ At(k, "submit", "numbered") => j = k

(* Nothing is known of a number before its proposal. *)
NothingBefore ==
  \A id \in Id : ~Exists(id) => changes[id] = 0 /\ id \notin activated

(* Calls in progress are about proposals that are there. *)
CallsAreAbout ==
  \A j \in Job : call[j] # None /\ call[j].op \in {"vote", "execute"} =>
    Exists(call[j].id)

(* Until it is tallied a proposal has no tally. *)
TallyComes ==
  \A id \in Id : HasStatus(id, {"DiscussionPeriod", "VotingPeriod"}) =>
    proposals[id].tally = None

(* The heights of the snapshots lie within one voting period. *)
SnapshotsKept ==
  /\ DOMAIN snapshots \subseteq 0 .. height
  /\ \E b \in 0 .. height : DOMAIN snapshots \subseteq b .. b + VotingBlocks

(* No vote weighs more than its account's stake in the snapshot. *)
Covered(v, id) ==
  proposals[id].snapshot # None => v.power <= proposals[id].snapshot[v.voter]
VotesCovered ==
  /\ \A id \in Id : Exists(id) => \A i \in DOMAIN votes[id] : Covered(votes[id][i], id)
  /\ \A j \in Job : At(j, "vote", "verified") => Covered(call[j].vote, call[j].id)

ExecutingIsCarried ==
  \A j \in Job : At(j, "execute", "executed") =>
    Carried(proposals[call[j].id].tally, votes[call[j].id])

TypeInv == GTypeOK /\ NumbersTaken /\ SnapshotsKept

-----------------------------------------------------------------------------
(* Submitting a proposal. *)

LEMMA SubmittingFinite ==
  IsFiniteSet(Submitting) /\ Cardinality(Submitting) \in Nat
<1>1. Submitting \subseteq Job
  BY DEF Submitting
<1> QED BY <1>1, GovernanceFinite, FS_Subset, FS_CardinalityType DEF GovernanceFinite

(* What a step of a call does to the calls that have no number yet. *)
LEMMA SubmittingStep ==
  ASSUME NEW j \in Job, call \in [Job -> Call \cup {None}],
         call' \in [Job -> Call \cup {None}],
         \A k \in Job \ {j} : call'[k] = call[k]
  PROVE  /\ Cardinality(Submitting)' \in Nat
         /\ j \in Submitting /\ j \notin Submitting' =>
              Cardinality(Submitting)' + 1 = Cardinality(Submitting)
         /\ j \notin Submitting => Cardinality(Submitting)' <= Cardinality(Submitting) + 1
         /\ (j \in Submitting <=> j \in Submitting') =>
              Cardinality(Submitting)' = Cardinality(Submitting)
         /\ j \notin Submitting' => Cardinality(Submitting)' <= Cardinality(Submitting)
<1>1. \A k \in Job \ {j} : k \in Submitting' <=> k \in Submitting
  BY DEF Submitting
<1>2. Submitting \subseteq Job /\ Submitting' \subseteq Job
  BY DEF Submitting
<1>3. IsFiniteSet(Submitting') /\ Cardinality(Submitting') \in Nat
  BY <1>2, GovernanceFinite, FS_Subset, FS_CardinalityType DEF GovernanceFinite
<1>4. CASE j \in Submitting /\ j \notin Submitting'
  <2>1. Submitting' = Submitting \ {j}
    BY <1>1, <1>2, <1>4
  <2> QED BY <1>3, <1>4, <2>1, SubmittingFinite, FS_RemoveElement
<1>5. CASE j \notin Submitting /\ j \in Submitting'
  <2>1. Submitting' = Submitting \cup {j}
    BY <1>1, <1>2, <1>5
  <2> QED BY <1>3, <1>5, <2>1, SubmittingFinite, FS_AddElement
<1>6. CASE j \in Submitting <=> j \in Submitting'
  <2>1. Submitting' = Submitting
    BY <1>1, <1>2, <1>6
  <2> QED BY <1>3, <1>6, <2>1
<1> QED BY <1>3, <1>4, <1>5, <1>6, SubmittingFinite

LEMMA NumbersKept ==
  ASSUME TypeInv, nextId' = nextId,
         \A id \in Id : Exists(id)' => Exists(id),
         \A j \in Job : At(j, "submit", "numbered")' => call'[j] = call[j],
         nextId + Cardinality(Submitting)' <= MaxProposals + 1
  PROVE  NumbersTaken'
<1>1. ASSUME NEW j \in Job, At(j, "submit", "numbered")'
      PROVE  At(j, "submit", "numbered") /\ call[j].id \in Id /\ call'[j].id = call[j].id
  <2>1. At(j, "submit", "numbered")
    BY <1>1 DEF At
  <2>2. call[j] \in Numbered
    BY <2>1, CallFields DEF At, TypeInv, GTypeOK
  <2> QED BY <1>1, <2>1, <2>2 DEF Numbered
<1> QED BY <1>1 DEF TypeInv, NumbersTaken

LEMMA CallsKept ==
  ASSUME call' = call
  PROVE  /\ Cardinality(Submitting)' = Cardinality(Submitting)
         /\ \A j \in Job : At(j, "submit", "numbered")' => call'[j] = call[j]
<1>1. Submitting' = Submitting
  BY DEF Submitting
<1> QED BY <1>1

-----------------------------------------------------------------------------
(* The types of what the handlers build. *)

LEMMA ProposalUpdate ==
  ASSUME NEW p \in Proposal
  PROVE  /\ \A s \in ProposalStatus : [p EXCEPT !.status = s] \in Proposal
         /\ \A s \in ProposalStatus, t \in TallyResult :
              [p EXCEPT !.tally = t, !.status = s] \in Proposal
         /\ \A s \in ProposalStatus, v \in SUBSET Validator :
              /\ [p EXCEPT !.signatures = v, !.status = s] \in Proposal
              /\ [p EXCEPT !.pauseVotes = v, !.status = s] \in Proposal
  BY DEF Proposal

LEMMA OptionPower ==
  ASSUME NEW vs \in Seq(Vote), NEW options
  PROVE  PowerOf(vs, options) \in Nat
<1> DEFINE D == {i \in DOMAIN vs : vs[i].option \in options}
           f == [i \in DOMAIN vs |-> vs[i].power]
<1>1. DOMAIN vs = 1 .. Len(vs) /\ Len(vs) \in Nat /\ \A i \in DOMAIN vs : vs[i] \in Vote
  BY LenProperties, ElementOfSeq
<1>2. IsFiniteSet(D)
  <2>1. IsFiniteSet(DOMAIN vs)
    BY <1>1, FS_Interval
  <2>2. D \subseteq DOMAIN vs
    OBVIOUS
  <2> QED BY <2>1, <2>2, FS_Subset
<1>3. \A i \in D : f[i] \in Nat
  BY <1>1 DEF Vote
<1>4. SumFunctionOnSet(f, D) \in Nat
  <2> HIDE DEF D, f
  <2> QED BY <1>2, <1>3, SumNat
<1> QED BY <1>4 DEF PowerOf

LEMMA CountType ==
  ASSUME NEW vs \in Seq(Vote), NEW s \in Nat
  PROVE  Count(vs, s) \in TallyResult
BY OptionPower DEF Count, TallyResult

LEMMA OutcomeType == \A t : Outcome(t) \in ProposalStatus
BY DEF Outcome, ProposalStatus

(* At most one voting period of snapshots is kept. *)
LEMMA FewSnapshots ==
  ASSUME NEW D, NEW b \in Nat, D \subseteq b .. b + VotingBlocks
  PROVE  Cardinality(D) <= VotingBlocks + 1
<1>1. /\ IsFiniteSet(b .. b + VotingBlocks)
      /\ Cardinality(b .. b + VotingBlocks) = VotingBlocks + 1
  BY Periods, FS_Interval
<1>2. Cardinality(D) <= Cardinality(b .. b + VotingBlocks)
  BY <1>1, FS_Subset
<1> QED BY <1>1, <1>2

-----------------------------------------------------------------------------
(* The types and the numbers of proposals are kept. *)

LEMMA InitTypeInv == Init => TypeInv
<1> SUFFICES ASSUME Init PROVE TypeInv
  OBVIOUS
<1>1. Submitting = {}
  BY DEF Init, Submitting
<1>2. Cardinality(Submitting) = 0
  BY <1>1, FS_EmptySet
<1>3. DOMAIN snapshots = {} /\ Range(snapshots) = {}
  BY DEF Init, Range
<1>4. NumbersTaken
  BY <1>2, Periods DEF Init, NumbersTaken, Exists, At
<1>5. SnapshotsKept
  BY <1>3, Periods DEF Init, SnapshotsKept
<1>6. Cardinality(DOMAIN snapshots) <= VotingBlocks + 1
  BY <1>3, FewSnapshots
<1>7. GTypeOK
  BY <1>3, <1>6, Periods DEF Init, GTypeOK
<1> QED BY <1>4, <1>5, <1>7 DEF TypeInv

(* The steps that leave the calls alone. *)
LEMMA QuietStepType ==
  ASSUME TypeInv, call' = call, nextId' = nextId,
         proposals' \in [Id -> Proposal \cup {None}],
         \A id \in Id : Exists(id)' <=> Exists(id),
         UNCHANGED <<votes, lastProposal, effectVars>>,
         calls' \in 0 .. MaxCalls, height' = height, bonded' \in Nat,
         UNCHANGED snapshots
  PROVE  TypeInv'
<1>1. NumbersTaken'
  BY CallsKept, NumbersKept DEF TypeInv, NumbersTaken
<1>2. GTypeOK'
  BY DEF TypeInv, GTypeOK, effectVars
<1>3. SnapshotsKept'
  BY DEF TypeInv, SnapshotsKept
<1> QED BY <1>1, <1>2, <1>3 DEF TypeInv

LEMMA HeightType == ASSUME TypeInv, UpdateHeight PROVE TypeInv'
<1> USE DEF UpdateHeight, ledgerVars, effectVars
<1>0. call' = call /\ nextId' = nextId /\ proposals' = proposals
  OBVIOUS
<1>1. NumbersTaken'
  <2>1. \A id \in Id : Exists(id)' => Exists(id)
    BY <1>0 DEF Exists
  <2> QED BY <1>0, <2>1, CallsKept, NumbersKept DEF TypeInv, NumbersTaken
<1>2. SnapshotsKept'
  BY Periods DEF TypeInv, SnapshotsKept, GTypeOK
<1>3. GTypeOK'
  BY Periods DEF TypeInv, GTypeOK
<1> QED BY <1>1, <1>2, <1>3 DEF TypeInv

LEMMA SnapshotType ==
  ASSUME TypeInv, NEW s \in Snapshot, UpdateStakingSnapshot(s)
  PROVE  TypeInv'
<1> USE DEF UpdateStakingSnapshot, CountCall, chainVars, effectVars
<1>0. call' = call /\ nextId' = nextId /\ proposals' = proposals
  OBVIOUS
<1>1. NumbersTaken'
  <2>1. \A id \in Id : Exists(id)' => Exists(id)
    BY <1>0 DEF Exists
  <2> QED BY <1>0, <2>1, CallsKept, NumbersKept DEF TypeInv, NumbersTaken
<1>2. DOMAIN snapshots' = KeptHeights
  OBVIOUS
<1>3. SnapshotsKept'
  <2>1. height \in Nat /\ height' = height /\ KeptHeights \subseteq 0 .. height
    BY DEF KeptHeights, TypeInv, SnapshotsKept, GTypeOK
  <2>2. \A h \in KeptHeights : h + VotingBlocks >= height
    BY DEF KeptHeights
  <2>3. CASE height <= VotingBlocks
    BY <1>2, <2>1, <2>3, Periods DEF SnapshotsKept
  <2>4. CASE height > VotingBlocks
    <3>1. height - VotingBlocks \in 0 .. height
      BY <2>1, <2>4, Periods
    <3>2. KeptHeights \subseteq (height - VotingBlocks) .. ((height - VotingBlocks) + VotingBlocks)
      BY <2>1, <2>2, Periods
    <3> QED BY <1>2, <2>1, <3>1, <3>2 DEF SnapshotsKept
  <2> QED BY <2>1, <2>3, <2>4, Periods
<1>4. Range(snapshots') \subseteq Snapshot
  <2>1. \A h \in KeptHeights : h # height => h \in DOMAIN snapshots
    BY DEF KeptHeights
  <2>2. \A h \in KeptHeights : snapshots'[h] \in Snapshot
    BY <2>1 DEF TypeInv, GTypeOK, Range
  <2> QED BY <1>2, <2>2 DEF Range
<1>5. GTypeOK'
  <2>1. (Cardinality(DOMAIN snapshots) <= VotingBlocks + 1)'
    <3>1. PICK b \in 0 .. height' : DOMAIN snapshots' \subseteq b .. b + VotingBlocks
      BY <1>3 DEF SnapshotsKept
    <3>2. b \in Nat
      BY <3>1 DEF TypeInv, GTypeOK, UpdateStakingSnapshot
    <3>3. KeptHeights \subseteq b .. b + VotingBlocks
      BY <1>2, <3>1
    <3>4. Cardinality(KeptHeights) <= VotingBlocks + 1
      BY <3>2, <3>3, FewSnapshots
    <3> QED BY <1>2, <3>4
  <2>2. (DOMAIN snapshots \subseteq 0 .. MaxHeight)'
    <3>1. height \in 0 .. MaxHeight /\ DOMAIN snapshots \subseteq 0 .. height
      BY DEF TypeInv, GTypeOK, SnapshotsKept
    <3>2. KeptHeights \subseteq 0 .. MaxHeight
      BY <3>1, Periods DEF KeptHeights
    <3> QED BY <1>2, <3>2
  <2> QED BY <1>4, <2>1, <2>2, Periods DEF TypeInv, GTypeOK
<1> QED BY <1>1, <1>3, <1>5 DEF TypeInv

(* The steps of a call that leave the number of the next proposal alone    *)
(* and make no new proposal. *)
LEMMA CallStepType ==
  ASSUME TypeInv, NEW j \in Job, NEW c \in Call \cup {None},
         call' = [call EXCEPT ![j] = c],
         ~(c # None /\ c.op = "submit"),
         proposals' \in [Id -> Proposal \cup {None}],
         \A id \in Id : Exists(id)' <=> Exists(id),
         votes' \in [Id -> Seq(Vote)],
         calls' \in 0 .. MaxCalls, changes' \in [Id -> Nat], activated' \subseteq Id,
         UNCHANGED <<nextId, lastProposal, snapshots, chainVars>>
  PROVE  TypeInv'
<1>1. call' \in [Job -> Call \cup {None}] /\ \A k \in Job \ {j} : call'[k] = call[k]
  BY DEF TypeInv, GTypeOK
<1>2. call'[j] = c
  BY DEF TypeInv, GTypeOK
<1>3. NumbersTaken'
  <2>1. j \notin Submitting'
    BY <1>2 DEF Submitting
  <2>2. /\ Cardinality(Submitting)' \in Nat
        /\ Cardinality(Submitting)' <= Cardinality(Submitting)
    BY <1>1, <2>1, SubmittingStep DEF TypeInv, GTypeOK
  <2>3. \A k \in Job : At(k, "submit", "numbered")' => call'[k] = call[k]
    BY <1>1, <1>2 DEF At
  <2>4. nextId + Cardinality(Submitting)' <= MaxProposals + 1
    <3>1. nextId \in Nat /\ nextId + Cardinality(Submitting) <= MaxProposals + 1
      BY DEF TypeInv, GTypeOK, NumbersTaken
    <3> QED BY <2>2, <3>1, SubmittingFinite, Periods
  <2> QED BY <2>3, <2>4, NumbersKept
<1>4. GTypeOK'
  BY <1>1 DEF TypeInv, GTypeOK, chainVars
<1>5. SnapshotsKept'
  BY DEF TypeInv, SnapshotsKept, chainVars
<1> QED BY <1>3, <1>4, <1>5 DEF TypeInv

LEMMA SubmitType ==
  ASSUME TypeInv, NEW j \in Job, NEW a \in Proposer, NEW c \in Content,
         SubmitProposal(j, a, c)
  PROVE  TypeInv'
<1> USE DEF SubmitProposal, Start, CountCall, ledgerVars, chainVars, effectVars
<1> DEFINE d == [op |-> "submit", at |-> "checked", proposer |-> a, content |-> c,
                 height |-> height]
<1>1. d \in Call /\ d # None
  <2>1. d \in Asked
    BY DEF Asked, TypeInv, GTypeOK
  <2> QED BY <2>1, NotNone DEF Call
<1>2. call' = [call EXCEPT ![j] = d] /\ call[j] = None /\ d.at = "checked" /\ d.op = "submit"
  OBVIOUS
<1> HIDE DEF d
<1>3. /\ call' \in [Job -> Call \cup {None}] /\ call'[j] = d
      /\ \A k \in Job \ {j} : call'[k] = call[k]
  BY <1>1, <1>2 DEF TypeInv, GTypeOK
<1>4. NumbersTaken'
  <2>1. j \notin Submitting
    BY <1>2 DEF Submitting
  <2>2. /\ Cardinality(Submitting)' \in Nat
        /\ Cardinality(Submitting)' <= Cardinality(Submitting) + 1
    BY <1>3, <2>1, SubmittingStep DEF TypeInv, GTypeOK
  <2>3. \A k \in Job : At(k, "submit", "numbered")' => call'[k] = call[k]
    BY <1>2, <1>3 DEF At
  <2>4. nextId + Cardinality(Submitting)' <= MaxProposals + 1
    <3>1. nextId \in Nat /\ nextId + Cardinality(Submitting) <= MaxProposals
      BY DEF TypeInv, GTypeOK
    <3> QED BY <2>2, <3>1, SubmittingFinite, Periods
  <2>5. nextId' = nextId /\ \A id \in Id : Exists(id)' => Exists(id)
    BY DEF Exists
  <2> QED BY <2>3, <2>4, <2>5, NumbersKept
<1>5. GTypeOK'
  BY <1>3, Periods DEF TypeInv, GTypeOK
<1>6. SnapshotsKept'
  BY DEF TypeInv, SnapshotsKept
<1> QED BY <1>4, <1>5, <1>6 DEF TypeInv

LEMMA ActiveType == ASSUME TypeInv, NEW j \in Job, CheckActive(j) PROVE TypeInv'
<1> USE DEF CheckActive, ledgerVars, chainVars, effectVars
<1>1. call[j] \in Asked
  BY CallFields DEF TypeInv, GTypeOK, At
<1>2. CASE call' = [call EXCEPT ![j] = None]
  <2>1. \A id \in Id : Exists(id)' <=> Exists(id)
    BY DEF Exists
  <2>2. UNCHANGED <<nextId, lastProposal, snapshots, chainVars>>
    OBVIOUS
  <2>3. /\ proposals' \in [Id -> Proposal \cup {None}] /\ votes' \in [Id -> Seq(Vote)]
        /\ calls' \in 0 .. MaxCalls /\ changes' \in [Id -> Nat] /\ activated' \subseteq Id
    BY DEF TypeInv, GTypeOK
  <2> HIDE DEF CheckActive, ledgerVars, chainVars, effectVars
  <2> QED BY <1>2, <2>1, <2>2, <2>3, CallStepType
<1>3. CASE call' = [call EXCEPT ![j].at = "allowed"]
  <2> DEFINE d == [call[j] EXCEPT !.at = "allowed"]
  <2>1. d \in Asked /\ d.op = "submit" /\ d.at = "allowed"
    BY <1>1 DEF Asked
  <2>2. d \in Call /\ d # None
    BY <2>1, NotNone DEF Call
  <2>3. call' = [call EXCEPT ![j] = d]
    BY <1>3 DEF TypeInv, GTypeOK
  <2> HIDE DEF d
  <2>4. /\ call' \in [Job -> Call \cup {None}] /\ call'[j] = d
        /\ \A k \in Job \ {j} : call'[k] = call[k]
    BY <2>2, <2>3 DEF TypeInv, GTypeOK
  <2>5. NumbersTaken'
    <3>1. j \in Submitting /\ j \in Submitting'
      BY <2>1, <2>2, <2>4 DEF Submitting, At
    <3>2. Cardinality(Submitting)' = Cardinality(Submitting)
      BY <2>4, <3>1, SubmittingStep DEF TypeInv, GTypeOK
    <3>3. \A k \in Job : At(k, "submit", "numbered")' => call'[k] = call[k]
      BY <2>1, <2>4 DEF At
    <3>4. nextId + Cardinality(Submitting)' <= MaxProposals + 1
      BY <3>2 DEF TypeInv, NumbersTaken
    <3>5. nextId' = nextId /\ \A id \in Id : Exists(id)' => Exists(id)
      BY DEF Exists
    <3> QED BY <3>3, <3>4, <3>5, NumbersKept
  <2>6. GTypeOK'
    BY <2>4 DEF TypeInv, GTypeOK
  <2>7. SnapshotsKept'
    BY DEF TypeInv, SnapshotsKept
  <2> QED BY <2>5, <2>6, <2>7 DEF TypeInv
<1> QED BY <1>2, <1>3 DEF Return

LEMMA NumberType == ASSUME TypeInv, NEW j \in Job, TakeNumber(j) PROVE TypeInv'
<1> USE DEF TakeNumber, NextNumber, chainVars, effectVars
<1> DEFINE d == [op |-> "submit", at |-> "numbered", proposer |-> call[j].proposer,
                 content |-> call[j].content, height |-> call[j].height, id |-> nextId,
                 snapshot |-> IF call[j].height \in DOMAIN snapshots
                                THEN snapshots[call[j].height] ELSE None]
<1>1. call[j] \in Asked /\ j \in Submitting
  BY CallFields DEF TypeInv, GTypeOK, At, Submitting
<1>2. nextId \in Id /\ nextId + Cardinality(Submitting) <= MaxProposals + 1
      /\ Cardinality(Submitting) >= 1
  <2>1. Cardinality(Submitting) # 0
    BY <1>1, SubmittingFinite, FS_EmptySet
  <2> QED BY <2>1, SubmittingFinite, Periods DEF TypeInv, GTypeOK, NumbersTaken, Id
<1>3. d \in Call /\ d # None
  <2>1. d \in Numbered
    BY <1>1, <1>2 DEF Asked, Numbered, TypeInv, GTypeOK, Range
  <2> QED BY <2>1, NotNone DEF Call
<1>4. call' = [call EXCEPT ![j] = d] /\ d.id = nextId /\ d.at = "numbered"
  OBVIOUS
<1> HIDE DEF d
<1>5. /\ call' \in [Job -> Call \cup {None}] /\ call'[j] = d
      /\ \A k \in Job \ {j} : call'[k] = call[k]
  BY <1>3, <1>4 DEF TypeInv, GTypeOK
<1>6. NumbersTaken'
  <2>1. j \notin Submitting'
    BY <1>4, <1>5 DEF Submitting
  <2>2. Cardinality(Submitting)' \in Nat /\ Cardinality(Submitting)' + 1 = Cardinality(Submitting)
    BY <1>1, <1>5, <2>1, SubmittingStep DEF TypeInv, GTypeOK
  <2>3. nextId' + Cardinality(Submitting)' <= MaxProposals + 1
    BY <1>2, <2>2, SubmittingFinite, Periods DEF Id
  <2>4. \A id \in Id : Exists(id)' <=> Exists(id)
    BY DEF Exists
  <2>5. \A id \in Id : Exists(id)' => id < nextId'
    BY <1>2, <2>4, Periods DEF TypeInv, NumbersTaken, Id
  <2>6. \A k \in Job : At(k, "submit", "numbered")' => k = j
    BY <1>5 DEF NumberLocked, At
  <2>7. (call[j].id < nextId /\ ~Exists(call[j].id))'
    <3>1. ~Exists(nextId) /\ nextId < nextId + 1
      BY <1>2 DEF TypeInv, NumbersTaken, GTypeOK
    <3>2. call'[j].id = nextId
      BY <1>4, <1>5
    <3> QED BY <3>1, <3>2 DEF Exists
  <2> QED BY <2>3, <2>5, <2>6, <2>7 DEF NumbersTaken
<1>7. GTypeOK'
  <2>1. nextId' \in 1 .. MaxProposals + 1
    BY <1>2, Periods DEF Id
  <2>2. lastProposal' \in [Proposer -> Nat \cup {None}]
    BY <1>1 DEF TypeInv, GTypeOK, Asked
  <2> QED BY <1>5, <2>1, <2>2 DEF TypeInv, GTypeOK
<1>8. SnapshotsKept'
  BY DEF TypeInv, SnapshotsKept
<1> QED BY <1>6, <1>7, <1>8 DEF TypeInv

LEMMA InsertType == ASSUME TypeInv, NEW j \in Job, InsertProposal(j) PROVE TypeInv'
<1> USE DEF InsertProposal, Return, chainVars, effectVars
<1> DEFINE c == call[j]
           p == [proposer |-> c.proposer, content |-> c.content,
                 status |-> "DiscussionPeriod", submitted |-> c.height,
                 snapshot |-> c.snapshot, tally |-> None, signatures |-> {},
                 pauseVotes |-> {}]
<1>1. c \in Numbered
  BY CallFields DEF TypeInv, GTypeOK, At
<1>2. c.id \in Id /\ c.id < nextId /\ p \in Proposal
  BY <1>1 DEF Numbered, Proposal, ProposalStatus, TypeInv, NumbersTaken
<1>3. proposals' = [proposals EXCEPT ![c.id] = p]
  OBVIOUS
<1> HIDE DEF p
<1>4. /\ call' \in [Job -> Call \cup {None}] /\ call'[j] = None
      /\ \A k \in Job \ {j} : call'[k] = call[k]
  BY DEF TypeInv, GTypeOK
<1>5. NumbersTaken'
  <2>1. j \notin Submitting /\ j \notin Submitting'
    BY <1>4 DEF Submitting, At
  <2>2. Cardinality(Submitting)' = Cardinality(Submitting)
    BY <1>4, <2>1, SubmittingStep DEF TypeInv, GTypeOK
  <2>3. \A k \in Job : ~At(k, "submit", "numbered")'
    <3>1. ASSUME NEW k \in Job, At(k, "submit", "numbered")' PROVE FALSE
      <4>1. k # j
        BY <1>4, <3>1 DEF At
      <4>2. At(k, "submit", "numbered")
        BY <1>4, <3>1, <4>1 DEF At
      <4> QED BY <4>1, <4>2 DEF TypeInv, NumbersTaken
    <3> QED BY <3>1
  <2>4. \A id \in Id : Exists(id)' => id < nextId'
    <3>1. \A id \in Id : id # c.id => proposals'[id] = proposals[id]
      BY <1>3 DEF TypeInv, GTypeOK
    <3> QED BY <1>2, <3>1 DEF TypeInv, NumbersTaken, Exists
  <2> QED BY <2>2, <2>3, <2>4 DEF NumbersTaken, TypeInv
<1>6. GTypeOK'
  <2>1. proposals' \in [Id -> Proposal \cup {None}]
    BY <1>2, <1>3 DEF TypeInv, GTypeOK
  <2>2. votes' \in [Id -> Seq(Vote)]
    <3>1. << >> \in Seq(Vote)
      BY EmptySeq
    <3> QED BY <3>1 DEF TypeInv, GTypeOK
  <2> QED BY <1>4, <2>1, <2>2 DEF TypeInv, GTypeOK
<1>7. SnapshotsKept'
  BY DEF TypeInv, SnapshotsKept
<1> QED BY <1>5, <1>6, <1>7 DEF TypeInv

LEMMA CastType ==
  ASSUME TypeInv, NEW j \in Job, NEW id \in Id, NEW a \in Account, NEW o \in Option,
         NEW n \in Power, CastVote(j, id, a, o, n)
  PROVE  /\ VerifiedPower(proposals[id], a, n) \in Nat
         /\ proposals[id].snapshot # None =>
              VerifiedPower(proposals[id], a, n) <= proposals[id].snapshot[a]
         /\ TypeInv'
<1> DEFINE w == VerifiedPower(proposals[id], a, n)
           d == [op |-> "vote", at |-> "verified", id |-> id,
                 vote |-> [voter |-> a, option |-> o, power |-> w]]
<1>1. n \in Nat /\ proposals[id] \in Proposal
  BY GovernanceConstants DEF GovernanceConstants, CastVote, HasStatus, Exists, TypeInv, GTypeOK
<1>2. w \in Nat /\ (proposals[id].snapshot # None => w <= proposals[id].snapshot[a])
  <2>1. CASE proposals[id].snapshot = None
    BY <1>1, <2>1 DEF VerifiedPower
  <2>2. CASE proposals[id].snapshot # None
    <3>1. proposals[id].snapshot \in Snapshot
      BY <1>1, <2>2 DEF Proposal
    <3>2. proposals[id].snapshot[a] \in Nat
      BY <3>1, GovernanceConstants DEF GovernanceConstants
    <3> QED BY <1>1, <2>2, <3>2, MinIsBound DEF VerifiedPower
  <2> QED BY <2>1, <2>2
<1>3. d \in Call /\ d.op = "vote"
  BY <1>2 DEF Call, Voting, Vote
<1>4. call' = [call EXCEPT ![j] = d]
  BY DEF CastVote, Start
<1>5. TypeInv'
  <2> HIDE DEF d
  <2>1. UNCHANGED <<ledgerVars, chainVars, effectVars>>
    BY DEF CastVote
  <2>2. calls' \in 0 .. MaxCalls
    BY Periods DEF CastVote, Start, CountCall, TypeInv, GTypeOK
  <2>3. \A i \in Id : Exists(i)' <=> Exists(i)
    BY <2>1 DEF Exists, ledgerVars
  <2>4. /\ proposals' \in [Id -> Proposal \cup {None}] /\ votes' \in [Id -> Seq(Vote)]
        /\ changes' \in [Id -> Nat] /\ activated' \subseteq Id
        /\ UNCHANGED <<nextId, lastProposal, snapshots, chainVars>>
    BY <2>1 DEF TypeInv, GTypeOK, ledgerVars, effectVars
  <2> QED BY <1>3, <1>4, <2>2, <2>3, <2>4, CallStepType
<1> QED BY <1>2, <1>5

LEMMA AppendType == ASSUME TypeInv, NEW j \in Job, AppendVote(j) PROVE TypeInv'
<1>1. call[j] \in Voting
  BY CallFields DEF TypeInv, GTypeOK, At, AppendVote
<1>2. votes' \in [Id -> Seq(Vote)]
  <2>1. call[j].id \in Id /\ votes[call[j].id] \in Seq(Vote) /\ call[j].vote \in Vote
    BY <1>1 DEF Voting, TypeInv, GTypeOK
  <2>2. Append(votes[call[j].id], call[j].vote) \in Seq(Vote)
    BY <2>1, AppendProperties
  <2>3. votes' = votes \/ votes' = [votes EXCEPT ![call[j].id] = Append(@, call[j].vote)]
    BY DEF AppendVote
  <2> QED BY <2>1, <2>2, <2>3 DEF TypeInv, GTypeOK
<1>3. UNCHANGED <<proposals, nextId, lastProposal, snapshots, chainVars, calls, effectVars>>
  BY DEF AppendVote
<1>4. call' = [call EXCEPT ![j] = None]
  BY DEF AppendVote, Return
<1>5. /\ proposals' \in [Id -> Proposal \cup {None}]
      /\ \A id \in Id : Exists(id)' <=> Exists(id)
      /\ calls' \in 0 .. MaxCalls /\ changes' \in [Id -> Nat] /\ activated' \subseteq Id
  BY <1>3 DEF TypeInv, GTypeOK, effectVars, Exists
<1> QED BY <1>2, <1>3, <1>4, <1>5, CallStepType

LEMMA BeginExecuteType ==
  ASSUME TypeInv, NEW j \in Job, NEW id \in Id, BeginExecute(j, id)
  PROVE  TypeInv'
<1> DEFINE d == [op |-> "execute", at |-> "passed", id |-> id]
<1>1. d \in Call /\ d.op = "execute" /\ call' = [call EXCEPT ![j] = d]
  BY DEF BeginExecute, Start, Call, Executing
<1>2. UNCHANGED <<ledgerVars, chainVars, effectVars>> /\ calls' \in 0 .. MaxCalls
  BY Periods DEF BeginExecute, Start, CountCall, TypeInv, GTypeOK
<1> HIDE DEF d
<1>3. /\ proposals' \in [Id -> Proposal \cup {None}] /\ votes' \in [Id -> Seq(Vote)]
      /\ \A i \in Id : Exists(i)' <=> Exists(i)
      /\ changes' \in [Id -> Nat] /\ activated' \subseteq Id
      /\ UNCHANGED <<nextId, lastProposal, snapshots, chainVars>>
  BY <1>2 DEF TypeInv, GTypeOK, effectVars, ledgerVars, Exists
<1> QED BY <1>1, <1>2, <1>3, CallStepType

(* What executing a proposal may do to the staking manager. *)
LEMMA ExecutionType ==
  ASSUME NEW c \in Content, NEW r \in Execution(c)
  PROVE  r[1] \in {0, 1} /\ r[2] \in BOOLEAN
<1> DEFINE rate == IF "inflation_rate" \in c.parameters THEN 1 ELSE 0
<1>1. CASE c.kind = "ParameterChange" /\ "bad_feature" \in c.parameters
  <2>1. Execution(c) = {<<n, FALSE>> : n \in 0 .. rate}
    BY <1>1 DEF Execution
  <2>2. PICK n \in 0 .. rate : r = <<n, FALSE>>
    BY <2>1
  <2> QED BY <2>2
<1>2. CASE c.kind = "ParameterChange" /\ "bad_feature" \notin c.parameters
  <2>1. r = <<rate, TRUE>>
    BY <1>2 DEF Execution
  <2> QED BY <2>1
<1>3. CASE c.kind = "SlashingProposal"
  <2>1. r \in {<<1, TRUE>>, <<0, FALSE>>}
    <3>1. c.kind # "ParameterChange"
      BY <1>3
    <3> QED BY <1>3, <3>1, Zenon DEF Execution
  <2>2. CASE r = <<1, TRUE>>
    BY <2>2
  <2>3. CASE r = <<0, FALSE>>
    BY <2>3
  <2> QED BY <2>1, <2>2, <2>3, Zenon
<1>4. CASE c.kind \notin {"ParameterChange", "SlashingProposal"}
  <2>1. r = <<0, TRUE>>
    BY <1>4 DEF Execution
  <2> QED BY <2>1
<1> QED BY <1>1, <1>2, <1>3, <1>4

LEMMA ExecuteType == ASSUME TypeInv, NEW j \in Job, Execute(j) PROVE TypeInv'
<1> DEFINE id == call[j].id
<1>1. call[j] \in Executing /\ id \in Id
  BY CallFields DEF TypeInv, GTypeOK, At, Execute, Executing
<1>2. UNCHANGED <<votes, nextId, lastProposal, snapshots, chainVars, calls, activated>>
  BY DEF Execute
<1>3. CASE ~Executable(id)
  <2>1. UNCHANGED <<proposals, changes>> /\ call' = [call EXCEPT ![j] = None]
    BY <1>3 DEF Execute, Return
  <2>2. /\ proposals' \in [Id -> Proposal \cup {None}] /\ votes' \in [Id -> Seq(Vote)]
        /\ \A i \in Id : Exists(i)' <=> Exists(i)
        /\ changes' \in [Id -> Nat] /\ activated' \subseteq Id /\ calls' \in 0 .. MaxCalls
        /\ UNCHANGED <<nextId, lastProposal, snapshots, chainVars>>
    BY <1>2, <2>1 DEF TypeInv, GTypeOK, Exists
  <2> QED BY <2>1, <2>2, CallStepType
<1>4. CASE Executable(id)
  <2>1. proposals[id] \in Proposal
    BY <1>1, <1>4 DEF Executable, HasStatus, Exists, TypeInv, GTypeOK
  <2>2. proposals[id].content \in Content
    BY <2>1 DEF Proposal
  <2>3. PICK result \in Execution(proposals[id].content) :
          /\ changes' = [changes EXCEPT ![id] = @ + result[1]]
          /\ IF result[2]
               THEN /\ proposals' = [proposals EXCEPT ![id].status = "Executed"]
                    /\ call' = [call EXCEPT ![j].at = "executed"]
               ELSE Return(j) /\ UNCHANGED proposals
    BY <1>4 DEF Execute
  <2>4. result[1] \in Nat /\ result[2] \in BOOLEAN
    BY <2>2, ExecutionType
  <2>5. changes' \in [Id -> Nat]
    BY <1>1, <2>3, <2>4 DEF TypeInv, GTypeOK
  <2>6. \E c \in Call \cup {None} :
          call' = [call EXCEPT ![j] = c] /\ ~(c # None /\ c.op = "submit")
    <3>1. CASE result[2]
      <4> DEFINE c == [call[j] EXCEPT !.at = "executed"]
      <4>1. c \in Executing /\ c.op = "execute"
        BY <1>1 DEF Executing
      <4>2. c \in Call \cup {None}
        BY <4>1 DEF Call
      <4>3. call' = [call EXCEPT ![j] = c]
        BY <2>3, <3>1 DEF TypeInv, GTypeOK
      <4> QED BY <4>1, <4>2, <4>3
    <3>2. CASE ~result[2]
      BY <2>3, <3>2 DEF Return
    <3> QED BY <3>1, <3>2
  <2>7. proposals' \in [Id -> Proposal \cup {None}] /\ \A i \in Id : Exists(i)' <=> Exists(i)
    <3>1. CASE result[2]
      <4> DEFINE q == [proposals[id] EXCEPT !.status = "Executed"]
      <4>1. q \in Proposal /\ q # None
        BY <2>1, ProposalUpdate, NotNone DEF ProposalStatus
      <4>2. proposals' = [proposals EXCEPT ![id] = q]
        BY <2>3, <3>1 DEF TypeInv, GTypeOK
      <4> HIDE DEF q
      <4> QED BY <1>1, <2>1, <4>1, <4>2, NotNone DEF TypeInv, GTypeOK, Exists
    <3>2. CASE ~result[2]
      BY <2>3, <3>2 DEF TypeInv, GTypeOK, Exists
    <3> QED BY <3>1, <3>2
  <2>8. votes' \in [Id -> Seq(Vote)] /\ activated' \subseteq Id /\ calls' \in 0 .. MaxCalls
        /\ UNCHANGED <<nextId, lastProposal, snapshots, chainVars>>
    BY <1>2 DEF TypeInv, GTypeOK
  <2> QED BY <2>5, <2>6, <2>7, <2>8, CallStepType
<1> QED BY <1>3, <1>4

LEMMA ActivateType == ASSUME TypeInv, NEW j \in Job, ActivateFeatures(j) PROVE TypeInv'
<1>1. call[j] \in Executing /\ call[j].id \in Id
  BY CallFields DEF TypeInv, GTypeOK, At, ActivateFeatures, Executing
<1>2. UNCHANGED <<ledgerVars, chainVars, calls, changes>> /\ call' = [call EXCEPT ![j] = None]
  BY DEF ActivateFeatures, Return
<1>3. activated' \subseteq Id
  BY <1>1 DEF ActivateFeatures, TypeInv, GTypeOK
<1>4. /\ proposals' \in [Id -> Proposal \cup {None}] /\ votes' \in [Id -> Seq(Vote)]
      /\ \A i \in Id : Exists(i)' <=> Exists(i)
      /\ changes' \in [Id -> Nat] /\ calls' \in 0 .. MaxCalls
      /\ UNCHANGED <<nextId, lastProposal, snapshots, chainVars>>
  BY <1>2 DEF TypeInv, GTypeOK, ledgerVars, Exists
<1> QED BY <1>2, <1>3, <1>4, CallStepType

(* One proposal gets a new status, a tally or a signature. *)
LEMMA UpdateOneType ==
  ASSUME TypeInv, NEW id \in Id, Exists(id), NEW q \in Proposal,
         proposals' = [proposals EXCEPT ![id] = q], CountCall,
         UNCHANGED <<votes, nextId, lastProposal, snapshots, chainVars, call, effectVars>>
  PROVE  TypeInv'
<1>1. proposals' \in [Id -> Proposal \cup {None}]
  BY DEF TypeInv, GTypeOK
<1>2. \A i \in Id : Exists(i)' <=> Exists(i)
  BY NotNone DEF TypeInv, GTypeOK, Exists
<1>3. calls' \in 0 .. MaxCalls
  BY Periods DEF CountCall, TypeInv, GTypeOK
<1>4. height' = height /\ bonded' \in Nat
  BY DEF chainVars, TypeInv, GTypeOK
<1>5. /\ call' = call /\ nextId' = nextId /\ UNCHANGED snapshots
      /\ UNCHANGED <<votes, lastProposal, effectVars>>
  OBVIOUS
<1> QED BY <1>1, <1>2, <1>3, <1>4, <1>5, QuietStepType

LEMMA TallyType ==
  ASSUME TypeInv, NEW id \in Id, TallyProposal(id)
  PROVE  TypeInv'
<1> DEFINE t == Count(votes[id], bonded)
           q == [proposals[id] EXCEPT !.tally = t, !.status = Outcome(t)]
<1>1. Exists(id) /\ proposals[id] \in Proposal
  BY DEF TallyProposal, HasStatus, Exists, TypeInv, GTypeOK
<1>2. t \in TallyResult /\ Outcome(t) \in ProposalStatus
  BY CountType, OutcomeType DEF TypeInv, GTypeOK
<1>3. q \in Proposal
  <2> HIDE DEF t
  <2> QED BY <1>1, <1>2, ProposalUpdate
<1>4. proposals' = [proposals EXCEPT ![id] = q]
  BY DEF TallyProposal, TypeInv, GTypeOK
<1>5. CountCall /\ UNCHANGED <<votes, nextId, lastProposal, snapshots, chainVars, call, effectVars>>
  BY DEF TallyProposal
<1> HIDE DEF q
<1> QED BY <1>1, <1>3, <1>4, <1>5, UpdateOneType

LEMMA SignType ==
  ASSUME TypeInv, NEW id \in Id, NEW v \in Validator, SignUpgradeProposal(id, v)
  PROVE  TypeInv'
<1> DEFINE signed == proposals[id].signatures \cup {v}
           s == IF Cardinality(signed) >= UpgradeThreshold THEN "Executed"
                                                           ELSE proposals[id].status
           q == [proposals[id] EXCEPT !.signatures = signed, !.status = s]
<1>1. Exists(id) /\ proposals[id] \in Proposal
  BY DEF SignUpgradeProposal, HasStatus, Exists, TypeInv, GTypeOK
<1>2. signed \in SUBSET Validator /\ s \in ProposalStatus
  BY <1>1 DEF Proposal, ProposalStatus
<1>3. q \in Proposal
  <2> HIDE DEF signed, s
  <2> QED BY <1>1, <1>2, ProposalUpdate
<1>4. proposals' = [proposals EXCEPT ![id] = q]
  BY <1>1 DEF SignUpgradeProposal, TypeInv, GTypeOK, Proposal
<1>5. CountCall /\ UNCHANGED <<votes, nextId, lastProposal, snapshots, chainVars, call, effectVars>>
  BY DEF SignUpgradeProposal
<1> HIDE DEF q
<1> QED BY <1>1, <1>3, <1>4, <1>5, UpdateOneType

LEMMA PauseType ==
  ASSUME TypeInv, NEW id \in Id, NEW v \in Validator, EmergencyPauseVote(id, v)
  PROVE  TypeInv'
<1> DEFINE pausing == proposals[id].pauseVotes \cup {v}
           s == IF Cardinality(pausing) >= PauseThreshold THEN "EmergencyPaused"
                                                          ELSE proposals[id].status
           q == [proposals[id] EXCEPT !.pauseVotes = pausing, !.status = s]
<1>1. Exists(id) /\ proposals[id] \in Proposal
  BY DEF EmergencyPauseVote, MayPause, HasStatus, Exists, TypeInv, GTypeOK
<1>2. pausing \in SUBSET Validator /\ s \in ProposalStatus
  BY <1>1 DEF Proposal, ProposalStatus
<1>3. q \in Proposal
  <2> HIDE DEF pausing, s
  <2> QED BY <1>1, <1>2, ProposalUpdate
<1>4. proposals' = [proposals EXCEPT ![id] = q]
  BY <1>1 DEF EmergencyPauseVote, TypeInv, GTypeOK, Proposal
<1>5. CountCall /\ UNCHANGED <<votes, nextId, lastProposal, snapshots, chainVars, call, effectVars>>
  BY DEF EmergencyPauseVote
<1> HIDE DEF q
<1> QED BY <1>1, <1>3, <1>4, <1>5, UpdateOneType

LEMMA AdvanceType == ASSUME TypeInv, AdvancePhases PROVE TypeInv'
<1>1. ASSUME NEW id \in Id
      PROVE  proposals'[id] \in Proposal \cup {None} /\ (Exists(id)' <=> Exists(id))
  <2>1. CASE HasStatus(id, {"DiscussionPeriod"}) /\ height >= VotingStart(proposals[id])
    <3>1. proposals[id] \in Proposal
      BY <2>1 DEF HasStatus, Exists, TypeInv, GTypeOK
    <3>2. proposals'[id] = [proposals[id] EXCEPT !.status = "VotingPeriod"]
      BY <2>1 DEF AdvancePhases
    <3>3. proposals'[id] \in Proposal
      BY <3>1, <3>2, ProposalUpdate DEF ProposalStatus
    <3> QED BY <3>1, <3>3, NotNone DEF Exists
  <2>2. CASE ~(HasStatus(id, {"DiscussionPeriod"}) /\ height >= VotingStart(proposals[id]))
    BY <2>2 DEF AdvancePhases, Exists, TypeInv, GTypeOK
  <2> QED BY <2>1, <2>2
<1>2. proposals' \in [Id -> Proposal \cup {None}]
  <2>1. proposals' = [id \in Id |->
          IF HasStatus(id, {"DiscussionPeriod"}) /\ height >= VotingStart(proposals[id])
            THEN [proposals[id] EXCEPT !.status = "VotingPeriod"] ELSE proposals[id]]
    BY DEF AdvancePhases
  <2> QED BY <1>1, <2>1
<1>3. UNCHANGED <<votes, nextId, lastProposal, snapshots, chainVars, call, calls, effectVars>>
  BY DEF AdvancePhases
<1>4. /\ call' = call /\ nextId' = nextId /\ height' = height /\ bonded' \in Nat
      /\ UNCHANGED snapshots /\ UNCHANGED <<votes, lastProposal, effectVars>>
      /\ calls' \in 0 .. MaxCalls
  BY <1>3 DEF chainVars, TypeInv, GTypeOK
<1> QED BY <1>1, <1>2, <1>4, QuietStepType

LEMMA BondedType == ASSUME TypeInv, UpdateTotalBonded PROVE TypeInv'
<1>1. /\ call' = call /\ nextId' = nextId /\ proposals' = proposals /\ height' = height
      /\ UNCHANGED snapshots /\ UNCHANGED <<votes, lastProposal, effectVars>>
      /\ calls' = calls
  BY DEF UpdateTotalBonded, ledgerVars
<1>2. bonded' \in Nat /\ calls' \in 0 .. MaxCalls /\ proposals' \in [Id -> Proposal \cup {None}]
  BY <1>1, GovernanceConstants DEF GovernanceConstants, UpdateTotalBonded, TypeInv, GTypeOK
<1>3. \A id \in Id : Exists(id)' <=> Exists(id)
  BY <1>1 DEF Exists
<1> QED BY <1>1, <1>2, <1>3, QuietStepType

LEMMA StutterType == ASSUME TypeInv, UNCHANGED vars PROVE TypeInv'
<1>1. /\ call' = call /\ nextId' = nextId /\ proposals' = proposals /\ height' = height
      /\ UNCHANGED snapshots /\ UNCHANGED <<votes, lastProposal, effectVars>>
      /\ calls' \in 0 .. MaxCalls /\ bonded' \in Nat
      /\ proposals' \in [Id -> Proposal \cup {None}]
  BY DEF vars, effectVars, TypeInv, GTypeOK
<1>2. \A id \in Id : Exists(id)' <=> Exists(id)
  BY <1>1 DEF Exists
<1> QED BY <1>1, <1>2, QuietStepType

LEMMA TypeStep == TypeInv /\ [Next]_vars => TypeInv'
<1> SUFFICES ASSUME TypeInv, [Next]_vars PROVE TypeInv'
  OBVIOUS
<1>1. CASE \E j \in Job : Finish(j)
  BY <1>1, ActiveType, NumberType, InsertType, AppendType, ExecuteType, ActivateType DEF Finish
<1>2. CASE NodeCall
  BY <1>2, SubmitType, CastType, BeginExecuteType, TallyType DEF NodeCall
<1>3. CASE LibraryCall
  BY <1>3, AdvanceType, SnapshotType, SignType, PauseType DEF LibraryCall
<1> QED BY <1>1, <1>2, <1>3, HeightType, BondedType, StutterType DEF Next, NodeNext

-----------------------------------------------------------------------------
(* What a step does to one proposal, its votes, and the staking manager. *)

Inserts(id) == \E j \in Job : InsertProposal(j) /\ call[j].id = id
OpensVoting(id) ==
  /\ HasStatus(id, {"DiscussionPeriod"})
  /\ proposals'[id] = [proposals[id] EXCEPT !.status = "VotingPeriod"]
Signs(id) == \E v \in Validator : SignUpgradeProposal(id, v)
Pauses(id) == \E v \in Validator : EmergencyPauseVote(id, v)
Executes(id) == \E j \in Job : Execute(j) /\ call[j].id = id /\ Executable(id)

LEMMA ProposalEvents ==
  ASSUME TypeInv, [Next]_vars, NEW id \in Id
  PROVE  \/ proposals'[id] = proposals[id]
         \/ Inserts(id) \/ OpensVoting(id) \/ TallyProposal(id)
         \/ Signs(id) \/ Pauses(id) \/ Executes(id)
<1>0. /\ proposals \in [Id -> Proposal \cup {None}] /\ votes \in [Id -> Seq(Vote)]
      /\ call \in [Job -> Call \cup {None}] /\ changes \in [Id -> Nat]
  BY DEF TypeInv, GTypeOK
<1> USE <1>0
<1>1. CASE proposals' = proposals
  BY <1>1
<1>2. ASSUME NEW j \in Job, InsertProposal(j)
      PROVE  proposals'[id] = proposals[id] \/ Inserts(id)
  BY <1>2 DEF InsertProposal, Inserts
<1>3. ASSUME AdvancePhases
      PROVE  proposals'[id] = proposals[id] \/ OpensVoting(id)
  BY <1>3 DEF AdvancePhases, OpensVoting
<1>4. ASSUME NEW i \in Id, TallyProposal(i)
      PROVE  proposals'[id] = proposals[id] \/ TallyProposal(id)
  BY <1>4 DEF TallyProposal
<1>5. ASSUME NEW i \in Id, NEW v \in Validator, SignUpgradeProposal(i, v)
      PROVE  proposals'[id] = proposals[id] \/ Signs(id)
  <2>1. CASE i = id
    BY <1>5, <2>1 DEF Signs
  <2>2. CASE i # id
    BY <1>5, <2>2 DEF SignUpgradeProposal
  <2> QED BY <2>1, <2>2
<1>6. ASSUME NEW i \in Id, NEW v \in Validator, EmergencyPauseVote(i, v)
      PROVE  proposals'[id] = proposals[id] \/ Pauses(id)
  <2>1. CASE i = id
    BY <1>6, <2>1 DEF Pauses
  <2>2. CASE i # id
    BY <1>6, <2>2 DEF EmergencyPauseVote
  <2> QED BY <2>1, <2>2
<1>7. ASSUME NEW j \in Job, Execute(j)
      PROVE  proposals'[id] = proposals[id] \/ Executes(id)
  <2>1. CASE call[j].id = id /\ Executable(id)
    BY <1>7, <2>1 DEF Executes
  <2>2. CASE call[j].id # id \/ ~Executable(id)
    BY <1>7, <2>2 DEF Execute
  <2> QED BY <2>1, <2>2
<1>8. CASE \E j \in Job : Finish(j)
  <2>1. ASSUME NEW j \in Job, CheckActive(j) \/ TakeNumber(j) \/ AppendVote(j) \/ ActivateFeatures(j)
        PROVE  proposals' = proposals
    BY <2>1 DEF CheckActive, TakeNumber, AppendVote, ActivateFeatures, ledgerVars
  <2> QED BY <1>2, <1>7, <1>8, <2>1 DEF Finish
<1>9. CASE NodeCall
  <2>1. ASSUME NEW j \in Job, NEW a \in Proposer, NEW c \in Content, SubmitProposal(j, a, c)
        PROVE  proposals' = proposals
    BY <2>1 DEF SubmitProposal, ledgerVars
  <2>2. ASSUME NEW j \in Job, NEW i \in Id, NEW a \in Account, NEW o \in Option, NEW n \in Power,
               CastVote(j, i, a, o, n)
        PROVE  proposals' = proposals
    BY <2>2 DEF CastVote, ledgerVars
  <2>3. ASSUME NEW j \in Job, NEW i \in Id, BeginExecute(j, i)
        PROVE  proposals' = proposals
    BY <2>3 DEF BeginExecute, ledgerVars
  <2> QED BY <1>4, <1>9, <2>1, <2>2, <2>3 DEF NodeCall
<1>10. CASE LibraryCall
  <2>1. ASSUME NEW s \in Snapshot, UpdateStakingSnapshot(s)
        PROVE  proposals' = proposals
    BY <2>1 DEF UpdateStakingSnapshot
  <2> QED BY <1>3, <1>5, <1>6, <1>10, <2>1 DEF LibraryCall
<1>11. CASE UpdateHeight \/ UpdateTotalBonded \/ UNCHANGED vars
  BY <1>11 DEF UpdateHeight, UpdateTotalBonded, vars, ledgerVars
<1> QED BY <1>8, <1>9, <1>10, <1>11 DEF Next, NodeNext

LEMMA VoteEvents ==
  ASSUME TypeInv, [Next]_vars, NEW id \in Id
  PROVE  \/ votes'[id] = votes[id]
         \/ Inserts(id) /\ votes'[id] = << >>
         \/ \E j \in Job : /\ At(j, "vote", "verified") /\ call[j].id = id
                           /\ ~HasVoted(call[j].vote.voter, id)
                           /\ votes'[id] = Append(votes[id], call[j].vote)
<1>0. /\ proposals \in [Id -> Proposal \cup {None}] /\ votes \in [Id -> Seq(Vote)]
      /\ call \in [Job -> Call \cup {None}] /\ changes \in [Id -> Nat]
  BY DEF TypeInv, GTypeOK
<1> USE <1>0
<1>1. ASSUME NEW j \in Job, InsertProposal(j)
      PROVE  votes'[id] = votes[id] \/ (Inserts(id) /\ votes'[id] = << >>)
  <2>1. CASE call[j].id = id
    BY <1>1, <2>1 DEF InsertProposal, Inserts
  <2>2. CASE call[j].id # id
    <3>1. votes' = [votes EXCEPT ![call[j].id] = << >>]
      BY <1>1 DEF InsertProposal
    <3>2. votes'[id] = votes[id]
      BY <2>2, <3>1, Zenon
    <3> QED BY <3>2
  <2> QED BY <2>1, <2>2
<1>2. ASSUME NEW j \in Job, AppendVote(j)
      PROVE  \/ votes'[id] = votes[id]
             \/ /\ At(j, "vote", "verified") /\ call[j].id = id
                /\ ~HasVoted(call[j].vote.voter, id)
                /\ votes'[id] = Append(votes[id], call[j].vote)
  BY <1>2 DEF AppendVote
<1>3. CASE \E j \in Job : Finish(j)
  <2>1. ASSUME NEW j \in Job, CheckActive(j) \/ TakeNumber(j) \/ Execute(j) \/ ActivateFeatures(j)
        PROVE  votes' = votes
    BY <2>1 DEF CheckActive, TakeNumber, Execute, ActivateFeatures, ledgerVars
  <2> QED BY <1>1, <1>2, <1>3, <2>1 DEF Finish
<1>4. CASE NodeCall
  <2>1. ASSUME NEW j \in Job, NEW a \in Proposer, NEW c \in Content, SubmitProposal(j, a, c)
        PROVE  votes' = votes
    BY <2>1 DEF SubmitProposal, ledgerVars
  <2>2. ASSUME NEW j \in Job, NEW i \in Id, NEW a \in Account, NEW o \in Option, NEW n \in Power,
               CastVote(j, i, a, o, n)
        PROVE  votes' = votes
    BY <2>2 DEF CastVote, ledgerVars
  <2>3. ASSUME NEW j \in Job, NEW i \in Id, BeginExecute(j, i)
        PROVE  votes' = votes
    BY <2>3 DEF BeginExecute, ledgerVars
  <2>4. ASSUME NEW i \in Id, TallyProposal(i)
        PROVE  votes' = votes
    BY <2>4 DEF TallyProposal
  <2> QED BY <1>4, <2>1, <2>2, <2>3, <2>4 DEF NodeCall
<1>5. CASE LibraryCall
  BY <1>5 DEF LibraryCall, AdvancePhases, UpdateStakingSnapshot, SignUpgradeProposal,
              EmergencyPauseVote
<1>6. CASE UpdateHeight \/ UpdateTotalBonded \/ UNCHANGED vars
  BY <1>6 DEF UpdateHeight, UpdateTotalBonded, vars, ledgerVars
<1> QED BY <1>3, <1>4, <1>5, <1>6 DEF Next, NodeNext

LEMMA EffectEvents ==
  ASSUME TypeInv, [Next]_vars, NEW id \in Id
  PROVE  /\ changes'[id] = changes[id] \/ Executes(id)
         /\ \/ id \in activated' => id \in activated
            \/ \E j \in Job : At(j, "execute", "executed") /\ call[j].id = id
<1>0. /\ proposals \in [Id -> Proposal \cup {None}] /\ votes \in [Id -> Seq(Vote)]
      /\ call \in [Job -> Call \cup {None}] /\ changes \in [Id -> Nat]
  BY DEF TypeInv, GTypeOK
<1> USE <1>0
<1>1. ASSUME NEW j \in Job, Execute(j)
      PROVE  activated' = activated /\ (changes'[id] = changes[id] \/ Executes(id))
  <2>1. CASE call[j].id = id /\ Executable(id)
    BY <1>1, <2>1 DEF Execute, Executes
  <2>2. CASE call[j].id # id \/ ~Executable(id)
    BY <1>1, <2>2 DEF Execute
  <2> QED BY <2>1, <2>2
<1>2. ASSUME NEW j \in Job, ActivateFeatures(j)
      PROVE  /\ changes' = changes
             /\ (id \in activated' => id \in activated)
                  \/ (At(j, "execute", "executed") /\ call[j].id = id)
  BY <1>2 DEF ActivateFeatures
<1>3. CASE \E j \in Job : Finish(j)
  <2>1. ASSUME NEW j \in Job, CheckActive(j) \/ TakeNumber(j) \/ InsertProposal(j) \/ AppendVote(j)
        PROVE  changes' = changes /\ activated' = activated
    BY <2>1 DEF CheckActive, TakeNumber, InsertProposal, AppendVote, effectVars
  <2> QED BY <1>1, <1>2, <1>3, <2>1 DEF Finish
<1>4. CASE NodeCall
  <2>1. ASSUME NEW j \in Job, NEW a \in Proposer, NEW c \in Content, SubmitProposal(j, a, c)
        PROVE  UNCHANGED effectVars
    BY <2>1 DEF SubmitProposal
  <2>2. ASSUME NEW j \in Job, NEW i \in Id, NEW a \in Account, NEW o \in Option, NEW n \in Power,
               CastVote(j, i, a, o, n)
        PROVE  UNCHANGED effectVars
    BY <2>2 DEF CastVote
  <2>3. ASSUME NEW j \in Job, NEW i \in Id, BeginExecute(j, i)
        PROVE  UNCHANGED effectVars
    BY <2>3 DEF BeginExecute
  <2>4. ASSUME NEW i \in Id, TallyProposal(i)
        PROVE  UNCHANGED effectVars
    BY <2>4 DEF TallyProposal
  <2>5. UNCHANGED effectVars
    BY <1>4, <2>1, <2>2, <2>3, <2>4 DEF NodeCall
  <2> QED BY <2>5 DEF effectVars
<1>5. CASE LibraryCall
  BY <1>5 DEF LibraryCall, AdvancePhases, UpdateStakingSnapshot, SignUpgradeProposal,
              EmergencyPauseVote, effectVars
<1>6. CASE UpdateHeight \/ UpdateTotalBonded \/ UNCHANGED vars
  BY <1>6 DEF UpdateHeight, UpdateTotalBonded, vars, effectVars
<1> QED BY <1>3, <1>4, <1>5, <1>6 DEF Next, NodeNext

LEMMA CallEvents ==
  ASSUME TypeInv, [Next]_vars, NEW k \in Job
  PROVE  \/ call'[k] = call[k] \/ call'[k] = None
         \/ call'[k] # None /\ call'[k].op = "submit"
         \/ \E id \in Id, a \in Account, o \in Option, n \in Power : CastVote(k, id, a, o, n)
         \/ \E id \in Id : BeginExecute(k, id)
         \/ /\ Execute(k) /\ Executable(call[k].id)
            /\ call'[k] = [call[k] EXCEPT !.at = "executed"]
            /\ proposals' = [proposals EXCEPT ![call[k].id].status = "Executed"]
<1>0. /\ proposals \in [Id -> Proposal \cup {None}] /\ votes \in [Id -> Seq(Vote)]
      /\ call \in [Job -> Call \cup {None}] /\ changes \in [Id -> Nat]
  BY DEF TypeInv, GTypeOK
<1> USE <1>0
<1>1. ASSUME NEW j \in Job, Execute(j)
      PROVE  \/ call'[k] = call[k] \/ call'[k] = None
             \/ /\ Execute(k) /\ Executable(call[k].id)
                /\ call'[k] = [call[k] EXCEPT !.at = "executed"]
                /\ proposals' = [proposals EXCEPT ![call[k].id].status = "Executed"]
  <2>1. CASE Executable(call[j].id)
    <3>1. PICK result \in Execution(proposals[call[j].id].content) :
            IF result[2]
              THEN /\ proposals' = [proposals EXCEPT ![call[j].id].status = "Executed"]
                   /\ call' = [call EXCEPT ![j].at = "executed"]
              ELSE Return(j)
      BY <1>1, <2>1 DEF Execute
    <3> QED BY <1>1, <2>1, <3>1 DEF Return
  <2>2. CASE ~Executable(call[j].id)
    BY <1>1, <2>2 DEF Execute, Return
  <2> QED BY <2>1, <2>2
<1>2. ASSUME NEW j \in Job, CheckActive(j)
      PROVE  \/ call'[k] = call[k] \/ call'[k] = None
             \/ call'[k] # None /\ call'[k].op = "submit"
  <2>1. call[j] \in Asked
    BY <1>2, CallFields DEF CheckActive, At
  <2>2. [call[j] EXCEPT !.at = "allowed"] \in Asked
    BY <2>1 DEF Asked
  <2>3. [call[j] EXCEPT !.at = "allowed"] # None /\ [call[j] EXCEPT !.at = "allowed"].op = "submit"
    BY <2>2, NotNone DEF Call, Asked
  <2> QED BY <1>2, <2>3 DEF CheckActive, Return
<1>3. ASSUME NEW j \in Job, TakeNumber(j)
      PROVE  call'[k] = call[k] \/ (call'[k] # None /\ call'[k].op = "submit")
  <2> DEFINE c == [op |-> "submit", at |-> "numbered", proposer |-> call[j].proposer,
                   content |-> call[j].content, height |-> call[j].height, id |-> nextId,
                   snapshot |-> IF call[j].height \in DOMAIN snapshots
                                  THEN snapshots[call[j].height] ELSE None]
  <2>1. call' = [call EXCEPT ![j] = c] /\ c.op = "submit"
    BY <1>3 DEF TakeNumber
  <2>2. call'[j] # None
    <3>1. call[j] \in Asked
      BY <1>3, CallFields DEF TakeNumber, At
    <3>2. nextId \in Id
      <4>1. j \in Submitting
        BY <1>3 DEF TakeNumber, Submitting, At
      <4>2. Cardinality(Submitting) # 0
        BY <4>1, SubmittingFinite, FS_EmptySet
      <4> QED BY <4>2, SubmittingFinite, Periods DEF TypeInv, GTypeOK, NumbersTaken, Id
    <3>3. c \in Numbered
      BY <3>1, <3>2 DEF Asked, Numbered, Range, TypeInv, GTypeOK
    <3> HIDE DEF c
    <3> QED BY <2>1, <3>3, NotNone DEF Call
  <2> HIDE DEF c
  <2>3. call'[j] = c
    BY <2>1
  <2>4. CASE k = j
    BY <2>1, <2>2, <2>3, <2>4
  <2>5. CASE k # j
    BY <2>1, <2>5
  <2> QED BY <2>4, <2>5
<1>4. ASSUME NEW j \in Job, Return(j)
      PROVE  call'[k] = call[k] \/ call'[k] = None
  BY <1>4 DEF Return
<1>5. CASE \E j \in Job : Finish(j)
  BY <1>1, <1>2, <1>3, <1>4, <1>5 DEF Finish, InsertProposal, AppendVote, ActivateFeatures
<1>6. ASSUME NEW j \in Job, NEW a \in Proposer, NEW c \in Content, SubmitProposal(j, a, c)
      PROVE  call'[k] = call[k] \/ (call'[k] # None /\ call'[k].op = "submit")
  <2> DEFINE d == [op |-> "submit", at |-> "checked", proposer |-> a, content |-> c,
                   height |-> height]
  <2>1. d \in Asked /\ d.op = "submit" /\ call' = [call EXCEPT ![j] = d]
    BY <1>6 DEF SubmitProposal, Start, Asked, TypeInv, GTypeOK
  <2>2. d # None
    BY <2>1, NotNone DEF Call
  <2> HIDE DEF d
  <2>3. call'[j] = d
    BY <2>1
  <2>4. CASE k = j
    BY <2>1, <2>2, <2>3, <2>4
  <2>5. CASE k # j
    BY <2>1, <2>5
  <2> QED BY <2>4, <2>5
<1>7. ASSUME NEW j \in Job, NEW id \in Id, NEW a \in Account, NEW o \in Option, NEW n \in Power,
             CastVote(j, id, a, o, n)
      PROVE  call'[k] = call[k] \/ CastVote(k, id, a, o, n)
  BY <1>7 DEF CastVote, Start
<1>8. ASSUME NEW j \in Job, NEW id \in Id, BeginExecute(j, id)
      PROVE  call'[k] = call[k] \/ BeginExecute(k, id)
  BY <1>8 DEF BeginExecute, Start
<1>9. ASSUME NEW id \in Id, TallyProposal(id)
      PROVE  call' = call
  BY <1>9 DEF TallyProposal
<1>10. CASE NodeCall
  BY <1>6, <1>7, <1>8, <1>9, <1>10 DEF NodeCall
<1>11. CASE LibraryCall
  BY <1>11 DEF LibraryCall, AdvancePhases, UpdateStakingSnapshot, SignUpgradeProposal,
               EmergencyPauseVote
<1>12. CASE UpdateHeight \/ UpdateTotalBonded \/ UNCHANGED vars
  BY <1>12 DEF UpdateHeight, UpdateTotalBonded, vars
<1> QED BY <1>5, <1>10, <1>11, <1>12 DEF Next, NodeNext

-----------------------------------------------------------------------------
(* A proposal goes through its phases in one direction. *)

LEMMA NotInserted ==
  ASSUME TypeInv, NEW id \in Id, Inserts(id)
  PROVE  ~Exists(id)
BY DEF Inserts, InsertProposal, TypeInv, NumbersTaken

(* What a step leaves of a proposal. *)
Follow(p, q) ==
  /\ q.status = p.status \/ q.status \in Follows(p.status)
  /\ q.proposer = p.proposer /\ q.content = p.content
  /\ q.submitted = p.submitted /\ q.snapshot = p.snapshot
  /\ p.tally # None => q.tally = p.tally
  /\ \/ q.tally = p.tally
     \/ p.status = "VotingPeriod" /\ q.status \in {"Passed", "Rejected", "Failed"}

LEMMA ProposalStep ==
  ASSUME TypeInv, TallyComes, [Next]_vars, NEW id \in Id, Exists(id)
  PROVE  /\ proposals[id] \in Proposal /\ proposals'[id] \in Proposal /\ Exists(id)'
         /\ Follow(proposals[id], proposals'[id])
<1> DEFINE p == proposals[id]
           q == proposals'[id]
<1>1. p \in Proposal
  BY DEF TypeInv, GTypeOK, Exists
<1>2. CASE q = p
  BY <1>1, <1>2 DEF Follow, Proposal, Exists
<1>3. CASE OpensVoting(id)
  <2>1. p.status = "DiscussionPeriod" /\ q = [p EXCEPT !.status = "VotingPeriod"]
    BY <1>3 DEF OpensVoting, HasStatus
  <2>2. q \in Proposal
    BY <1>1, <2>1, ProposalUpdate DEF ProposalStatus
  <2>3. Follow(p, q)
    BY <1>1, <2>1 DEF Follow, Follows, Proposal
  <2> QED BY <1>1, <2>2, <2>3, NotNone DEF Exists
<1>4. CASE TallyProposal(id)
  <2> DEFINE t == Count(votes[id], bonded)
  <2>1. p.status = "VotingPeriod" /\ p.tally = None
    BY <1>4 DEF TallyProposal, HasStatus, TallyComes
  <2>2. q = [p EXCEPT !.tally = t, !.status = Outcome(t)]
    BY <1>4 DEF TallyProposal, TypeInv, GTypeOK
  <2>3. t \in TallyResult /\ Outcome(t) \in {"Failed", "Passed", "Rejected"}
    BY CountType DEF TypeInv, GTypeOK, Outcome
  <2> HIDE DEF t
  <2>4. q \in Proposal
    <3>1. Outcome(t) \in ProposalStatus
      BY <2>3 DEF ProposalStatus
    <3>2. [p EXCEPT !.tally = t, !.status = Outcome(t)] \in Proposal
      BY <1>1, <2>2, <2>3, <3>1, ProposalUpdate
    <3> QED BY <2>2, <3>2
  <2>5. Follow(p, q)
    BY <1>1, <2>1, <2>2, <2>3 DEF Follow, Follows, Proposal
  <2> QED BY <1>1, <2>4, <2>5, NotNone DEF Exists
<1>5. CASE Signs(id)
  <2>1. PICK v \in Validator : SignUpgradeProposal(id, v)
    BY <1>5 DEF Signs
  <2> DEFINE signed == p.signatures \cup {v}
             s == IF Cardinality(signed) >= UpgradeThreshold THEN "Executed" ELSE p.status
  <2>2. p.status = "Passed" /\ s \in {"Passed", "Executed"} /\ signed \in SUBSET Validator
    BY <1>1, <2>1 DEF SignUpgradeProposal, HasStatus, Proposal
  <2>3. q = [p EXCEPT !.signatures = signed, !.status = s]
    BY <1>1, <2>1 DEF SignUpgradeProposal, TypeInv, GTypeOK, Proposal
  <2> HIDE DEF signed, s
  <2>4. q \in Proposal
    <3>1. s \in ProposalStatus
      BY <2>2 DEF ProposalStatus
    <3>2. [p EXCEPT !.signatures = signed, !.status = s] \in Proposal
      BY <1>1, <2>2, <2>3, <3>1, ProposalUpdate
    <3> QED BY <2>3, <3>2
  <2>5. Follow(p, q)
    BY <1>1, <2>2, <2>3 DEF Follow, Follows, Proposal
  <2> QED BY <1>1, <2>4, <2>5, NotNone DEF Exists
<1>6. CASE Pauses(id)
  <2>1. PICK v \in Validator : EmergencyPauseVote(id, v)
    BY <1>6 DEF Pauses
  <2> DEFINE pausing == p.pauseVotes \cup {v}
             s == IF Cardinality(pausing) >= PauseThreshold THEN "EmergencyPaused" ELSE p.status
  <2>2. /\ p.status \in {"VotingPeriod", "Passed"} /\ s \in {p.status, "EmergencyPaused"}
        /\ pausing \in SUBSET Validator
    BY <1>1, <2>1 DEF EmergencyPauseVote, MayPause, HasStatus, Proposal
  <2>3. q = [p EXCEPT !.pauseVotes = pausing, !.status = s]
    BY <1>1, <2>1 DEF EmergencyPauseVote, TypeInv, GTypeOK, Proposal
  <2> HIDE DEF pausing, s
  <2>4. q \in Proposal
    <3>1. s \in ProposalStatus
      BY <2>2, <1>1 DEF ProposalStatus
    <3>2. [p EXCEPT !.pauseVotes = pausing, !.status = s] \in Proposal
      BY <1>1, <2>2, <2>3, <3>1, ProposalUpdate
    <3> QED BY <2>3, <3>2
  <2>5. Follow(p, q)
    BY <1>1, <2>2, <2>3 DEF Follow, Follows, Proposal
  <2> QED BY <1>1, <2>4, <2>5, NotNone DEF Exists
<1>7. CASE Executes(id)
  <2>1. p.status = "Passed" /\ (q = p \/ q = [p EXCEPT !.status = "Executed"])
    <3>1. PICK j \in Job : Execute(j) /\ call[j].id = id /\ Executable(id)
      BY <1>7 DEF Executes
    <3>2. PICK result \in Execution(proposals[id].content) :
            IF result[2]
              THEN proposals' = [proposals EXCEPT ![id].status = "Executed"]
              ELSE UNCHANGED proposals
      BY <3>1 DEF Execute
    <3> QED BY <3>1, <3>2 DEF Executable, HasStatus, TypeInv, GTypeOK
  <2>2. CASE q = [p EXCEPT !.status = "Executed"]
    <3>1. q \in Proposal
      BY <1>1, <2>2, ProposalUpdate DEF ProposalStatus
    <3>2. Follow(p, q)
      BY <1>1, <2>1, <2>2 DEF Follow, Follows, Proposal
    <3> QED BY <1>1, <3>1, <3>2, NotNone DEF Exists
  <2> QED BY <1>2, <2>1, <2>2
<1> QED BY <1>2, <1>3, <1>4, <1>5, <1>6, <1>7, ProposalEvents, NotInserted

LEMMA NewProposal ==
  ASSUME TypeInv, [Next]_vars, NEW id \in Id, ~Exists(id), Exists(id)'
  PROVE  /\ Inserts(id) /\ votes'[id] = << >>
         /\ proposals'[id].tally = None /\ proposals'[id].status = "DiscussionPeriod"
<1>1. Inserts(id)
  BY ProposalEvents DEF Exists, OpensVoting, HasStatus, TallyProposal, Signs,
                        SignUpgradeProposal, Pauses, EmergencyPauseVote, MayPause,
                        Executes, Executable
<1>2. PICK j \in Job : InsertProposal(j) /\ call[j].id = id
  BY <1>1 DEF Inserts
<1>3. /\ proposals' = [proposals EXCEPT ![id] =
              [proposer |-> call[j].proposer, content |-> call[j].content,
               status |-> "DiscussionPeriod", submitted |-> call[j].height,
               snapshot |-> call[j].snapshot, tally |-> None, signatures |-> {},
               pauseVotes |-> {}]]
      /\ votes' = [votes EXCEPT ![id] = << >>]
  BY <1>2 DEF InsertProposal
<1> QED BY <1>1, <1>3 DEF TypeInv, GTypeOK

PhaseInv == TypeInv /\ TallyComes /\ CallsAreAbout /\ NothingBefore

LEMMA PhaseStep == PhaseInv /\ [Next]_vars => PhaseInv'
<1> SUFFICES ASSUME PhaseInv, [Next]_vars PROVE PhaseInv'
  OBVIOUS
<1> USE DEF PhaseInv
<1>1. TypeInv'
  BY TypeStep
<1>2. TallyComes'
  <2> SUFFICES ASSUME NEW id \in Id, HasStatus(id, {"DiscussionPeriod", "VotingPeriod"})'
               PROVE  proposals'[id].tally = None
    BY DEF TallyComes
  <2>1. CASE Exists(id)
    <3>1. /\ proposals'[id].status \in {"DiscussionPeriod", "VotingPeriod"}
          /\ Follow(proposals[id], proposals'[id]) /\ proposals[id] \in Proposal
      BY <2>1, ProposalStep DEF HasStatus
    <3>2. proposals[id].status \in {"DiscussionPeriod", "VotingPeriod"}
      BY <3>1 DEF Follow, Follows, Proposal, ProposalStatus
    <3>3. proposals[id].tally = None
      BY <2>1, <3>2 DEF TallyComes, HasStatus
    <3> QED BY <3>1, <3>3 DEF Follow
  <2>2. CASE ~Exists(id)
    BY <2>2, NewProposal DEF HasStatus
  <2> QED BY <2>1, <2>2
<1>3. CallsAreAbout'
  <2> SUFFICES ASSUME NEW k \in Job, call'[k] # None, call'[k].op \in {"vote", "execute"}
               PROVE  Exists(call[k].id)'
    BY DEF CallsAreAbout
  <2>1. ASSUME NEW id \in Id, Exists(id) PROVE Exists(id)'
    BY <2>1, ProposalStep
  <2>2. CASE call'[k] = call[k]
    <3>1. call[k] \in Call
      BY <2>2 DEF TypeInv, GTypeOK
    <3>2. call[k].id \in Id
      BY <2>2, <3>1, CallFields DEF Voting, Executing
    <3>3. Exists(call[k].id)
      BY <2>2 DEF CallsAreAbout
    <3> QED BY <2>1, <2>2, <3>2, <3>3 DEF Exists
  <2>3. ASSUME NEW id \in Id, NEW a \in Account, NEW o \in Option, NEW n \in Power,
               CastVote(k, id, a, o, n)
        PROVE  Exists(call[k].id)'
    <3>1. Exists(id) /\ call'[k].id = id
      BY <2>3 DEF CastVote, Start, HasStatus, TypeInv, GTypeOK
    <3> QED BY <2>1, <3>1 DEF Exists
  <2>4. ASSUME NEW id \in Id, BeginExecute(k, id)
        PROVE  Exists(call[k].id)'
    <3>1. Exists(id) /\ call'[k].id = id
      BY <2>4 DEF BeginExecute, Start, HasStatus, TypeInv, GTypeOK
    <3> QED BY <2>1, <3>1 DEF Exists
  <2>5. ASSUME Execute(k), Executable(call[k].id), call'[k] = [call[k] EXCEPT !.at = "executed"]
        PROVE  Exists(call[k].id)'
    <3>1. call[k] \in Executing
      BY <2>5, CallFields DEF Execute, At, TypeInv, GTypeOK
    <3>2. call[k].id \in Id /\ call'[k].id = call[k].id /\ Exists(call[k].id)
      BY <2>5, <3>1 DEF Executing, Executable, HasStatus
    <3> QED BY <2>1, <3>2 DEF Exists
  <2> QED BY <2>2, <2>3, <2>4, <2>5, CallEvents
<1>4. NothingBefore'
  <2> SUFFICES ASSUME NEW id \in Id, ~Exists(id)'
               PROVE  changes'[id] = 0 /\ id \notin activated'
    BY DEF NothingBefore
  <2>1. ~Exists(id)
    BY ProposalStep
  <2>2. ~Executes(id)
    BY <2>1 DEF Executes, Executable, HasStatus
  <2>3. ~ \E j \in Job : At(j, "execute", "executed") /\ call[j].id = id
    BY <2>1 DEF CallsAreAbout, At
  <2> QED BY <2>1, <2>2, <2>3, EffectEvents DEF NothingBefore
<1> QED BY <1>1, <1>2, <1>3, <1>4

LEMMA InitPhase == Init => PhaseInv
<1> SUFFICES ASSUME Init PROVE PhaseInv
  OBVIOUS
<1>1. TypeInv
  BY InitTypeInv
<1>2. TallyComes /\ CallsAreAbout /\ NothingBefore
  BY DEF Init, TallyComes, CallsAreAbout, NothingBefore, HasStatus, Exists
<1> QED BY <1>1, <1>2 DEF PhaseInv

LEMMA PhaseAlways == Spec => []PhaseInv
BY InitPhase, PhaseStep, PTL DEF Spec

(* GTypeOK: next_proposal_id stays within the bound on submissions however *)
(* many submissions pass the limits at once, proposals, votes, calls and   *)
(* snapshots stay well formed, and at most one voting period of snapshots  *)
(* is kept (submit_proposal, update_staking_snapshot).                     *)
THEOREM TypeCorrect == Spec => []GTypeOK
<1>1. PhaseInv => GTypeOK
  BY DEF PhaseInv, TypeInv
<1> QED BY <1>1, PhaseAlways, PTL

(* DecisionIsFinal: a proposal's phases are passed in one direction, its   *)
(* tally stands, and no other proposal takes its number: two submissions   *)
(* never get the same one (submit_proposal, tally_proposal,                *)
(* emergency_pause_vote, execute_proposal).                                *)
THEOREM Final == Spec => DecisionIsFinal
<1> DEFINE Goes(p, q) ==
             /\ q # None
             /\ q.status = p.status \/ q.status \in Follows(p.status)
             /\ [q EXCEPT !.status = p.status, !.tally = p.tally,
                          !.signatures = p.signatures, !.pauseVotes = p.pauseVotes] = p
             /\ p.tally # None => q.tally = p.tally
<1>1. ASSUME PhaseInv, [Next]_vars, NEW id \in Id, Exists(id)
      PROVE  Goes(proposals[id], proposals'[id])
  <2>1. /\ proposals[id] \in Proposal /\ proposals'[id] \in Proposal /\ proposals'[id] # None
        /\ Follow(proposals[id], proposals'[id])
    BY <1>1, ProposalStep, NotNone DEF PhaseInv
  <2>2. ASSUME NEW p \in Proposal, NEW q \in Proposal, Follow(p, q)
        PROVE  [q EXCEPT !.status = p.status, !.tally = p.tally,
                         !.signatures = p.signatures, !.pauseVotes = p.pauseVotes] = p
    BY <2>2 DEF Follow, Proposal
  <2> QED BY <2>1, <2>2 DEF Follow
<1>2. PhaseInv /\ [Next]_vars => [\A id \in Id : Exists(id) => Goes(proposals[id], proposals'[id])]_vars
  <2> HIDE DEF Goes
  <2> QED BY <1>1
<1>3. Spec => [][\A id \in Id : Exists(id) => Goes(proposals[id], proposals'[id])]_vars
  <2> HIDE DEF Goes
  <2> QED BY <1>2, PhaseAlways, PTL DEF Spec
<1> QED BY <1>3 DEF DecisionIsFinal

-----------------------------------------------------------------------------
(* The votes of a proposal. *)

VoteInv == PhaseInv /\ VotesCovered /\ OneVotePerVoter

LEMMA CoverStep ==
  ASSUME VoteInv, [Next]_vars
  PROVE  VotesCovered'
<1> USE DEF VoteInv, PhaseInv
<1>1. ASSUME NEW id \in Id, Exists(id), NEW v, Covered(v, id)
      PROVE  Exists(id)' /\ Covered(v, id)'
  BY <1>1, ProposalStep DEF Follow, Covered
<1>2. ASSUME NEW id \in Id, Exists(id)', NEW i \in DOMAIN votes'[id]
      PROVE  Covered(votes[id][i], id)'
  <2>1. CASE ~Exists(id)
    BY <1>2, <2>1, NewProposal
  <2>2. CASE Exists(id) /\ votes'[id] = votes[id]
    <3>1. Covered(votes[id][i], id)
      BY <1>2, <2>2 DEF VotesCovered
    <3>2. \E v : v = votes'[id][i] /\ Covered(v, id)
      BY <2>2, <3>1
    <3> QED BY <1>1, <2>2, <3>2 DEF Covered
  <2>3. ASSUME Exists(id), NEW j \in Job, At(j, "vote", "verified"), call[j].id = id,
               votes'[id] = Append(votes[id], call[j].vote)
        PROVE  Covered(votes[id][i], id)'
    <3>1. votes[id] \in Seq(Vote)
      BY DEF TypeInv, GTypeOK
    <3>2. \/ i \in DOMAIN votes[id] /\ votes'[id][i] = votes[id][i]
          \/ votes'[id][i] = call[j].vote
      BY <1>2, <2>3, <3>1
    <3>3. Covered(call[j].vote, id)
      BY <2>3 DEF VotesCovered
    <3>4. \A k \in DOMAIN votes[id] : Covered(votes[id][k], id)
      BY <2>3 DEF VotesCovered
    <3>5. \E v : v = votes'[id][i] /\ Covered(v, id)
      BY <3>2, <3>3, <3>4
    <3> QED BY <1>1, <2>3, <3>5 DEF Covered
  <2> QED BY <2>1, <2>2, <2>3, VoteEvents, NotInserted
<1>3. ASSUME NEW k \in Job, At(k, "vote", "verified")'
      PROVE  Covered(call[k].vote, call[k].id)'
  <2>1. CASE call'[k] = call[k]
    <3>1. At(k, "vote", "verified") /\ call[k] \in Call
      BY <1>3, <2>1 DEF At, TypeInv, GTypeOK
    <3>2. call[k].id \in Id
      BY <3>1, CallFields DEF At, Voting
    <3>3. Exists(call[k].id) /\ Covered(call[k].vote, call[k].id)
      BY <3>1 DEF VotesCovered, CallsAreAbout, At
    <3> QED BY <1>1, <2>1, <3>2, <3>3 DEF Covered
  <2>2. ASSUME NEW id \in Id, NEW a \in Account, NEW o \in Option, NEW n \in Power,
               CastVote(k, id, a, o, n)
        PROVE  Covered(call[k].vote, call[k].id)'
    <3> DEFINE w == VerifiedPower(proposals[id], a, n)
    <3>1. /\ call'[k] = [op |-> "vote", at |-> "verified", id |-> id,
                         vote |-> [voter |-> a, option |-> o, power |-> w]]
          /\ proposals' = proposals
      BY <2>2 DEF CastVote, Start, ledgerVars, TypeInv, GTypeOK
    <3>2. proposals[id].snapshot # None => w <= proposals[id].snapshot[a]
      BY <2>2, CastType
    <3> HIDE DEF w
    <3> QED BY <3>1, <3>2 DEF Covered
  <2>3. ASSUME NEW id \in Id, BeginExecute(k, id) PROVE FALSE
    <3>1. call'[k].op = "execute"
      BY <2>3 DEF BeginExecute, Start, TypeInv, GTypeOK
    <3> QED BY <1>3, <3>1 DEF At
  <2>4. ASSUME Execute(k), call'[k] = [call[k] EXCEPT !.at = "executed"] PROVE FALSE
    <3>1. call[k] \in Executing
      BY <2>4, CallFields DEF Execute, At, TypeInv, GTypeOK
    <3> QED BY <1>3, <2>4, <3>1 DEF At, Executing
  <2> QED BY <1>3, <2>1, <2>2, <2>3, <2>4, CallEvents DEF At
<1> QED BY <1>2, <1>3 DEF VotesCovered

LEMMA OneVoteStep ==
  ASSUME VoteInv, [Next]_vars
  PROVE  OneVotePerVoter'
<1> USE DEF VoteInv, PhaseInv
<1> SUFFICES ASSUME NEW id \in Id, NEW i \in DOMAIN votes'[id], NEW k \in DOMAIN votes'[id],
                    votes'[id][i].voter = votes'[id][k].voter
             PROVE  i = k
  BY DEF OneVotePerVoter
<1>1. CASE votes'[id] = votes[id]
  BY <1>1 DEF OneVotePerVoter
<1>2. CASE votes'[id] = << >>
  BY <1>2
<1>3. ASSUME NEW j \in Job, ~HasVoted(call[j].vote.voter, id),
             votes'[id] = Append(votes[id], call[j].vote)
      PROVE  i = k
  <2>1. votes[id] \in Seq(Vote)
    BY DEF TypeInv, GTypeOK
  <2> DEFINE n == Len(votes[id]) + 1
  <2>2. /\ DOMAIN votes[id] = 1 .. Len(votes[id]) /\ Len(votes[id]) \in Nat
        /\ DOMAIN votes'[id] = 1 .. n
        /\ votes'[id][n] = call[j].vote
        /\ \A m \in 1 .. Len(votes[id]) : votes'[id][m] = votes[id][m]
    BY <1>3, <2>1
  <2>3. \A m \in 1 .. Len(votes[id]) : votes[id][m].voter # call[j].vote.voter
    BY <1>3, <2>2 DEF HasVoted
  <2>4. CASE i = n \/ k = n
    <3> HIDE DEF n
    <3>1. \A m \in 1 .. n : m # n => m \in 1 .. Len(votes[id])
      BY <2>2 DEF n
    <3>2. \A m \in 1 .. n : m # n => votes'[id][m].voter # votes'[id][n].voter
      BY <2>2, <2>3, <3>1
    <3> QED BY <2>2, <2>4, <3>2
  <2>5. CASE i # n /\ k # n
    <3>1. i \in DOMAIN votes[id] /\ k \in DOMAIN votes[id]
      BY <2>2, <2>5
    <3> QED BY <2>2, <3>1 DEF OneVotePerVoter
  <2> QED BY <2>4, <2>5
<1> QED BY <1>1, <1>2, <1>3, VoteEvents

LEMMA VotesAlways == Spec => []VoteInv
<1>1. Init => VoteInv
  <2> SUFFICES ASSUME Init PROVE VoteInv
    OBVIOUS
  <2>1. VotesCovered /\ OneVotePerVoter
    BY DEF Init, VotesCovered, OneVotePerVoter, Exists, At
  <2> QED BY <2>1, InitPhase DEF VoteInv
<1>2. VoteInv /\ [Next]_vars => VoteInv'
  BY CoverStep, OneVoteStep, PhaseStep DEF VoteInv
<1> QED BY <1>1, <1>2, PTL DEF Spec

(* One vote per account, each within the stake of its account, add up to   *)
(* at most the stake of all accounts.                                      *)
LEMMA PowerWithinStake ==
  ASSUME NEW vs \in Seq(Vote), NEW s \in [Account -> Nat],
         \A i, k \in DOMAIN vs : vs[i].voter = vs[k].voter => i = k,
         \A i \in DOMAIN vs : vs[i].power <= s[vs[i].voter]
  PROVE  PowerOf(vs, VoteOption) <= SumFunction(s)
<1> DEFINE D == {i \in DOMAIN vs : vs[i].option \in VoteOption}
           f == [i \in DOMAIN vs |-> vs[i].power]
           g == [i \in DOMAIN vs |-> vs[i].voter]
<1>1. DOMAIN vs = 1 .. Len(vs) /\ Len(vs) \in Nat /\ \A i \in DOMAIN vs : vs[i] \in Vote
  BY LenProperties, ElementOfSeq
<1>2. IsFiniteSet(D)
  <2>1. IsFiniteSet(DOMAIN vs)
    BY <1>1, FS_Interval
  <2>2. D \subseteq DOMAIN vs
    OBVIOUS
  <2> QED BY <2>1, <2>2, FS_Subset
<1>3. \A i \in D : g[i] \in Account /\ f[i] \in Nat /\ f[i] <= s[g[i]]
  BY <1>1 DEF Vote
<1>4. \A i, k \in D : g[i] = g[k] => i = k
  OBVIOUS
<1>5. SumFunctionOnSet(f, D) <= SumFunctionOnSet(s, Account)
  <2> HIDE DEF D, f, g
  <2> QED BY <1>2, <1>3, <1>4, GovernanceFinite, SumInjection DEF GovernanceFinite
<1> QED BY <1>5 DEF PowerOf, SumFunction

(* VotesAreSound: on every proposal each account votes once, also when two *)
(* of its votes pass the checks at the same time, and if the stakes were   *)
(* recorded at its submission all its votes together never weigh more than *)
(* the stake of that block (vote, "Flash staking is not allowed").         *)
THEOREM SoundVotes == Spec => []VotesAreSound
<1>1. VoteInv => VotesAreSound
  <2> SUFFICES ASSUME VoteInv, NEW id \in Id, Exists(id), proposals[id].snapshot # None
               PROVE  PowerOf(votes[id], VoteOption) <= SumFunction(proposals[id].snapshot)
    BY DEF VoteInv, VotesAreSound, PowerBoundBySnapshot
  <2>1. votes[id] \in Seq(Vote) /\ proposals[id].snapshot \in [Account -> Nat]
    <3>1. proposals[id].snapshot \in Snapshot
      BY DEF VoteInv, PhaseInv, TypeInv, GTypeOK, Exists, Proposal
    <3> QED BY <3>1, GovernanceConstants
            DEF GovernanceConstants, VoteInv, PhaseInv, TypeInv, GTypeOK
  <2>2. /\ \A i, k \in DOMAIN votes[id] : votes[id][i].voter = votes[id][k].voter => i = k
        /\ \A i \in DOMAIN votes[id] :
             votes[id][i].power <= proposals[id].snapshot[votes[id][i].voter]
    BY DEF VoteInv, OneVotePerVoter, VotesCovered, Covered
  <2> QED BY <2>1, <2>2, PowerWithinStake
<1> QED BY <1>1, VotesAlways, PTL

-----------------------------------------------------------------------------
(* A proposal's effect on the staking manager. *)

(* Whether executing a proposal with content c changes the staking manager. *)
Changes(c) ==
  \/ c.kind = "SlashingProposal"
  \/ c.kind = "ParameterChange" /\ "inflation_rate" \in c.parameters

LEMMA ExecutionEffect ==
  ASSUME NEW c \in Content, "bad_feature" \notin c.parameters, NEW r \in Execution(c)
  PROVE  r[1] = IF r[2] /\ Changes(c) THEN 1 ELSE 0
<1>1. CASE c.kind = "ParameterChange"
  <2>1. r = <<IF "inflation_rate" \in c.parameters THEN 1 ELSE 0, TRUE>>
    BY <1>1 DEF Execution
  <2> QED BY <1>1, <2>1 DEF Changes
<1>2. CASE c.kind = "SlashingProposal"
  <2>1. r \in {<<1, TRUE>>, <<0, FALSE>>}
    <3>1. c.kind # "ParameterChange"
      BY <1>2
    <3> QED BY <1>2, <3>1, Zenon DEF Execution
  <2>2. CASE r = <<1, TRUE>>
    BY <1>2, <2>2 DEF Changes
  <2>3. CASE r = <<0, FALSE>>
    BY <2>3
  <2> QED BY <2>1, <2>2, <2>3, Zenon
<1>3. CASE c.kind \notin {"ParameterChange", "SlashingProposal"}
  <2>1. r = <<0, TRUE>>
    BY <1>3 DEF Execution
  <2> QED BY <1>3, <2>1 DEF Changes
<1> QED BY <1>1, <1>2, <1>3

LEMMA AppliedOnceStep ==
  ASSUME PhaseInv, AppliedOnce, [Next]_vars
  PROVE  AppliedOnce'
<1> SUFFICES ASSUME NEW id \in Id, Exists(id)',
                    "bad_feature" \notin proposals'[id].content.parameters
             PROVE  changes'[id] = IF /\ proposals'[id].status = "Executed"
                                      /\ Changes(proposals'[id].content)
                                     THEN 1 ELSE 0
  BY DEF AppliedOnce, Changes
<1> USE DEF PhaseInv
<1>1. CASE ~Exists(id)
  <2>1. changes'[id] = changes[id]
    BY <1>1, EffectEvents DEF Executes, Executable, HasStatus
  <2> QED BY <1>1, <2>1, NewProposal DEF NothingBefore
<1>2. CASE Exists(id)
  <2> DEFINE p == proposals[id]
             q == proposals'[id]
  <2>1. /\ p \in Proposal /\ q \in Proposal /\ q.content = p.content
        /\ q.status = p.status \/ q.status \in Follows(p.status)
    BY <1>2, ProposalStep DEF Follow
  <2>2. changes[id] = IF p.status = "Executed" /\ Changes(p.content) THEN 1 ELSE 0
    BY <1>2, <2>1 DEF AppliedOnce, Changes
  <2>3. CASE Executes(id)
    <3>1. PICK j \in Job : Execute(j) /\ call[j].id = id /\ Executable(id)
      BY <2>3 DEF Executes
    <3>2. PICK result \in Execution(p.content) :
            /\ changes' = [changes EXCEPT ![id] = @ + result[1]]
            /\ IF result[2]
                 THEN proposals' = [proposals EXCEPT ![id].status = "Executed"]
                 ELSE UNCHANGED proposals
      BY <3>1 DEF Execute
    <3>3. p.status = "Passed"
      BY <3>1 DEF Executable, HasStatus
    <3>4. q.status = IF result[2] THEN "Executed" ELSE "Passed"
      BY <2>1, <3>2, <3>3 DEF TypeInv, GTypeOK, Proposal
    <3>5. p.content \in Content /\ "bad_feature" \notin p.content.parameters
      BY <2>1 DEF Proposal
    <3>6. result[1] = IF result[2] /\ Changes(p.content) THEN 1 ELSE 0
      BY <3>5, ExecutionEffect
    <3>7. changes[id] = 0
      BY <2>2, <3>3
    <3>8. changes'[id] = result[1]
      BY <3>2, <3>6, <3>7 DEF TypeInv, GTypeOK
    <3> HIDE DEF p, q
    <3> QED BY <2>1, <3>4, <3>6, <3>8 DEF q
  <2>4. CASE ~Executes(id)
    <3>1. changes'[id] = changes[id]
      BY <2>4, EffectEvents
    <3>2. CASE q.status = p.status
      BY <2>1, <2>2, <3>1, <3>2
    <3>3. CASE q.status # "Executed" /\ p.status # "Executed"
      BY <2>2, <3>1, <3>3
    <3>4. CASE Signs(id)
      <4>1. p.status = "Passed" /\ p.content.kind = "SoftwareUpgrade"
        BY <3>4 DEF Signs, SignUpgradeProposal, HasStatus
      <4>2. ~Changes(p.content)
        BY <4>1 DEF Changes
      <4> QED BY <2>1, <2>2, <3>1, <4>2
    <3>5. CASE OpensVoting(id)
      <4>1. p.status = "DiscussionPeriod" /\ q = [p EXCEPT !.status = "VotingPeriod"]
        BY <3>5 DEF OpensVoting, HasStatus
      <4>2. q.status = "VotingPeriod"
        BY <2>1, <4>1 DEF Proposal
      <4> QED BY <3>3, <4>1, <4>2
    <3>6. CASE TallyProposal(id)
      <4>1. p.status = "VotingPeriod"
        BY <3>6 DEF TallyProposal, HasStatus
      <4> QED BY <2>1, <3>2, <3>3, <4>1 DEF Follows
    <3>7. CASE Pauses(id)
      <4>1. p.status \in {"VotingPeriod", "Passed"}
        BY <3>7 DEF Pauses, EmergencyPauseVote, MayPause, HasStatus
      <4>2. q.status \in {p.status, "EmergencyPaused"}
        BY <2>1, <3>7 DEF Pauses, EmergencyPauseVote, TypeInv, GTypeOK, Proposal
      <4> QED BY <3>3, <4>1, <4>2
    <3> QED BY <1>2, <2>4, <3>2, <3>4, <3>5, <3>6, <3>7, ProposalEvents, NotInserted
  <2> QED BY <2>3, <2>4
<1> QED BY <1>1, <1>2

(* AppliedOnce: however executions, signatures, pauses and each other      *)
(* interleave, an executed proposal has changed the staking manager        *)
(* exactly once and any other not at all, unless it has a bad parameter    *)
(* (handle_execute_proposal, execute_proposal).                            *)
THEOREM Applied == Spec => []AppliedOnce
<1>1. Init => AppliedOnce
  BY DEF Init, AppliedOnce, Exists
<1>2. PhaseInv /\ AppliedOnce /\ [Next]_vars => AppliedOnce'
  BY AppliedOnceStep
<1> QED BY <1>1, <1>2, PhaseAlways, PTL DEF Spec

-----------------------------------------------------------------------------
(* What took effect was accepted. *)

(* Votes that come after the tally do not change what it counted. *)
LEMMA CarriedByFirst ==
  ASSUME NEW vs \in Seq(Vote), NEW v \in Vote, NEW t, Carried(t, vs)
  PROVE  Carried(t, Append(vs, v))
<1>1. /\ Len(vs) \in Nat /\ Len(Append(vs, v)) = Len(vs) + 1
      /\ \A i \in 1 .. Len(vs) : Append(vs, v)[i] = vs[i]
      /\ Append(vs, v) \in Seq(Vote)
  BY AppendProperties, LenProperties
<1>2. ASSUME NEW n \in 0 .. Len(vs)
      PROVE  SubSeq(Append(vs, v), 1, n) = SubSeq(vs, 1, n)
  <2>1. SubSeq(Append(vs, v), 1, n) = [i \in 1 .. n |-> Append(vs, v)[i]]
    BY <1>1
  <2>2. SubSeq(vs, 1, n) = [i \in 1 .. n |-> vs[i]]
    BY <1>1
  <2>3. \A i \in 1 .. n : Append(vs, v)[i] = vs[i]
    BY <1>1
  <2> QED BY <2>1, <2>2, <2>3
<1>3. \A n \in 0 .. Len(vs) : n \in 0 .. Len(Append(vs, v))
  BY <1>1
<1> QED BY <1>2, <1>3 DEF Carried

LEMMA PowerSplit ==
  ASSUME NEW vs \in Seq(Vote), NEW A, NEW B, A \cap B = {}
  PROVE  PowerOf(vs, A \cup B) = PowerOf(vs, A) + PowerOf(vs, B)
<1> DEFINE D(o) == {i \in DOMAIN vs : vs[i].option \in o}
           f == [i \in DOMAIN vs |-> vs[i].power]
<1>1. DOMAIN vs = 1 .. Len(vs) /\ Len(vs) \in Nat /\ \A i \in DOMAIN vs : vs[i] \in Vote
  BY LenProperties, ElementOfSeq
<1>2. IsFiniteSet(D(A)) /\ IsFiniteSet(D(B))
  <2>1. IsFiniteSet(DOMAIN vs)
    BY <1>1, FS_Interval
  <2>2. D(A) \subseteq DOMAIN vs /\ D(B) \subseteq DOMAIN vs
    OBVIOUS
  <2> QED BY <2>1, <2>2, FS_Subset
<1>3. \A i \in D(A) \cup D(B) : f[i] \in Int
  BY <1>1 DEF Vote
<1>4. D(A) \cap D(B) = {} /\ D(A \cup B) = D(A) \cup D(B)
  OBVIOUS
<1>5. SumFunctionOnSet(f, D(A) \cup D(B)) = SumFunctionOnSet(f, D(A)) + SumFunctionOnSet(f, D(B))
  <2>1. D(A) \cap D(B) = {}
    BY <1>4
  <2> HIDE DEF D, f
  <2> QED BY <1>2, <1>3, <2>1, SumDisjoint
<1> QED BY <1>4, <1>5 DEF PowerOf

(* A tally that lets a proposal pass is carried by the votes it counted. *)
LEMMA PassedIsCarried ==
  ASSUME NEW vs \in Seq(Vote), NEW s \in Nat, Outcome(Count(vs, s)) = "Passed"
  PROVE  Carried(Count(vs, s), vs)
<1> DEFINE t == Count(vs, s)
           total == PowerOf(vs, VoteOption)
<1>1. t \in TallyResult /\ total \in Nat
  BY CountType, OptionPower
<1>2. t # None /\ t.yes \in Nat /\ t.no \in Nat /\ t.abstain \in Nat /\ t.veto \in Nat /\ t.stake \in Nat
  BY <1>1, NotNone DEF TallyResult
<1>3. /\ t.yes = PowerOf(vs, {"Yes"}) /\ t.no = PowerOf(vs, {"No", "NoWithVeto"})
      /\ t.abstain = PowerOf(vs, {"Abstain"})
  BY DEF Count
<1>4. total = t.yes + t.no + t.abstain
  <2>1. PowerOf(vs, {"Yes"} \cup {"No", "NoWithVeto"}) = t.yes + t.no
    BY <1>3, PowerSplit
  <2>2. PowerOf(vs, ({"Yes"} \cup {"No", "NoWithVeto"}) \cup {"Abstain"}) = t.yes + t.no + t.abstain
    BY <1>3, <2>1, PowerSplit
  <2>3. ({"Yes"} \cup {"No", "NoWithVeto"}) \cup {"Abstain"} = VoteOption
    BY DEF VoteOption
  <2> QED BY <2>2, <2>3
<1>5. ~Vetoed(t) /\ QuorumReached(t) /\ 2 * t.yes > t.yes + t.no
  BY DEF Outcome, Accepted
<1> HIDE DEF t, total
<1>6. /\ t.stake > 0 /\ t.yes > t.no /\ 2 * t.veto < total
      /\ (t.yes + t.no + t.abstain) * 3 >= t.stake
  <2> DEFINE y == t.yes
             n == t.no
             a == t.abstain
             v == t.veto
             k == t.stake
  <2>1. /\ k > 0 /\ 2 * y > y + n
        /\ (y + n + a) * 1000 >= 334 * k /\ ~(v * 1000 > 334 * (y + n + a))
    BY <1>5 DEF Vetoed, QuorumReached
  <2>2. y \in Nat /\ n \in Nat /\ a \in Nat /\ v \in Nat /\ k \in Nat
    BY <1>2
  <2>3. y > n /\ 2 * v < y + n + a /\ (y + n + a) * 3 >= k
    <3> HIDE DEF y, n, a, v, k
    <3> QED BY <2>1, <2>2
  <2> QED BY <1>4, <2>1, <2>3
<1>7. SubSeq(vs, 1, Len(vs)) = vs /\ Len(vs) \in 0 .. Len(vs)
  BY SubSeqFull, LenProperties
<1> QED BY <1>2, <1>3, <1>4, <1>6, <1>7 DEF Carried, t, total

MajorityInv == VoteInv /\ EffectNeedsMajority /\ ExecutingIsCarried

(* Once a proposal is carried it stays so. *)
LEMMA CarriedStep ==
  ASSUME VoteInv, [Next]_vars, NEW id \in Id, Exists(id),
         Carried(proposals[id].tally, votes[id])
  PROVE  Carried(proposals[id].tally, votes[id])'
<1> USE DEF VoteInv, PhaseInv
<1>1. proposals'[id].tally = proposals[id].tally
  BY ProposalStep DEF Carried, Follow
<1>2. CASE votes'[id] = votes[id]
  BY <1>1, <1>2
<1>3. ASSUME NEW j \in Job, At(j, "vote", "verified"),
             votes'[id] = Append(votes[id], call[j].vote)
      PROVE  Carried(proposals'[id].tally, votes'[id])
  <2>1. votes[id] \in Seq(Vote) /\ call[j].vote \in Vote
    BY <1>3, CallFields DEF At, Voting, TypeInv, GTypeOK
  <2> QED BY <1>1, <1>3, <2>1, CarriedByFirst
<1> QED BY <1>2, <1>3, VoteEvents, NotInserted

LEMMA MajorityStep == MajorityInv /\ [Next]_vars => MajorityInv'
<1> SUFFICES ASSUME MajorityInv, [Next]_vars PROVE MajorityInv'
  OBVIOUS
<1> USE DEF MajorityInv
<1>1. VoteInv'
  BY CoverStep, OneVoteStep, PhaseStep DEF VoteInv
<1> USE DEF VoteInv, PhaseInv
<1>2. EffectNeedsMajority'
  <2> SUFFICES ASSUME NEW id \in Id,
                      \/ HasStatus(id, {"Passed", "Executed"})'
                      \/ changes'[id] > 0 \/ id \in activated'
               PROVE  Carried(proposals[id].tally, votes[id])'
    BY DEF EffectNeedsMajority
  <2>1. CASE ~Exists(id)
    <3>1. changes'[id] = 0 /\ id \notin activated'
      <4>1. ~Executes(id)
        BY <2>1 DEF Executes, Executable, HasStatus
      <4>2. ~ \E j \in Job : At(j, "execute", "executed") /\ call[j].id = id
        BY <2>1 DEF CallsAreAbout, At
      <4> QED BY <2>1, <4>1, <4>2, EffectEvents DEF NothingBefore
    <3>2. ~HasStatus(id, {"Passed", "Executed"})'
      BY <2>1, NewProposal DEF HasStatus
    <3> QED BY <3>1, <3>2
  <2>2. CASE Exists(id)
    <3>1. ASSUME Carried(proposals[id].tally, votes[id])
          PROVE  Carried(proposals[id].tally, votes[id])'
      BY <2>2, <3>1, CarriedStep
    <3>2. /\ proposals[id] \in Proposal
          /\ \/ proposals'[id].status = proposals[id].status
             \/ proposals'[id].status \in Follows(proposals[id].status)
      BY <2>2, ProposalStep DEF Follow
    <3>3. CASE changes'[id] > 0
      <4>1. CASE changes'[id] = changes[id]
        BY <3>1, <3>3, <4>1 DEF EffectNeedsMajority
      <4>2. CASE Executes(id)
        <5>1. HasStatus(id, {"Passed", "Executed"})
          BY <4>2 DEF Executes, Executable, HasStatus
        <5> QED BY <3>1, <5>1 DEF EffectNeedsMajority
      <4> QED BY <4>1, <4>2, EffectEvents
    <3>4. CASE id \in activated'
      <4>1. CASE id \in activated
        BY <3>1, <4>1 DEF EffectNeedsMajority
      <4>2. CASE \E j \in Job : At(j, "execute", "executed") /\ call[j].id = id
        BY <3>1, <4>2 DEF ExecutingIsCarried
      <4> QED BY <3>4, <4>1, <4>2, EffectEvents
    <3>5. CASE HasStatus(id, {"Passed", "Executed"})'
      <4>1. CASE HasStatus(id, {"Passed", "Executed"})
        BY <3>1, <4>1 DEF EffectNeedsMajority
      <4>2. CASE ~HasStatus(id, {"Passed", "Executed"})
        <5>1. proposals'[id].status = "Passed" /\ proposals[id].status = "VotingPeriod"
          BY <2>2, <3>2, <3>5, <4>2 DEF HasStatus, Follows, Proposal, ProposalStatus
        <5>2. TallyProposal(id)
          <6>1. ~OpensVoting(id) /\ ~Signs(id) /\ ~Executes(id)
            BY <5>1 DEF OpensVoting, Signs, SignUpgradeProposal, Executes, Executable, HasStatus
          <6>2. ASSUME Pauses(id)
                PROVE  proposals'[id].status \in {"VotingPeriod", "EmergencyPaused"}
            BY <3>2, <5>1, <6>2 DEF Pauses, EmergencyPauseVote, TypeInv, GTypeOK, Proposal
          <6> QED BY <2>2, <5>1, <6>1, <6>2, ProposalEvents, NotInserted
        <5> DEFINE t == Count(votes[id], bonded)
        <5>3. /\ proposals' = [proposals EXCEPT ![id].tally = t, ![id].status = Outcome(t)]
              /\ votes' = votes
          BY <5>2 DEF TallyProposal
        <5> HIDE DEF t
        <5>4. proposals'[id].tally = t /\ proposals'[id].status = Outcome(t)
          BY <3>2, <5>3 DEF TypeInv, GTypeOK, Proposal
        <5>5. votes[id] \in Seq(Vote) /\ bonded \in Nat
          BY DEF TypeInv, GTypeOK
        <5>6. Carried(t, votes[id])
          BY <5>1, <5>4, <5>5, PassedIsCarried DEF t
        <5> QED BY <5>3, <5>4, <5>6
      <4> QED BY <4>1, <4>2
    <3> QED BY <3>3, <3>4, <3>5
  <2> QED BY <2>1, <2>2
<1>3. ExecutingIsCarried'
  <2> SUFFICES ASSUME NEW k \in Job, At(k, "execute", "executed")'
               PROVE  Carried(proposals[call[k].id].tally, votes[call[k].id])'
    BY DEF ExecutingIsCarried
  <2>1. ASSUME NEW id \in Id, Exists(id), Carried(proposals[id].tally, votes[id])
        PROVE  Carried(proposals[id].tally, votes[id])'
    BY <2>1, CarriedStep
  <2>2. CASE call'[k] = call[k]
    <3>1. At(k, "execute", "executed") /\ call[k] \in Call
      BY <2>2 DEF At, TypeInv, GTypeOK
    <3>2. call[k].id \in Id
      BY <3>1, CallFields DEF At, Executing
    <3>3. Exists(call[k].id) /\ Carried(proposals[call[k].id].tally, votes[call[k].id])
      BY <3>1 DEF ExecutingIsCarried, CallsAreAbout, At
    <3>4. \E id \in Id : /\ id = call'[k].id /\ Exists(id)
                         /\ Carried(proposals[id].tally, votes[id])
      BY <2>2, <3>2, <3>3
    <3> QED BY <2>1, <3>4
  <2>3. ASSUME Execute(k), Executable(call[k].id), call'[k] = [call[k] EXCEPT !.at = "executed"]
        PROVE  Carried(proposals[call[k].id].tally, votes[call[k].id])'
    <3>1. call[k] \in Executing
      BY <2>3, CallFields DEF Execute, At, TypeInv, GTypeOK
    <3>2. call[k].id \in Id /\ call'[k].id = call[k].id
          /\ HasStatus(call[k].id, {"Passed", "Executed"})
      BY <2>3, <3>1 DEF Executing, Executable, HasStatus
    <3>3. \E id \in Id : /\ id = call'[k].id /\ Exists(id)
                         /\ Carried(proposals[id].tally, votes[id])
      BY <3>2 DEF EffectNeedsMajority, HasStatus
    <3> QED BY <2>1, <3>3
  <2>4. ASSUME NEW id \in Id, NEW a \in Account, NEW o \in Option, NEW n \in Power,
               CastVote(k, id, a, o, n)
        PROVE  FALSE
    <3>1. call'[k].op = "vote"
      BY <2>4 DEF CastVote, Start, TypeInv, GTypeOK
    <3> QED BY <3>1 DEF At
  <2>5. ASSUME NEW id \in Id, BeginExecute(k, id) PROVE FALSE
    <3>1. call'[k].at = "passed"
      BY <2>5 DEF BeginExecute, Start, TypeInv, GTypeOK
    <3> QED BY <3>1 DEF At
  <2> QED BY <2>2, <2>3, <2>4, <2>5, CallEvents DEF At
<1> QED BY <1>1, <1>2, <1>3

(* EffectNeedsMajority: whatever has an effect was passed by a tally of    *)
(* votes on record, with a quorum of the bonded stake, more ayes than noes *)
(* and less than half vetoes (tally_proposal, handle_execute_proposal).    *)
THEOREM Majority == Spec => []EffectNeedsMajority
<1>1. Init => MajorityInv
  <2> SUFFICES ASSUME Init PROVE MajorityInv
    OBVIOUS
  <2>1. VotesCovered /\ OneVotePerVoter
    BY DEF Init, VotesCovered, OneVotePerVoter, Exists, At
  <2>2. EffectNeedsMajority /\ ExecutingIsCarried
    BY DEF Init, EffectNeedsMajority, ExecutingIsCarried, HasStatus, Exists, At
  <2> QED BY <2>1, <2>2, InitPhase DEF MajorityInv, VoteInv
<1>2. MajorityInv => EffectNeedsMajority
  BY DEF MajorityInv
<1> QED BY <1>1, <1>2, MajorityStep, PTL DEF Spec

=============================================================================
