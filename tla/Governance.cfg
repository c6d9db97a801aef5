SPECIFICATION Spec
CONSTANTS
  a1 = a1
  a2 = a2
  w1 = w1
  w2 = w2
  j1 = j1
  j2 = j2
  None = None
  Job = {j1, j2}
  Account = {a1, a2}
  Proposer = {a1}
  Validator = {w1, w2}
  MaxProposals = 2
  Content <- MCContent
  Option = {"Yes", "Abstain", "NoWithVeto"}
  Power = {3}
  Snapshot <- MCSnapshot
  Bonded = {6}
  DiscussionBlocks = 1
  VotingBlocks = 1
  CooldownBlocks = 1
  MaxActive = 1
  UpgradeThreshold = 2
  MaxHeight = 3
  MaxCalls = 5
SYMMETRY Symmetric
CHECK_DEADLOCK FALSE
INVARIANTS
  VotesAreSound
  EffectNeedsMajority
  AppliedOnce
PROPERTY
  DecisionIsFinal
