SPECIFICATION Spec
CONSTANTS
  d1 = d1
  d2 = d2
  v1 = v1
  v2 = v2
  j1 = j1
  j2 = j2
  Free = Free
  NoValidator = NoValidator
  Job = {j1, j2}
  Delegator = {d1, d2}
  Validator = {v1, v2}
  Funds <- MCFunds
  ConsensusStake <- MCConsensusStake
  SelfStake = {1, 2}
  Commission = {5, 50}
  Amount = {1, 3}
  SlashPercent = {80}
  JailBlocks = 1
  MinStake = 2
  MaxDelegators = 1
  MissThreshold = 1
  UnbondingBlocks = 1
  RewardRate = 150
  MaxHeight = 2
  MaxRequests = 3
SYMMETRY Symmetric
CHECK_DEADLOCK FALSE
INVARIANTS
  TokensAccountedFor
  StakeMatchesDelegations
  TotalNeverOverstated
  OnlyLockCycleBlocks
PROPERTY
  RewardsCoverHeldStake
