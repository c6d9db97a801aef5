SPECIFICATION FairSpec
CONSTANTS
  None = None
  Unit = 100
  Group = 10
  MaxRetries = 2
  MaxCalls = 2
  Typed <- MCTyped
  Accounts <- MCAccounts
  Stake = 120
  Rewards = 150
  FundAmount = 1000
  MinDeposit = 1000
INVARIANTS
  SuccessIsTrue
  SentAsConfirmed
  AppliedBounded
  ConfirmedIsCovered
PROPERTIES
  LoadingEnds
