SPECIFICATION DexSpec
CONSTANTS
  x1 = x1
  x2 = x2
  pool = pool
  dA = dA
  dB = dB
  dLP = dLP
  c1 = c1
  c2 = c2
  NoMax = NoMax
  NoToken = NoToken
  Idle = Idle
  NoPool = NoPool
  NoOrder = NoOrder
  Call = {c1, c2}
  Address = {x1, x2, pool}
  Denom = {dA, dB, dLP}
  Pair = {pool}
  Creator <- MCCreator
  TokenA <- MCTokenA
  TokenB <- MCTokenB
  LpOf <- MCLpOf
  Treasury = x2
  Word = 65
  MinSupply = 1
  Supply = {47}
  Limit = {60}
  Amount = {5, 47}
  FeeRate = 2
  ProtocolRate = 1
  Basis = 4
  MaxCalls = 5
  MaxRestarts = 1
SYMMETRY Symmetric
CHECK_DEADLOCK FALSE
INVARIANTS
  SupplyCoversBalances
  PoolsAreCovered
  SharesAreBacked
  SharesHaveReserves
  RegisteredPairsOpen
PROPERTIES
  OnlyOverlapOverdraws
  TransfersLoseNothing
  SharesKeepTheirWorth
