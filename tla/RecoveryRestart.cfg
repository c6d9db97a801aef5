SPECIFICATION RSpec
CONSTANTS
  a = a
  b = b
  NoCtx = NoCtx
  NoRollback = NoRollback
  NoBlock = NoBlock
  Account <- MCAccount
  Home <- MCHome
  Genesis <- MCGenesis
  Amount = {1, 2}
  Tx <- MCTx
  MaxAttempts = 3
  MaxInputs = 2
  TimeoutAt = {}
  LogFailsAt = {}
  CrashAt = {"idle", "batch", "take", "start", "preparing", "lock", "validate", "proof", "prepared", "aborting", "rollback"}
  MaxCrashes = 2
  MaxBlocks = 3
  SaveMayFail = TRUE
  ClockMaySetBack = FALSE
  OffChain = TRUE
CHECK_DEADLOCK FALSE
PROPERTY RestartRestores
