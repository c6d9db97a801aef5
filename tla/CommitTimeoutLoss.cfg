SPECIFICATION Spec
CONSTANTS
  a1 = a1
  a2 = a2
  b1 = b1
  NoCtx = NoCtx
  NoRollback = NoRollback
  Account <- MCAccount
  Home <- MCHome
  Genesis <- MCGenesis
  Amount = {1, 2}
  Tx <- MCTx
  MaxAttempts = 3
  MaxInputs = 3
  TimeoutAt = {"credit"}
  LogFailsAt = {}
INVARIANT
  FundsConserved
