SPECIFICATION Spec
CONSTANTS
  p1 = p1
  p2 = p2
  c1 = c1
  c2 = c2
  w1 = w1
  w2 = w2
  w3 = w3
  None = None
  Pin = {p1, p2}
  Caller = {c1, c2}
  WalletId = {w1, w2, w3}
  MaxPinAttempts = 3
  Duration = 1
  Timeout = 1
INVARIANTS
  LockedHoldsNoSession
  SessionFitsWallet
  GuessesBounded
PROPERTY
  IdleGetsLocked
