SPECIFICATION TFSpec
CONSTANTS
  c1 = c1
  c2 = c2
  Nil = Nil
  Checker = {c1, c2}
  MaxBatches = 2
  CodeCount = 2
  MaxAttempts = 2
SYMMETRY Symmetric
INVARIANTS
  BackupCodesOnce
  SecondFactorAtUnlock
  ShownCodesWork
