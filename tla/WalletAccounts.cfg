SPECIFICATION Spec
CONSTANTS
  h1 = h1
  h2 = h2
  h3 = h3
  p1 = p1
  p2 = p2
  c1 = c1
  c2 = c2
  None = None
  Phrase = {h1, h2, h3}
  Pin = {p1, p2}
  Caller = {c1, c2}
  MaxAccounts = 2
SYMMETRY Symmetric
INVARIANTS
  KeysAreStored
  AccountsInOrder
