CONSTANTS
  p1 = p1
  p2 = p2
  g1 = g1
  g2 = g2
  PaneIds = {p1, p2}
  Groups = {g1, g2}
  Sizes = {1, 3, 6}
  MaxMessages = 3
  MaxBytes = 5
  MaxBody = 3
  MaxSeq = 4
SYMMETRY Symmetry
SPECIFICATION Spec
INVARIANTS
  TypeOK
  SeqAccounting
  NothingReadAhead
  CapsHold
  IndexesAgree
PROPERTY ImplementsMailboxes
