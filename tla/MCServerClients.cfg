SPECIFICATION Spec
CONSTANTS
  Clients = {c1, c2, c3}
  Terminals = {t1}
  Sizes = {wide, narrow}
  MinSize = min
SYMMETRY Symmetry
INVARIANTS
  TypeOK
  AttachmentsAgree
  TerminalsFit
  RemainingAreRedrawn
  NobodyAfterHandoff
