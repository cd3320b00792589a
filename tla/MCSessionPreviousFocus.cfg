CONSTANTS
  MaxPanes = 2
  MaxWorkspaces = 2
  MaxIds = 4
  MaxTabNumber = 2
  Addressees = {}
SPECIFICATION Spec
INVARIANTS
  PreviousFocusInPlace
CHECK_DEADLOCK FALSE
