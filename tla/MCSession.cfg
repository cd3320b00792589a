CONSTANTS
  MaxPanes = 3
  MaxWorkspaces = 3
  MaxIds = 3
  MaxTabNumber = 2
  Addressees = {1}
SPECIFICATION Spec
INVARIANTS
  TypeOK
  SessionInvariant
  MailFollowsPane
  IdsNeverRetarget
PROPERTY FocusStays
CHECK_DEADLOCK FALSE
