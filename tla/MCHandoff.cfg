SPECIFICATION OldRunsSpec
CONSTANTS
  Terminals = {a, b}
  MaxAttempts = 2
  MaxOutput = 2
INVARIANTS
  TypeOK
  PanesSurvive
  SocketsFollow
PROPERTIES
  ImplementsTransfer
  HandoffEnds
  NobodyIsLeftWaiting
CHECK_DEADLOCK FALSE
