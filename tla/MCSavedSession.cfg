SPECIFICATION SavedSpec
CONSTANTS
  MaxPanes = 3
  MaxWorkspaces = 2
  MaxIds = 3
  MaxTabNumber = 2
  Addressees = {}
  MaxRequests = 3
  MaxProcesses = 2
INVARIANTS
  SavedTypeOK
  StopLosesNothing
PROPERTIES
  RestoresWhatWasSaved
  SavedInTheEnd
CHECK_DEADLOCK FALSE
