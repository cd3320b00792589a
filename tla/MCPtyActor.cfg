SPECIFICATION FairSpec
CONSTANTS
  Tasks = {a, b}
  DataCap = 1
  MaxInputs = 2
  MaxAnswers = 1
  MaxCalls = 2
INVARIANTS
  TypeOK
  AcceptedIsDelivered
  PauseHoldsAndEnds
PROPERTIES
  WriteCallEnds
CHECK_DEADLOCK FALSE
