SPECIFICATION Spec
CONSTANTS
  PaneIds = {home, moved}
  Home = home
  Sizes = {1}
  MaxMessages = 2
  MaxBytes = 2
  MaxBody = 1
  MaxSeq = 2
  MaxEvents = 8
  MaxEventSeq = 4
  Readers = {}
INVARIANTS
  DeliveredFiresEvent
CHECK_DEADLOCK FALSE
