SPECIFICATION Spec
CONSTANTS
  PaneIds = {home, moved}
  Home = home
  Sizes = {1}
  MaxMessages = 2
  MaxBytes = 2
  MaxBody = 2
  MaxSeq = 2
  MaxEvents = 1
  MaxEventSeq = 1
  Readers = {r1}
INVARIANTS
  TypeOK
  ReadOnlyWhatWasShown
PROPERTIES
  WaitPrintsUnread
  UnreadEndsWait
  WaitEnds
CHECK_DEADLOCK FALSE
