SPECIFICATION FairSpec
CONSTANTS
  Rows = {r1, r2}
  Cells = {a, b}
  Blank = a
  Before = {b}
  Encodings = {"ansi", "semantic"}
  EventCap = 1
  MaxControl = 1
  MaxChanges = 2
INVARIANTS
  TypeOK
  BaselineIsWhatItWillShow
PROPERTIES
  ImplementsFrameStream
  Converges
  ShutdownIsRead
CHECK_DEADLOCK FALSE
