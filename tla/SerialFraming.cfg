SPECIFICATION FairFramingSpec
CONSTANTS
  Boards = {"m2", "a0"}
  Sizes = {2, 4}
  Record = 3
  Buffered = 2
  Room = 5
  MaxDown = 1
  MaxUp = 2
  MaxSessions = 2
INVARIANTS
  FramingTypeOK
  TakenWhole
PROPERTIES
  AllRead
CHECK_DEADLOCK FALSE
