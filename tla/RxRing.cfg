\* A ring of three frames, every kind of mailbox.
SPECIFICATION FairRingSpec
CONSTANTS
  RingSize = 4
  Boards = {"m2", "a0", "a0high"}
  MaxFrames = 5
  MaxSets = 2
INVARIANTS
  RingTypeOK
  HookedIsFiltered
PROPERTIES
  ImplementsQueue
  FrameRead
CHECK_DEADLOCK FALSE
