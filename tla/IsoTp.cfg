\* Two ECUs, two conversations of any kind, rings of two frames, blocks of two.
SPECIFICATION FairIsoSpec
CONSTANTS
  Boxes = 2
  RingCap = 2
  RxBlock = 2
  Radix = 16
  SnMod = 3
  Lens = {9, 23, 28}
  SendLens = {23}
  FlowIds = {0, 1}
  AppBlocks = {1, 2}
  EcuBlocks = {0, 1}
  MaxMsgs = 2
  MaxSends = 2
  MaxSets = 2
  MaxTalks = 2
  MaxStrays = 1
INVARIANTS
  IsoTypeOK
  NoOverrun
  DeliveredWhole
  BlockAnswered
  ConfirmedOnce
  BlockHonoured
PROPERTIES
  BothEnd
CHECK_DEADLOCK FALSE
