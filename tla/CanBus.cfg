\* Two mailboxes that receive and one that sends, three frames out, two in,
\* two openings of the channel.
SPECIFICATION FairCanSpec
CONSTANTS
  Boxes = 2
  TxRoom = 1
  RxRoom = 1
  Ids = {0, 1, 3}
  Masks = {0, 2, 3}
  MaxSends = 3
  MaxArrivals = 2
  MaxSets = 2
  MaxOpens = 2
INVARIANTS
  CanTypeOK
  SendOrder
  FiledByFilter
  ToldPasses
PROPERTIES
  WaitingSent
CHECK_DEADLOCK FALSE
