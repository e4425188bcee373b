SPECIFICATION FairSpec
CONSTANTS
  MaxEvents = 3
  Owners = {ann, eve}
  Reader = ann
  Limit = 2
  RingCap = 2
  MaxTicks = 2
  MaxDrops = 1
INVARIANT FramesInOrder
PROPERTIES FeedSpec UnreadPushed ViewSettles
