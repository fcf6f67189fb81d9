CONSTANTS
  p1 = p1
  p2 = p2
  Producers <- TwoProducers
  Consumer = consumer
  Nobody = nobody
  PushEnds <- Back
  PopEnds <- Front
  BWait = TRUE
  NMaxMessages = 2
  MaxPushes = 4
SPECIFICATION FairSpec
PROPERTY ChannelSpec
PROPERTY WakeupDrains
