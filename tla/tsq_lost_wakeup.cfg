CONSTANTS
  p1 = p1
  p2 = p2
  Producers <- OneProducer
  Consumer = consumer
  Nobody = nobody
  PushEnds <- Back
  PopEnds <- Front
  BWait = TRUE
  NMaxMessages = 5
  MaxPushes = 2
SPECIFICATION FairSpec
PROPERTY ArrivedIsHandled
