CONSTANTS
  Ends <- BothEnds
  Peer <- OtherEnd
  Ids <- SampleIds
  FirstId = "ServerAccept"
  BodySize <- SampleSize
  MaySend <- OneWay
  EchoIds <- NoIds
  Echoer = "server"
  Disconnectors <- ClientOnly
  MayReset = FALSE
  MaxSends = 2
SPECIFICATION Spec
INVARIANT WholeMessages
CHECK_DEADLOCK FALSE
