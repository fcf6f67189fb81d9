CONSTANTS
  Ends <- BothEnds
  Peer <- OtherEnd
  Ids <- SampleIds
  FirstId = "ServerAccept"
  BodySize <- SampleSize
  MaySend <- OneWay
  EchoIds <- Pings
  Echoer = "server"
  Disconnectors <- ClientOnly
  MayReset = TRUE
  MaxSends = 2
SPECIFICATION FairSpec
INVARIANT TypeOK
INVARIANT OneWriteOfTheFront
INVARIANT ChainNeverBreaks
INVARIANT FramesAligned
INVARIANT AlwaysReading
PROPERTY LinksAreChannels
PROPERTY SentArrives
PROPERTY CloseIsNoticed
CHECK_DEADLOCK FALSE
