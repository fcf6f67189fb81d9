CONSTANTS
  HeaderSize = 2
  BufferSize = 6
  DataSizes <- SomeDataSizes
  PacketSizes <- SomePacketSizes
  MaxClients = 2
  MaxPackets = 2
  MaxSubmitted = 2
  MaxErrors = 1
SPECIFICATION FairSpec
INVARIANT TypeOK
INVARIANT EachUnitOnce
INVARIANT UnbatchedIsIntact
INVARIANT NoWholePacketWaits
PROPERTY WaitingIsSent
CHECK_DEADLOCK FALSE
