CONSTANTS
  HeaderSize = 2
  BufferSize = 6
  DataSizes <- SomeDataSizes
  PacketSizes <- SomePacketSizes
  MaxClients = 1
  MaxPackets = 2
  MaxSubmitted = 0
  MaxErrors = 1
SPECIFICATION Spec
INVARIANT HandedOnce
CHECK_DEADLOCK FALSE
