CONSTANTS
  Programs = {"NewServer", "Server"}
  Clients = {a, b}
  Master = 2
  Fds <- SomeFds
  Width = 8
  FdSetSize <- SomeSetSizes
  Backlog = 2
  BufferSize <- SomeBuffers
  TextSize = 2
  MessageSize = 6
  MaxSends = 1
  MaySelectFail = TRUE
  None = None
  Stranger = Stranger
SPECIFICATION FairSpec
INVARIANT TypeOK
INVARIANT MembersAreOpen
INVARIANT LoopReachesAll
INVARIANT NeverBlocks
INVARIANT OwnerKnows
INVARIANT HeardInOrder
PROPERTY AllAreServed
CHECK_DEADLOCK FALSE
