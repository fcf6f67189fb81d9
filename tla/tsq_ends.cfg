CONSTANTS
  p1 = p1
  p2 = p2
  Producers <- TwoProducers
  Consumer = consumer
  Nobody = nobody
  PushEnds <- BothEnds
  PopEnds <- BothEnds
  BWait = TRUE
  NMaxMessages = 2
  MaxPushes = 4
SPECIFICATION Spec
SYMMETRY ProducerSymmetry
INVARIANT TypeOK
INVARIANT PopPrecondition
INVARIANT NoLockCycle
INVARIANT NothingLostOrDuplicated
