CONSTANTS
  Nil = Nil
  Kinds <- BroadcastsOnly
  MayVanish = FALSE
  MayDeny = FALSE
  MaxConns = 2
  MaxMessages = 1
SPECIFICATION Spec
PROPERTY IterationUndisturbed
CHECK_DEADLOCK FALSE
