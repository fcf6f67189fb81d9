CONSTANTS
  Nil = Nil
  Kinds <- AllKinds
  MayVanish = FALSE
  MayDeny = FALSE
  MaxConns = 1
  MaxMessages = 1
SPECIFICATION Spec
INVARIANT ReportedIsRemoved
CHECK_DEADLOCK FALSE
