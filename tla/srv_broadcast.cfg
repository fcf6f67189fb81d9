CONSTANTS
  Nil = Nil
  Kinds <- AllKinds
  MayVanish = TRUE
  MayDeny = TRUE
  MaxConns = 2
  MaxMessages = 1
SPECIFICATION FairSpec
INVARIANT TypeOK
INVARIANT NoHoles
INVARIANT BackIsNewcomer
INVARIANT EachItsOwnId
INVARIANT BroadcastReachesAll
INVARIANT ToldInOrder
PROPERTY OnlyDeadOrLateLeave
PROPERTY DeadIsSwept
PROPERTY KeepsAccepting
CHECK_DEADLOCK FALSE
