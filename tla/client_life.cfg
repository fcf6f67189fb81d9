CONSTANTS
  TimeUnits = 2
  MaxSends = 2
  MaxBroadcasts = 1
  MaxConnects = 2
SPECIFICATION FairSpec
INVARIANT OwnTimes
INVARIANT ServerDownIsTrue
PROPERTY QuietAfterJoin
PROPERTY ServerLossEndsClient
PROPERTY PingIsAnswered
CHECK_DEADLOCK FALSE
