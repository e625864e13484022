SPECIFICATION FairSpec
CONSTANTS
  Rate = 2
  Duration = 3
  Repeat = 2
  Sleeps = {0, 2}
  Unit = 3
  MaxLag = 1
  MaxReply = 2
  Extra = 2
  MaxLost = 1
INVARIANTS
  ExactLoad
  PeriodAccounting
PROPERTIES
  RoundEnds
CHECK_DEADLOCK FALSE
