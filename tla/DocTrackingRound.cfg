SPECIFICATION FairSpec
CONSTANTS
  Rounds <- SmallRounds
  NodeNum = 2
  BatchSize = 2
  MaxTicks = 2
  Extra = 1
  Poll = {p1, p2}
  MaxFailures = 1
INVARIANTS
  TypeOK
  LoadIsRegistered
  CompletionSound
  ReportRows
PROPERTIES
  EvenRoundReturns
CHECK_DEADLOCK FALSE
