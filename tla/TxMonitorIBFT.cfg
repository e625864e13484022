SPECIFICATION FairSpec
CONSTANTS
  Consensus = "quorum"
  NodeNum = 2
  Target = 2
  Supply = 2
  p1 = p1
  p2 = p2
  Poll <- TwoPolls
  MaxHeight = 3
  MaxFailures = 1
INVARIANTS
  PolledBlocksAreInRange
PROPERTIES
  RoundReturns
CHECK_DEADLOCK FALSE
