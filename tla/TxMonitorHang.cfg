SPECIFICATION FairSpec
CONSTANTS
  Consensus = "raft"
  NodeNum = 1
  Target = 2
  Supply = 2
  p1 = p1
  p2 = p2
  Poll <- OnePoll
  MaxHeight = 2
  MaxFailures = 0
PROPERTIES
  AllDoneIsNoticed
CHECK_DEADLOCK FALSE
