SPECIFICATION RoundSpec
CONSTANTS
  Consensus = "raft"
  NodeNum = 2
  Target = 2
  Supply = 2
  p1 = p1
  p2 = p2
  p3 = p3
  Poll <- OnePoll
  MaxHeight = 2
  MaxFailures = 0
  Rate = 2
  Duration = 1
  Settings <- OneThread
  Miner = 0

INVARIANTS
  LogsReachReport
CHECK_DEADLOCK FALSE
