SPECIFICATION RoundSpec
CONSTANTS
  Consensus = "raft"
  NodeNum = 2
  Target = 3
  Supply = 3
  p1 = p1
  p2 = p2
  p3 = p3
  Poll <- ThreePolls
  MaxHeight = 3
  MaxFailures = 1
  Rate = 3
  Duration = 1
  Settings <- OtherSettings
  Miner = 0
SYMMETRY PollSymmetry
INVARIANTS
  RoundTypeOK
  NothingBelowStart
  ReportRows
  ReturnedLoadIsWhole
  WrittenReportExact
  PolledRoundIsWritten
PROPERTIES
  NodeZeroRowNeverFails
  DetectionSpec
CHECK_DEADLOCK FALSE
