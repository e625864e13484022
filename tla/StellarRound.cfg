SPECIFICATION RoundSpec
CONSTANTS
  NodeNum = 2
  Target = 2
  Supply = 2
  p1 = p1
  p2 = p2
  Poll <- TwoPolls
  MaxHeight = 5
  MaxFailures = 1
  OldReports <- SomeOldReports
INVARIANTS
  FileHasNoGap
  
  PolledRoundIsWritten
PROPERTIES
  DetectionSpec
  SeenRoundEnds
CHECK_DEADLOCK FALSE
