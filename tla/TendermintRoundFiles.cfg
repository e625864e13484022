SPECIFICATION RoundSpec
CONSTANTS
  NodeNum = 2
  Tx <- TxNumbers
  MaxBlocks = 2
  MaxRestarts = 1
  ThreadNum = 2
  PerThread = 1
  Load = 2
  MaxLate = 1
  MaxBroken = 1
INVARIANTS
  RoundTypeOK
  SettledTimesByNode
  ThreadsEndedNoStaleTime
  NoOldReportIsCalculated
  ReadyRoundSucceeds
  LogMatchesChain
PROPERTIES
  LogsCatchUp
CHECK_DEADLOCK FALSE
