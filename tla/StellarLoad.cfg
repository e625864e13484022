SPECIFICATION LoadSpec
CONSTANTS
  StartAccount = 2
  OpCount = 2
  BatchSize = 2
  Calls = 1
  Rates <- SomeRates
  ThreadNum = 2
  Duration = 2
  MaxFaults = 2
INVARIANTS
  LossIsContained
  LoadMeetsTarget
CHECK_DEADLOCK FALSE
