SPECIFICATION Spec
CONSTANTS
  Settings <- SomeSettings
  Results <- SomeResults
  NoReport = NoReport
  NoFile = NoFile
  Hundred = 1
  NodeNum = 3
  Zones <- SomeZones
  MaxRuns = 3
INVARIANTS
  DefaultDrawsAll
CHECK_DEADLOCK FALSE
