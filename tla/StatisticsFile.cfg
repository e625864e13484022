SPECIFICATION Spec
CONSTANTS
  Settings <- SomeSettings
  Results <- SomeResults
  NoReport = NoReport
  NoFile = NoFile
  Hundred = 1
  NodeNum = 3
  Zones <- SomeZones
  MaxRuns = 4
INVARIANTS
  FileBeginsOnce
  NodesAreAddressed
  AllRatesCalculated
  BenchmarkCalculated
  FiguresAgree
CHECK_DEADLOCK FALSE
