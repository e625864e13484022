SPECIFICATION Spec
CONSTANTS
  Fraction = 3
  File <- MCFile
  Buffer <- MCBuffer
INVARIANTS
  StallsOnlyWhenLate
PROPERTIES
  KilledMonitorEnds
  CopiesAreWhole
