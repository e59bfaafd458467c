SPECIFICATION RQSpec
CONSTANTS
  Procs = {p1, p2, p3, p4}
  Latency = 4
  MinGranularity = 2
  MaxRuntime = 2
SYMMETRY Symmetry
INVARIANTS RQTypeOK QueueOrdered PeriodFollowsLoad SliceBounded
PROPERTY NoOvertaking
