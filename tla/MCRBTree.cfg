SPECIFICATION Spec
CONSTANTS
  Procs = {p1, p2, p3, p4, p5, p6, p7, p8, p9, p10}
  Null = Null
  Latency = 4
  MinGranularity = 2
  MaxRuntime = 2
VIEW ShapeView
INVARIANTS RBTypeOK RedBlack MinCached SearchTree
PROPERTIES ImplementsRunQueue RebalancingEnds
