SPECIFICATION Spec
CONSTANTS
  Procs = {p1, p2}
  Null = Null
  NCPU = 2
  Addrs = {0, 1}
VIEW LiveView
SYMMETRY Symmetry
INVARIANTS InterruptsTypeOK NoTrapPanic VectorMatchesMode OwnIdentity InterruptStateKept
PROPERTY ResumesWhereInterrupted
