SPECIFICATION Spec
CONSTANTS
  p1 = p1
  p2 = p2
  p3 = p3
  Procs = {p1, p2, p3}
  initproc = p1
  NPages = 11
  PGSIZE = 2
  WORD = 2
  WordModulus = 32
  IntModulus = 8
  Args = {3, 4, 7}
  FDs = {1, 2}
  Files = {1}
  Statuses = {7, 8}
  MaxPid = 3
SYMMETRY SlotSymmetry
INVARIANTS ResTypeOK PagesConserved NoVmPanic RefsExact FetchInBounds StatusKept
