SPECIFICATION Spec
CONSTANTS
  CPUs = {0, 1}
  Procs = {1, 2}
  Logged = {2}
  MaxTick = 3
  MaxUnread = 1
  MixedPids = {2}
  MixedTicks = {0, 3}
  Radix = 2
  TIME_SLICE_STEP = 2
VIEW PrintedView
INVARIANTS ViewTypeOK NoPhantomActivity IntactShown
CHECK_DEADLOCK FALSE
