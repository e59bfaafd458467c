SPECIFICATION Spec
CONSTANTS
  Procs = {1, 2}
  Latency = 4
  MinGranularity = 2
  MaxRuntime = 2
  NCPU = 2
  TickModulus = 2
  MaxPid = 2
  MaxForkRuntime = 2
  Traps = {"fork"}
  KillPids = {}
  SleepTimes = {1}
CHECK_DEADLOCK FALSE
INVARIANT NoCircularWait
