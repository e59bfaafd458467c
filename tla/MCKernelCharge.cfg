SPECIFICATION Spec
CONSTANTS
  Procs = {1, 2}
  Latency = 4
  MinGranularity = 2
  MaxRuntime = 8
  NCPU = 1
  TickModulus = 2
  MaxPid = 2
  MaxForkRuntime = 8
  Traps = {"fork"}
  KillPids = {}
  SleepTimes = {1}
PROPERTY ChargedOnce
