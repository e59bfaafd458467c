SPECIFICATION FairSpec
CONSTANTS
  Procs = {1, 2, 3}
  Latency = 4
  MinGranularity = 2
  MaxRuntime = 12
  NCPU = 1
  TickModulus = 2
  MaxPid = 3
  MaxForkRuntime = 2
  Traps = {"fork", "kill"}
  KillPids = {2}
  SleepTimes = {}
VIEW RelativeView
PROPERTIES Dispatched KilledExits
INVARIANT FairSpread
