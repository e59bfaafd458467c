SPECIFICATION Spec
CONSTANTS
  Procs = {1, 2, 3}
  Latency = 4
  MinGranularity = 2
  MaxRuntime = 2
  NCPU = 1
  TickModulus = 2
  MaxPid = 3
  MaxForkRuntime = 2
  Traps = {"fork", "exit", "wait", "kill", "sleep", "other", "device", "fault"}
  KillPids = {0, 2}
  SleepTimes = {1}
VIEW LiveView
INVARIANTS KTypeOK NoSchedPanic NoOrphans NoLostWakeup
