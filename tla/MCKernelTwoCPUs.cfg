SPECIFICATION Spec
CONSTANTS
  Procs = {1, 2}
  Latency = 4
  MinGranularity = 2
  MaxRuntime = 2
  NCPU = 2
  TickModulus = 2
  MaxPid = 2
  MaxForkRuntime = 2
  Traps = {"fork", "exit", "kill", "sleep", "wait"}
  KillPids = {2}
  SleepTimes = {1}
VIEW LiveView
CHECK_DEADLOCK FALSE
INVARIANTS StackExclusive RunnableNotLost NoLostWakeup
