SPECIFICATION FairHSpec
CONSTANTS
  Procs = {1, 2}
  Latency = 2
  MinGranularity = 1
  MaxRuntime = 2
  NCPU = 1
  TickModulus = 5
  MaxPid = 2
  MaxForkRuntime = 2
  Traps = {"fork", "sleep", "kill"}
  KillPids = {2}
  SleepTimes = {0, 2}
VIEW SleepView
PROPERTIES SleepOnTime SleepEnds
INVARIANTS PromptPreemption SliceRespected
