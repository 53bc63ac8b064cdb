SPECIFICATION LiveSpec
CONSTANTS
  NPROC = 2
  Cpu = {c0, c1}
  NoCpu = NoCpu
  MaxPid = 3
  KillPid = {1, 2, 3}
PROPERTIES
  RunnableRuns
  KilledExits
