SPECIFICATION LiveSpec
CONSTANTS
  NPROC = 3
  Cpu = {c0, c1}
  NoCpu = NoCpu
  MaxPid = 3
  KillPid = {3}
INVARIANTS
  StackExclusive
  NoLostWakeup
  NoOrphan
  NoPanic
  NoDeadlock
PROPERTIES
  InitReaps
