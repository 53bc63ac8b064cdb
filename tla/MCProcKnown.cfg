SPECIFICATION Spec
CONSTANTS
  NPROC = 3
  Cpu = {c0, c1}
  NoCpu = NoCpu
  MaxPid = 3
  KillPid = {0, 2, 3}
INVARIANT KilledNeverSleeps
PROPERTY KillNeedsProcess
