CONSTANTS
  NPROC = 3
  Cpus = {c0, c1}
  MaxPid = 3
  KillArgs = {2}
  MaxSleep = 1
SPECIFICATION FairSpec
INVARIANTS RunsOnOneCpu ParentAlive NoMissedWakeup
PROPERTIES KilledExits SleepEnds
