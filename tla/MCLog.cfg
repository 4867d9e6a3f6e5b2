CONSTANTS
  Procs = {p1, p2}
  Blocks = {b1, b2, b3}
  Vals = {v0, v1}
  MAXOPBLOCKS = 2
  LOGSIZE = 4
  Size = 4
  OPBLOCKS = 1
SPECIFICATION FairSpec
INVARIANTS NoPanic CleanMatchesDisk QuiescentDurable
PROPERTIES AtomicCommit SleepersWake
