CONSTANTS
  Cpus = {c0, c1}
  Cpu0 = c0
  NoCpu = NoCpu
  Procs = {p, q}
  NoProc = NoProc
  Plain = {"a"}
  INPUT_BUF = 3
  WRAP = 6
  Readers = {p}
  Counts = {2}
  Mortal = {p}
SPECIFICATION Spec
INVARIANTS NoPanic InterruptsMatchContext SleepsForReason
PROPERTY KeepsLines
VIEW View
