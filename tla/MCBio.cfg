CONSTANTS
  Procs = {p1, p2}
  NBUF = 3
  Blocks = {k1, k2, k3, k4}
  Values = {v0, v1}
  NoBlock = NoBlock
  None = None
  ReadErrors = FALSE
  MaxPinned = 1
SYMMETRY Symmetry
SPECIFICATION Spec
INVARIANTS SleepsForReason
PROPERTY StoresBlocks
