CONSTANTS
  Procs = {p1, p2}
  NINODES = 3
  Names = {"a", "x"}
  Calls <- TreeCalls
SPECIFICATION Spec
SYMMETRY Symmetry
INVARIANTS RefsExact 
PROPERTY FreedUnreferenced
CHECK_DEADLOCK FALSE
