CONSTANTS
  Procs = {p1, p2}
  NINODES = 3
  Names = {"a", "x"}
  Calls <- TreeCalls
SPECIFICATION Spec
INVARIANT NoCircularWait
CHECK_DEADLOCK FALSE
