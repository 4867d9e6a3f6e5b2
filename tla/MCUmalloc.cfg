CONSTANTS
  HEAP = 2
  LIMIT = 11
  HSIZE = 8
  MINCORE = 4
  Requests = {0, 8, 25}
SPECIFICATION Spec
INVARIANTS HeapAccounted ListJoined GrowsWhenNeeded
PROPERTY CallsReturn
