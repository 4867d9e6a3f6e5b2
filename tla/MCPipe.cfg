CONSTANTS
  Readers = {r1}
  Writers = {w1, w2}
  Killable = {r1, w1}
  Bytes = {b0, b1}
  NoByte = NoByte
  NoOwner = NoOwner
  PIPESIZE = 2
  UINT = 4
  Lens = {1, 3}
SPECIFICATION FairSpec
INVARIANTS SleepsForReason NoUseAfterFree
PROPERTIES DeliversInOrder ClosedEndReturns
CHECK_DEADLOCK FALSE
