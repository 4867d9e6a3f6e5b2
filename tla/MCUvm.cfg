CONSTANTS
  NPROC = 2
  NFRAMES = 14
  PGSIZE = 2
  NPTENTRIES = 3
  KERNBASE = 8
  UINT = 16
  Grows = {3}
  Shrinks = {1, 2, 7}
  MaxSbrks = 2
  Segments = {0, 1, 8}
SPECIFICATION Spec
INVARIANTS FramesAccounted ImageComplete
