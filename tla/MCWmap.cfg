CONSTANTS
  PGSIZE = 2
  NPTENTRIES = 2
  WMAPBASE = 8
  KERNBASE = 16
  UINT = 32
  MAX_WMMAP_INFO = 3
  Frames = {1, 2, 3}
  Fixed <- AnyFixed
  Lengths = {1, 2, 3, 4}
  NewSizes = {2, 3, 4}
  OldSizes = {0, 3, 4, 6}
SPECIFICATION Spec
INVARIANTS TableOK PagesInMappings FramesAccounted
CONSTRAINT FramesKnown
