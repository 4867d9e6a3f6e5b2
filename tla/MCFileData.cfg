CONSTANTS
  Procs = {p1, p2}
  Inodes = {root, i1, i2}
  Root = root
  DIRENT = 1
  Images <- MCImages
  NBLOCKS = 9
  BSIZE = 2
  NDIRECT = 1
  NINDIRECT = 1
  MAXOPBLOCKS = 6
  NFILE = 2
  NOFILE = 2
  MaxRefs = 2
  ReadCounts = {2}
  WriteCounts = {3}
  Junk = Junk
SPECIFICATION Spec
SYMMETRY Symmetry
INVARIANTS BlocksAccounted  BytesWritten
PROPERTY StoresBytes
