SPECIFICATION Spec
CONSTANTS
  Proc = {p1, p2}
  init = p1
  NFILE = 3
  NOFILE = 2
  Inode = {"root", "x", "y"}
  root = "root"
  Files <- MCFiles
  NBlocks = 8
  BSIZE = 2
  NDIRECT = 1
  NINDIRECT = 2
  BPB = 1
  MAXOPBLOCKS = 6
  Sizes = {1, 4}
  MaxCalls = 5
CHECK_DEADLOCK FALSE
INVARIANTS RefsExact BlocksSound ContentIsWritten OpFits
