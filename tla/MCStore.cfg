SPECIFICATION StoreSpec
CONSTANTS
  Proc = {p1, p2}
  NPAGES = 14
  Fan = 2
  Programs <- MCPrograms
  Grow <- MCGrow
  MaxKalloc = 8
  Inode = {i1, i2}
  NFILE = 2
  NOFILE = 1
  NBlocks = 5
  BSIZE = 2
  NDIRECT = 1
  NINDIRECT = 3
  MAXOPBLOCKS = 10
  BPB = 1
  Sizes = {1, 7}
  Faults = {3}
  p1 = p1
  p2 = p2
  entryA = entryA
  entryB = entryB
  i1 = i1
  i2 = i2
  b1 = b1
  b2 = b2
  v1 = v1
  v2 = v2
  NoVal = NoVal
  NoBlock = NoBlock
  Nobody = Nobody
  Zero = Zero
VIEW View
INVARIANTS PanicMeansStarved MemorySound InodesKept InodeLocksSafe BlocksAccounted ReadsBack
PROPERTIES LogImplementsAbs
CHECK_DEADLOCK FALSE
