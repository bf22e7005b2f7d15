SPECIFICATION Spec
CONSTANTS
  Proc = {p1, p2}
  Block = {b1, b2}
  Value = {v1, v2}
  NoVal = NoVal
  NoBlock = NoBlock
  MAXOPBLOCKS = 2
  LOGSIZE = 4
  NLOG = 4
  RefMod = 8
  CachePressure = TRUE
  MaxCrash = 1
SYMMETRY Symm
INVARIANT LoggedBlocksStayCached
