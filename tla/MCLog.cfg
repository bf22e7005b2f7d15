SPECIFICATION Spec
CONSTANTS
  Proc = {p1, p2}
  Block = {b1, b2}
  Value = {v1, v2}
  NoVal = NoVal
  NoBlock = NoBlock
  MAXOPBLOCKS = 2
  LOGSIZE = 4
  NLOG = 3
  RefMod = 8
  CachePressure = TRUE
  MaxCrash = 2
SYMMETRY Symm
INVARIANTS CommitAlone SpaceReserved PanicsOnlyIfFull NoLostUpdate
PROPERTIES CommitIsAtomic
CHECK_DEADLOCK FALSE
