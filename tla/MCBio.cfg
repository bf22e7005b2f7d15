SPECIFICATION Spec
CONSTANTS
  Proc = {p1, p2, p3}
  Block = {b1, b2, b3}
  Value = {v1, v2}
  Nobody = nobody
  NoBlock = b0
  NBUF = 2
  RefMod = 8
  MaxPins = 1
SYMMETRY Symm
INVARIANTS BufferIsMine RefcntExact ReadsLatest
PROPERTIES ImplementsAbs
CHECK_DEADLOCK FALSE
