SPECIFICATION Spec
CONSTANTS
  Proc = {p1, p2, p3}
  Byte = {x, y}
  Nobody = nobody
  PIPESIZE = 2
  CountMod = 4
  MaxN = 2
SYMMETRY Symm
INVARIANTS NotFreedInUse OpenUntilLastClose SleepsOnlyIfBlocked EofIsFinal
PROPERTIES ImplementsAbs
CHECK_DEADLOCK FALSE
