SPECIFICATION MSpec
CONSTANTS
  Proc = {p1, p2}
  NPAGES = 15
  Fan = 2
  Programs = {}
  Grow = {}
  MaxKalloc = 8
INVARIANT TrampolineMapped
CHECK_DEADLOCK FALSE
