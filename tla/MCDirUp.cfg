SPECIFICATION DSpec
CONSTANTS
  p1 = p1
  p2 = p2
  a = a
  b = b
  Proc = {p1, p2}
  Nobody = Nobody
  NInodes = 3
  Names = {a, b}
  NINODE = 3
  Calls <- MCCalls
INVARIANT UpStaysAllocated
CHECK_DEADLOCK FALSE
