SPECIFICATION LiveSpec
CONSTANTS
  p1 = p1
  p2 = p2
  c1 = c1
  h0 = h0
  h1 = h1
  i1 = i1
  x = x
  b1 = b1
  v1 = v1
  None = none
  Nobody = nobody
  NoIrq = NoIrq
  NoVal = NoVal
  NoBlock = NoBlock
  a = a
PROPERTIES EveryoneServed
CHECK_DEADLOCK FALSE
