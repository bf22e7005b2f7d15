SPECIFICATION BSpec
CONSTANTS
  MAXSIZE = 7
  Lefts = {20}
  MaxHeld = 8
INVARIANT InitCounts
CHECK_DEADLOCK FALSE
