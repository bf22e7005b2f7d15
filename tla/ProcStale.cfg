SPECIFICATION Spec
CONSTANTS
  NPROC = 4
  Nobody = nobody
  Killable = {}
INVARIANT StaleParentHarmless
CHECK_DEADLOCK FALSE
