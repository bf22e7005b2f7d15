SPECIFICATION UserSpec
CONSTANTS
  NPROC = 4
  Nobody = nobody
  Killable = {2}
INVARIANTS ChildrenAwaited LineParsed PipelinesRun HeapIntact BuddiesIntact LinesFiltered PrintsPrimes ImageReadsBack StringsKept
PROPERTIES FreedWhenDone
CHECK_DEADLOCK FALSE
