SPECIFICATION ProcessSpec
CONSTANTS
  Handlers = {h1}
  Texts = {t1}
  PageLimit = 1
  MaxQueries = 1
  Configured <- MCConfigured
  NRows = 4
  ChanCap = 2
  FetchMayFail = TRUE
INVARIANTS
  StopIsNotFatal StopDrains NothingSkipped
PROPERTIES
  StopEnds BothEnd
CHECK_DEADLOCK FALSE
