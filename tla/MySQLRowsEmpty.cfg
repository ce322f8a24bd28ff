SPECIFICATION FairSpec
CONSTANTS
  NRows = 2
  ChanCap = 2
  FetchMayFail = FALSE
INVARIANT EmptyMeansEmpty
CHECK_DEADLOCK FALSE
