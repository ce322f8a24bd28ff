SPECIFICATION FairSpec
CONSTANTS
  Conns <- MCConns
  Rows <- MCRowsOversized
  Volume <- MCVolumeOversized
  RowsPerPage = 0
  BytesPerPage = 3
  QueueCap = 0
  ToResponseMayFail = TRUE
INVARIANTS NoGap PageStatsExact
PROPERTIES Terminates
CHECK_DEADLOCK FALSE
