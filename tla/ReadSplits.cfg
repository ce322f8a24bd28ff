SPECIFICATION FairSpec
CONSTANTS
  Conns <- MCConns
  Rows <- MCRows
  Volume <- MCVolume
  RowsPerPage = 2
  BytesPerPage = 3
  QueueCap = 1
  ToResponseMayFail = TRUE
INVARIANTS NoSendOnClosed NothingLost FinalStatsExact TerminalIsLast
PROPERTIES Terminates PromiseKept
CHECK_DEADLOCK FALSE
