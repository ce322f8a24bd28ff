SPECIFICATION FairSpec
CONSTANTS
  Conns <- MCOneConn
  Rows <- MCRowsLong
  Volume <- MCVolumeLong
  RowsPerPage = 1
  BytesPerPage = 0
  QueueCap = 1
  ToResponseMayFail = TRUE
PROPERTIES ExitStopsPublisher
CHECK_DEADLOCK FALSE
