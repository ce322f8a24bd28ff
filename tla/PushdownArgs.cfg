SPECIFICATION PushdownSpec
CONSTANTS
  MaxNesting = 2
  SelectRequests <- MCRequests
  ColumnNames <- MCColumnNames
  TimestampPushdown = FALSE
INVARIANTS ArgsMatch
CHECK_DEADLOCK FALSE
