SPECIFICATION PushdownSpec
CONSTANTS
  MaxNesting = 2
  SelectRequests <- MCRequests
  ColumnNames <- MCColumnNames
  TimestampPushdown = TRUE
INVARIANTS MandatoryIsWhole
CHECK_DEADLOCK FALSE
