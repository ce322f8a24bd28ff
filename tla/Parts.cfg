SPECIFICATION PartsSpec
CONSTANTS
  Columns <- MCColumns
  MaxRows = 2
  SelectRequests <- MCRequests
  ColumnNames <- MCColumnNames
  TimestampPushdown = TRUE
  MaxNesting = 2
  MaxDepth = 2
  Keys = {k1, k2}
  Fields = {f1, f2}
  CountDocs = 1
  MaxWrites = 1
  BsonTypes <- MCBsonTypes
  CountSample = 3
  MaxDocuments = 2
  Indices <- MCIndices
  ResultSets <- MCResultSets
  MaxAttempts = 2
  Handlers = {h1, h2}
  Texts = {t1}
  PageLimit = 1
  MaxQueries = 2
  CallIds = {c1, c2}
  ConfigFiles <- MCConfigFiles
  Recorders = {r1, r2}
  Series <- MCSeries
  LebBase = 2
  FrameLength = 5
  MaxRecords = 2
  Listings <- MCListings
  TestCases = 2
  CaseNames <- MCCaseNames
  MaxScenarios = 2
  ColumnShards = {"s1", "s2"}
  ShardRows <- MCShardRows
  MaxRepeats = 1
INVARIANTS
  SchemaIsReadable CellsAreExact FilterIsFaithful
  RowsAreExact SampleGivesSchema DocumentCells MappingIsKept
  ReadIsWhole ConnectionsReleased
  ListingSkipsNothing RunningHasHandler ConnectionComesBack
  FailureIsReported CallsAreCounted ConfigIsUsable ScrapeIsExact
  ToolsAreExact
CHECK_DEADLOCK FALSE
