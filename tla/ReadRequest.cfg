SPECIFICATION FairSpec
CONSTANTS
  Conns <- MCConns
  Splits <- MCSplits
  StorageMayFail = TRUE
INVARIANT SuccessIsComplete
INVARIANT OneByOne
INVARIANT ErrorIsLast
INVARIANT RecordsAreReal
PROPERTY Terminates
