SPECIFICATION Spec
CONSTANTS
  Sources <- MCSources
  Selects <- MCSelects
  ChanCap = 1
  MaxRetries = 1
  SourceMayFail = TRUE
  DescriptionMayFail = TRUE
INVARIANT CompleteUnlessFailed
INVARIANT ErrorIsLast
INVARIANT NoOrphans
PROPERTY Terminates
