SPECIFICATION Spec
CONSTANTS
  Sources <- MCSources
  Selects <- MCSelects
  ChanCap = 2
  MaxRetries = 0
  SourceMayFail = TRUE
  DescriptionMayFail = FALSE
INVARIANT ErrorReported
