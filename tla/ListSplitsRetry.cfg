SPECIFICATION Spec
CONSTANTS
  Sources <- MCSources
  Selects <- MCColumn
  ChanCap = 2
  MaxRetries = 1
  SourceMayFail = FALSE
  DescriptionMayFail = FALSE
INVARIANT OneSplitPerTablet
