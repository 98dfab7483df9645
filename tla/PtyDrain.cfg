SPECIFICATION FairSpec
CONSTANTS
  small = small
  large = large
  MaxChunks = 4
  PipeCap = 2
  PendingCap = 4
  Budget = 3
  DrainBound = 1
  Sizes <- OneSize
  NoSize = NoSize
  Ops = {"read"}
CHECK_DEADLOCK FALSE
PROPERTIES
  DrainReturns
