SPECIFICATION FairSpec
CONSTANTS
  small = small
  large = large
  MaxChunks = 5
  PipeCap = 2
  PendingCap = 2
  Budget = 3
  DrainBound = 2
  Sizes <- OneSize
  NoSize = NoSize
  Ops = {"screen", "close"}
CHECK_DEADLOCK FALSE
PROPERTIES
  BurstsGoOn
  ExitHeard
