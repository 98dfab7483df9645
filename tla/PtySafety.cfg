SPECIFICATION Spec
CONSTANTS
  small = small
  large = large
  MaxChunks = 5
  PipeCap = 2
  PendingCap = 2
  Budget = 3
  DrainBound = 2
  Sizes <- TwoSizes
  NoSize = NoSize
  Ops = {"screen", "read", "final", "close"}
CHECK_DEADLOCK FALSE
INVARIANTS
  LossIsWholeBurst
  ExitedOnce
  NoLostWakeup
  ResizeNotStarved
