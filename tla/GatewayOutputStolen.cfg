SPECIFICATION Spec
CONSTANTS
  v1 = v1
  v2 = v2
  Viewers <- ViewerPair
  MaxSessions = 1
  MaxChunks = 2
  PendingCap = 3
  Budget = 2
  RetainCap = 2
  GraceEnough = TRUE
  Leavers = {}
CHECK_DEADLOCK FALSE
INVARIANTS
  NothingMissed
