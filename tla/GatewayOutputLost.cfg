\* Also violated here, in its place: ExitEndsStreams, and the invariants
\* OnlyBoundAreSubscribed, NothingTruncated and NewestRetained.
SPECIFICATION FairLockSpec
CONSTANTS
  v1 = v1
  v2 = v2
  Viewers <- OneViewer
  MaxSessions = 1
  MaxChunks = 3
  PendingCap = 2
  Budget = 1
  RetainCap = 1
  GraceEnough = TRUE
  Leavers <- OneViewer
CHECK_DEADLOCK FALSE
PROPERTIES
  KilledStreamsEnd
