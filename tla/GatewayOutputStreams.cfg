SPECIFICATION FairSpec
CONSTANTS
  v1 = v1
  v2 = v2
  Viewers <- ViewerPair
  MaxSessions = 2
  MaxChunks = 3
  PendingCap = 2
  Budget = 1
  RetainCap = 1
  GraceEnough = TRUE
  Leavers <- OneViewer
CHECK_DEADLOCK FALSE
INVARIANTS
  OutputTypeOK
  StreamsOrdered
  LateSubscribersGetTheTail
PROPERTIES
  StreamsEnd
