\* Also violated here: EvictedAreMute; one at a time.
SPECIFICATION Spec
CONSTANTS
  v1 = v1
  w1 = w1
  w2 = w2
  dev = dev
  ops = ops
  Viewers <- OneViewer
  Wms = {}
  Names <- NamePair
  MaxChannels = 2
  MaxSessions = 1
  MaxChunks = 2
  MaxTasks = 2
  QueueCap = 1
  Reattach = TRUE
  Attributed = FALSE
  Absent = Absent
CHECK_DEADLOCK FALSE
INVARIANTS
  ForwarderFollowsBinding
