SPECIFICATION Spec
CONSTANTS
  v1 = v1
  w1 = w1
  w2 = w2
  dev = dev
  ops = ops
  Viewers <- OneViewer
  Wms <- WmPair
  Names <- OneName
  MaxChannels = 2
  MaxSessions = 2
  MaxChunks = 2
  MaxTasks = 2
  QueueCap = 1
  Reattach = FALSE
  Attributed = TRUE
  Absent = Absent
SYMMETRY WmSymmetry
CHECK_DEADLOCK FALSE
INVARIANTS
  InputInOrder
  RawAfterBoundWm
