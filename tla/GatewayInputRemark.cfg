SPECIFICATION Spec
CONSTANTS
  v1 = v1
  w1 = w1
  w2 = w2
  dev = dev
  ops = ops
  Viewers <- OneViewer
  Wms <- WmPair
  Names <- OneName
  MaxChannels = 1
  MaxSessions = 1
  MaxChunks = 1
  MaxTasks = 1
  QueueCap = 1
  Reattach = FALSE
  Attributed = TRUE
  Absent = Absent
SYMMETRY WmSymmetry
CHECK_DEADLOCK FALSE
INVARIANTS
  SuppressedForWm
