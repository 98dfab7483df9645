\* Also violated here: RawAfterWm and AttributedInOrder; one at a time.
SPECIFICATION Spec
CONSTANTS
  v1 = v1
  w1 = w1
  w2 = w2
  dev = dev
  ops = ops
  Viewers <- OneViewer
  Wms <- OneWm
  Names <- OneName
  MaxChannels = 2
  MaxSessions = 1
  MaxChunks = 2
  MaxTasks = 1
  QueueCap = 1
  Reattach = FALSE
  Attributed = TRUE
  Absent = Absent
CHECK_DEADLOCK FALSE
INVARIANTS
  InputTypeOK
  NeverDeaf
