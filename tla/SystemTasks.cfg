SPECIFICATION Spec
CONSTANTS
  w1 = w1
  w2 = w2
  Windows = {w1, w2}
  Task <- MCTask
  Delay = {1, 2}
  NoTime = NoTime
  NoId = NoId
  Debounce = 1
  Ttl = 2
  SnapTimeout = 2
  Outline = 1
  Capacity = 1
  MaxTime = 4
  MaxId = 3
SYMMETRY Symmetry
CHECK_DEADLOCK FALSE
INVARIANTS
  TransientsEnd
PROPERTIES
  IsTimers
  SnapsAfterRest
