SPECIFICATION Spec
CONSTANTS
  w1 = w1
  w2 = w2
  Windows = {w1}
  Task <- MCTask
  Delay = {1, 2}
  NoTime = NoTime
  NoId = NoId
  Debounce = 1
  Ttl = 2
  SnapTimeout = 2
  Outline = 1
  Capacity = 1
  MaxTime = 3
  MaxId = 2
CHECK_DEADLOCK FALSE
PROPERTIES
  OnlyDragsTimeOut
