SPECIFICATION Spec
CONSTANTS
  v1 = v1
  v2 = v2
  Viewers <- ViewerPair
  Relaxed = {v1}
  Sizes <- Crossed
  MaxChanges = 2
CHECK_DEADLOCK FALSE
INVARIANTS
  FitsEveryone
  ResizeOwed
  NobodyLeftBehind
PROPERTIES
  PtyFollows
  ScreensFollow
