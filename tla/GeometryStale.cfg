\* Handlers and notifications that overtake each other; with Relaxed = {v1} the
\* relaxed stores of a viewer as well.  Also violated here: BufferFits.
SPECIFICATION Spec
CONSTANTS
  v1 = v1
  v2 = v2
  Viewers <- ViewerPair
  Relaxed = {}
  Sizes <- Crossed
  MaxChanges = 2
CHECK_DEADLOCK FALSE
INVARIANTS
  GeometryTypeOK
PROPERTIES
  ScreensAlwaysFollow
