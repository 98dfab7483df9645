SPECIFICATION Spec
CONSTANTS
  a = a
  p = p
  Terms <- MCTerms
  Panels <- MCPanels
  Dragged <- MCTerms
  Window <- MCWindow
  NoWindow = NoWindow
  NoTree = NoTree
  MaxVoid = 2
VIEW WhatTells
INVARIANT WindowTypeOK StackingOrder
PROPERTY PlaceKept RingKept
