\* Also violated here, as INVARIANT: NoGhostLeaf and NothingLost; one at a time.
SPECIFICATION Spec
CONSTANTS
  a = a
  p = p
  Terms <- MCTerms
  Panels <- MCPanels
  Dragged <- MCTerms
  Window <- MCWindow
  NoWindow = NoWindow
  NoTree = NoTree
  MaxVoid = 3
VIEW WhatTells
PROPERTY LegalTransitions
