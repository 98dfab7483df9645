SPECIFICATION Spec
CONSTANTS
  a = a
  b = b
  c = c
  Window <- MCWindow
  VoidId <- MCVoidId
  Width = 8
  Height = 3
  MinSize = 1
  OtherSizes <- MCOtherSizes
  Deltas <- MCDeltas
  Positions <- MCPositions
  MaxNodes = 5
SYMMETRY Symmetry
INVARIANT NoHollowSplit
