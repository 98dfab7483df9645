---------------------------- MODULE MCLayoutTree ----------------------------
(* Three windows, which the tree does not tell apart but by their place.    *)
EXTENDS LayoutTree

CONSTANTS a, b, c

MCWindow == {a, b, c}
MCVoidId == 1..2
MCPositions == {"Right", "TopLeft"}
MCDeltas == {2}
MCOtherSizes == {<<3, 2>>, <<0, 4>>}
Symmetry == Permutations(MCWindow)
=============================================================================
