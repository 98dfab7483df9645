---------------------------- MODULE TilingStore ----------------------------
(***************************************************************************)
(* What a tiling tree promises whatever its shape: a store of windows and  *)
(* placeholders with the operations of module Tiling.                      *)
(***************************************************************************)
EXTENDS Tiling

CONSTANT VoidId  \* identifiers a Void may get

VARIABLE tree

Init == \E K \in SUBSET Window \ {{}} : tree = AllOf(K)

\* A window comes in at a Void, at a leaf, at a side or in a corner; it goes for
\* good, or leaves a Void which is filled again or given up.
After(t) ==
  LET absent == Window \ t.leaves
      ids    == VoidId \ t.voids
  IN UNION {Balanced(t, k) : k \in absent}
     \cup {WithLeaf(t, k) : k \in absent}
     \cup {SplitAtCorner(t, k, f) : k \in absent, f \in ids}
     \cup UNION {Removed(t, k, f) : k \in t.leaves, f \in ids}
     \cup {Emptied(t, k, f) : k \in t.leaves, f \in ids}
     \cup {Filled(t, v, k) : v \in t.voids, k \in absent}
     \cup {VoidRemoved(t, v, f) : v \in t.voids, f \in ids}

Next == tree' \in After(tree)

Spec == Init /\ [][Next]_tree
=============================================================================
