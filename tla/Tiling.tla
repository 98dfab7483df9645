------------------------------- MODULE Tiling -------------------------------
(***************************************************************************)
(* The tiling tree of the window manager, reduced to what it holds: the    *)
(* windows at its leaves, the identifiers of its Void placeholders, and    *)
(* whether the root is a single Leaf or Void rather than a Split.          *)
(* LayoutNode never reuses a void id (VOID_ID_COUNTER), so an operation    *)
(* takes the id it would draw next as the parameter `fresh`.  LayoutTree   *)
(* shows that the real tree does what these operators say.                 *)
(***************************************************************************)
EXTENDS Integers, FiniteSets

CONSTANTS Window,   \* keys of windows
          NoTree    \* managed_layout is None

Tree(leaves, voids, bare) == [leaves |-> leaves, voids |-> voids, bare |-> bare]

ASSUME NoTreeAssumption ==
  NoTree \notin [leaves : SUBSET Window, voids : SUBSET Nat, bare : BOOLEAN]

Leaf(k) == Tree({k}, {}, TRUE)
Void(v) == Tree({}, {v}, TRUE)
AllOf(K) == Tree(K, {}, Cardinality(K) = 1)

Has(t, k) == t # NoTree /\ k \in t.leaves

WithLeaf(t, k) == Tree(t.leaves \cup {k}, t.voids, FALSE)

\* TilingLayout::remove_window: remove_leaf, cleanup_after_removal (drops every
\* Void below a split and collapses splits of one child) and clear_leaf.  A Void
\* that is left alone by the collapse survives with its id.
Removed(t, k, fresh) ==
  IF t.bare /\ k \notin t.leaves THEN {t}
  ELSE IF t.leaves \ {k} # {} THEN {AllOf(t.leaves \ {k})}
  ELSE {Void(v) : v \in {fresh} \cup (IF Cardinality(t.voids) = 1 THEN t.voids ELSE {})}

\* detach_from_tiling_layout of a window that left no placeholder.  The root
\* that is the window's leaf takes the whole tree with it.
Detached(t, k, fresh) == IF t = Leaf(k) THEN {NoTree} ELSE Removed(t, k, fresh)

\* remove_void_by_id; a Void at the root is replaced, not removed.
VoidRemoved(t, v, fresh) ==
  IF t = Void(v) THEN Void(fresh) ELSE [t EXCEPT !.voids = @ \ {v}]

\* replace_leaf_with_void and its inverse replace_void_by_id.
Emptied(t, k, fresh) ==
  IF k \in t.leaves THEN Tree(t.leaves \ {k}, t.voids \cup {fresh}, t.bare) ELSE t
Filled(t, v, k) ==
  IF v \in t.voids THEN Tree(t.leaves \cup {k}, t.voids \ {v}, t.bare) ELSE t

\* insert_window_balanced, and the topological part of a reattachment: the
\* first Void on the screen is filled, without one a leaf is split.
Balanced(t, k) ==
  IF t.voids # {} THEN {Filled(t, v, k) : v \in t.voids} ELSE {WithLeaf(t, k)}

\* split_root.  At a side, or next to a Void root, the old root becomes the
\* sibling; in a corner the tree is rebuilt from its leaves, without Voids
\* except one that balances a single leaf.
SplitAtCorner(t, k, fresh) ==
  LET others == t.leaves \ {k} IN
  IF t.bare /\ t.leaves = {} THEN WithLeaf(t, k)
  ELSE IF others = {} THEN Leaf(k)
  ELSE Tree(others \cup {k}, IF Cardinality(others) = 1 THEN {fresh} ELSE {}, FALSE)
Split(t, k, fresh) == {WithLeaf(t, k), SplitAtCorner(t, k, fresh)}
=============================================================================
