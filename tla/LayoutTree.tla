----------------------------- MODULE LayoutTree -----------------------------
(***************************************************************************)
(* The tiling tree itself: LayoutNode of term-wm-layout-engine and the     *)
(* TilingLayout around it.  A node is a Leaf, a Void or a Split with a     *)
(* direction, children and one weight per child.  Areas are rectangles of  *)
(* cells, divided by the integer arithmetic of split.rs.                   *)
(***************************************************************************)
EXTENDS Splits, FiniteSets, SequencesExt, FiniteSetsExt

CONSTANTS Window,         \* keys of windows
          VoidId,         \* bound: void ids told apart
          Width, Height,  \* the managed area
          OtherSizes,     \* bound: <<width, height>> of other areas to lay out in
          MinSize,        \* SPLIT_DRAG_MIN_SIZE
          Positions,      \* bound: the insert positions tried
          Deltas,         \* bound: cells a split handle is dragged at once
          MaxNodes        \* bound: size of the tree

VARIABLES root,   \* TilingLayout::root
          grip    \* TilingLayout::drag, a split handle held by the mouse

vars == <<root, grip>>

LeafNode(k) == [kind |-> "leaf", id |-> k]
VoidNode(v) == [kind |-> "void", id |-> v]
Node(dir, kids, weights) == [kind |-> "split", dir |-> dir, kids |-> kids, weights |-> weights]
Pair(dir, l, r) == Node(dir, <<l, r>>, <<1, 1>>)
NoGrip == [path |-> <<>>, index |-> 0, dir |-> "none"]

Sides == {"Left", "Right", "Top", "Bottom"}
Corners == {"TopLeft", "TopRight", "BottomLeft", "BottomRight"}
ASSUME PositionsAssumption == Positions \subseteq Sides \cup Corners

-----------------------------------------------------------------------------
RECURSIVE Named(_, _)   \* ids of the leaves, or of the Voids, in order
Named(t, kind) == IF IsSplit(t) THEN FlattenSeq([i \in DOMAIN t.kids |-> Named(t.kids[i], kind)])
                  ELSE IF t.kind = kind THEN <<t.id>> ELSE <<>>
RECURSIVE Ids(_, _)     \* the same without their order
Ids(t, kind) == IF IsSplit(t) THEN UNION {Ids(t.kids[i], kind) : i \in DOMAIN t.kids}
                ELSE IF t.kind = kind THEN {t.id} ELSE {}
Leaves(t) == Ids(t, "leaf")
Voids(t) == Ids(t, "void")

RECURSIVE Put(_, _, _)   \* replace_leaf_with_void, replace_void_by_id
Put(t, old, new) ==
  IF t = old THEN new
  ELSE IF IsSplit(t) THEN [t EXCEPT !.kids = [i \in DOMAIN @ |-> Put(@[i], old, new)]] ELSE t

Within(t, n) == n.id \in Ids(t, n.kind)
ChildWith(t, n) == CHOOSE i \in DOMAIN t.kids :
                     /\ Within(t.kids[i], n)
                     /\ \A j \in 1..(i - 1) : ~Within(t.kids[j], n)
WithoutKid(t, i) == [t EXCEPT !.kids = RemoveAt(@, i)]
Without(t, i) == [t EXCEPT !.kids = RemoveAt(@, i), !.weights = RemoveAt(@, i)]

\* remove_leaf: a split left with one child becomes that child, one left with
\* Voids only becomes a Void; the root that is the leaf stays.
RECURSIVE RemoveLeaf(_, _, _)
RemoveLeaf(t, k, fresh) ==
  IF ~IsSplit(t) \/ ~Within(t, LeafNode(k)) THEN t
  ELSE LET i   == ChildWith(t, LeafNode(k))
           sub == RemoveLeaf(t.kids[i], k, fresh)
           s   == IF t.kids[i] = LeafNode(k) \/ (IsSplit(sub) /\ sub.kids = <<>>)
                    THEN Without(t, i) ELSE [t EXCEPT !.kids[i] = sub]
       IN IF Len(s.kids) = 1 THEN s.kids[1]
          ELSE IF \A j \in DOMAIN s.kids : s.kids[j].kind = "void" THEN VoidNode(fresh) ELSE s

RECURSIVE CleanupKeepsFirst(_, _)
CleanupKeepsFirst(t, fresh) ==
  IF ~IsSplit(t) THEN t
  ELSE LET clean == [i \in DOMAIN t.kids |-> CleanupKeepsFirst(t.kids[i], fresh)]
           kept  == SelectSeq([i \in DOMAIN clean |-> i], LAMBDA i : clean[i].kind # "void")
       IN IF kept = <<>> THEN VoidNode(fresh) ELSE IF Len(kept) = 1 THEN clean[1] ELSE t

RECURSIVE CleanupAfterRemoval(_, _)
CleanupAfterRemoval(t, fresh) ==
  IF ~IsSplit(t) THEN t
  ELSE LET clean == [i \in DOMAIN t.kids |-> CleanupAfterRemoval(t.kids[i], fresh)]
           kept  == SelectSeq([i \in DOMAIN clean |-> i], LAMBDA i : clean[i].kind # "void")
       IN CASE Len(kept) = 0 -> VoidNode(fresh)
            [] Len(kept) = 1 -> clean[kept[1]]
            [] OTHER -> Node(t.dir, [i \in DOMAIN kept |-> clean[kept[i]]],
                             [i \in DOMAIN kept |-> t.weights[kept[i]]])

ClearLeaf(t, k, fresh) == IF t = LeafNode(k) THEN VoidNode(fresh) ELSE t

RECURSIVE Share(_)   \* the count reweight_by_leaf_count returns: a Void is one too
Share(t) == IF IsSplit(t) THEN SumOf([i \in DOMAIN t.kids |-> Share(t.kids[i])]) ELSE 1
RECURSIVE ReweightEqually(_)
ReweightEqually(t) == IF ~IsSplit(t) THEN t
                      ELSE Node(t.dir, [i \in DOMAIN t.kids |-> ReweightEqually(t.kids[i])],
                                       [i \in DOMAIN t.kids |-> 1])
RECURSIVE Reweight(_)
Reweight(t) == IF ~IsSplit(t) THEN t
               ELSE Node(t.dir, [i \in DOMAIN t.kids |-> Reweight(t.kids[i])],
                                [i \in DOMAIN t.kids |-> Share(t.kids[i])])

\* remove_void_by_id takes the Void out of its split and leaves the split.
RECURSIVE RemoveVoid(_, _, _)
RemoveVoid(t, v, fresh) ==
  IF t = VoidNode(v) THEN VoidNode(fresh)
  ELSE IF ~Within(t, VoidNode(v)) THEN t
  ELSE LET i == ChildWith(t, VoidNode(v))  sub == RemoveVoid(t.kids[i], v, fresh)
       IN IF sub.kind = "void" THEN Without(t, i) ELSE [t EXCEPT !.kids[i] = sub]

\* The two nodes side by side, the new one at `side`.
Beside(new, old, side) ==
  CASE side = "Left"  -> Pair("H", new, old)  [] side = "Right"  -> Pair("H", old, new)
    [] side = "Top"   -> Pair("V", new, old)  [] side = "Bottom" -> Pair("V", old, new)

SideOf(corner) == IF corner \in {"TopLeft", "BottomLeft"} THEN "Left" ELSE "Right"
HalfOf(corner) == IF corner \in {"TopLeft", "TopRight"} THEN "Top" ELSE "Bottom"

BuildFlat(ids) == IF Len(ids) = 1 THEN LeafNode(ids[1])
                  ELSE Node("H", [i \in DOMAIN ids |-> LeafNode(ids[i])], [i \in DOMAIN ids |-> 1])

InsertLeaf(t, target, k, side) == Put(t, LeafNode(target), Beside(LeafNode(k), LeafNode(target), side))

SplitRoot(t, k, pos, fresh) ==
  LET new == LeafNode(k)
      ids == SelectSeq(Named(t, "leaf"), LAMBDA i : i # k)
  IN CASE pos \in Sides -> Beside(new, t, pos)
       [] pos \in Corners /\ t.kind = "void" -> Beside(new, t, SideOf(pos))
       [] pos \in Corners /\ t.kind # "void" /\ ids = <<>> -> new
       [] pos \in Corners /\ Len(ids) = 1 ->
            Beside(Beside(new, VoidNode(fresh), HalfOf(pos)), LeafNode(ids[1]), SideOf(pos))
       [] OTHER ->
            Beside(Beside(new, LeafNode(ids[1]), SideOf(pos)), BuildFlat(Tail(ids)), HalfOf(pos))

-----------------------------------------------------------------------------
\* layout_recursive, as deep as a tree of MaxNodes nodes can be.
Layout(t, area) == LayoutTo(MaxNodes, t, area)

Screen == Area(0, 0, Width, Height)
Cells(r) == r.w * r.h

RECURSIVE AtPath(_, _, _)   \* split_at_path_mut with split_area_for_path, or nothing
AtPath(t, area, path) ==
  IF path = <<>> THEN {<<t, area>>}
  ELSE IF ~IsSplit(t) \/ path[1] \notin DOMAIN t.kids THEN {}
  ELSE AtPath(t.kids[path[1]], Part(t, area, path[1], FALSE), Tail(path))

RECURSIVE PutAt(_, _, _)
PutAt(t, path, new) == IF path = <<>> THEN new
                       ELSE [t EXCEPT !.kids[path[1]] = PutAt(@, Tail(path), new)]

\* apply_drag on a split: the sizes with the pair moved become the weights.
Moved(t, area, index, dir, delta) ==
  MovedSizes(SplitSizes(Total(area, dir), t.weights, Len(t.kids)), index, delta, MinSize)

\* Fault: only the weights of the pair are replaced by sizes.
DraggedPairOnly(t, area, index, dir, delta) ==
  LET moved == Moved(t, area, index, dir, delta)
  IN [t EXCEPT !.weights[index] = AtLeast(moved[index], 1),
               !.weights[index + 1] = AtLeast(moved[index + 1], 1)]

Dragged(t, area, index, dir, delta) == DraggedBy(t, Total(area, dir), index, delta, MinSize)

-----------------------------------------------------------------------------
Fresh == CHOOSE v \in VoidId : v \notin Voids(root)   \* VOID_ID_COUNTER
Room == VoidId \ Voids(root) # {}

RECURSIVE Nodes(_)
Nodes(t) == IF IsSplit(t) THEN 1 + SumOf([i \in DOMAIN t.kids |-> Nodes(t.kids[i])]) ELSE 1

Init == /\ root \in {BuildFlat(ids) : ids \in {<<k>> : k \in Window} \cup SetToSeqs(Window)}
        /\ grip = NoGrip

\* Every operation below leaves a drag of a handle as it is.
Becomes(t) == Room /\ Nodes(t) <= MaxNodes /\ root' = t /\ UNCHANGED grip
Absent(k) == k \notin Leaves(root)
Present(k) == k \in Leaves(root)

\* insert_window_balanced: the first Void, or next to a largest leaf.
Balanced(t, k) ==
  LET voids == Named(t, "void")
      areas == {r \in Layout(t, Screen) : r[1].kind = "leaf"}
      big   == {r \in areas : \A s \in areas : Cells(s[2]) <= Cells(r[2])}
  IN IF voids # <<>> THEN {Put(t, VoidNode(voids[1]), LeafNode(k))}
     ELSE IF areas = {} THEN {SplitRoot(t, k, "Right", Fresh)}
     ELSE {InsertLeaf(t, r[1].id, k, side) : r \in big, side \in {"Right", "Bottom"}}

InsertBalanced(k) == Absent(k) /\ \E t \in Balanced(root, k) : Becomes(Reweight(t))
InsertNextTo(k) ==
  Absent(k) /\ \E target \in Leaves(root), side \in {"Right", "Bottom"} :
                 Becomes(InsertLeaf(root, target, k, side))
Snap(k) == Absent(k) /\ \E pos \in Positions : Becomes(SplitRoot(root, k, pos, Fresh))

\* remove_leaf, cleanup_after_removal, clear_leaf
Removed(k) == ClearLeaf(CleanupAfterRemoval(RemoveLeaf(root, k, Fresh), Fresh), k, Fresh)
RemoveWindow(k) == Present(k) /\ Becomes(Reweight(Removed(k)))
Detach(k) == Present(k) /\ Becomes(Removed(k))

LeaveVoid(k) == Present(k) /\ Becomes(Put(root, LeafNode(k), VoidNode(Fresh)))
FillVoid(k) == Absent(k) /\ \E v \in Voids(root) : Becomes(Put(root, VoidNode(v), LeafNode(k)))
DropVoid == \E v \in Voids(root) : Becomes(RemoveVoid(root, v, Fresh))

\* handle_event.  The grip is taken from the gaps of the tree as it is now; the
\* tree may change before the handle is dragged.
RECURSIVE Grips(_, _, _)
Grips(t, area, path) ==
  IF ~IsSplit(t) THEN {}
  ELSE (IF GapSize(Total(area, t.dir), Len(t.kids)) = 0 THEN {}
        ELSE {[path |-> path, index |-> i, dir |-> t.dir] : i \in 1..(Len(t.kids) - 1)})
       \cup UNION {Grips(t.kids[i], Part(t, area, i, FALSE), Append(path, i)) : i \in DOMAIN t.kids}

Press == grip = NoGrip /\ grip' \in Grips(root, Screen, <<>>) /\ UNCHANGED root
Held == IF grip = NoGrip THEN {}
        ELSE {s \in AtPath(root, Screen, grip.path) : IsSplit(s[1]) /\ grip.index < Len(s[1].kids)}
Drag == \E s \in Held, d \in Deltas :
          /\ root' = PutAt(root, grip.path, Dragged(s[1], s[2], grip.index, grip.dir, d))
          /\ UNCHANGED grip
Release == grip # NoGrip /\ grip' = NoGrip /\ UNCHANGED root

Next == \/ \E k \in Window : \/ InsertBalanced(k) \/ InsertNextTo(k) \/ Snap(k) \/ RemoveWindow(k)
                             \/ Detach(k) \/ LeaveVoid(k) \/ FillVoid(k)
        \/ DropVoid \/ Press \/ Drag \/ Release

Spec == Init /\ [][Next]_vars

-----------------------------------------------------------------------------
RECURSIVE Sound(_)
Sound(t) == \/ t.kind = "leaf" /\ t.id \in Window
            \/ t.kind = "void" /\ t.id \in VoidId
            \/ /\ IsSplit(t) /\ t.dir \in {"H", "V"} /\ Len(t.weights) = Len(t.kids)
               /\ \A i \in DOMAIN t.kids : t.weights[i] \in Nat /\ Sound(t.kids[i])

\* The tree is made of windows, Voids and splits with one weight per child
\* (split_rects_weighted forgets all weights otherwise), and no window and no
\* Void is in it twice: a window would be drawn twice, and find_leaf_path and
\* replace_void_by_id would act on the first only.
TreeTypeOK == /\ Sound(root) /\ IsInjective(Named(root, "leaf")) /\ IsInjective(Named(root, "void"))
              /\ grip.dir \in {"none", "H", "V"}

\* Whatever the weights, the rounding and the size of the area, the windows,
\* Voids and gaps cover it and do not overlap (split_rects_with_gaps).
Apart(a, b) == \/ a.x + a.w <= b.x \/ b.x + b.w <= a.x
               \/ a.y + a.h <= b.y \/ b.y + b.h <= a.y
Covers ==
  \A size \in OtherSizes \cup {<<Width, Height>>} :
    LET parts == Layout(root, Area(0, 0, size[1], size[2]))
    IN /\ \A p, q \in parts : p = q \/ Cells(p[2]) = 0 \/ Cells(q[2]) = 0 \/ Apart(p[2], q[2])
       /\ MapThenSumSet(LAMBDA p : Cells(p[2]), parts) = size[1] * size[2]

\* Dragging a handle moves the border it was taken from and nothing else: no
\* window outside the pair around it changes its rectangle, unless the pair has
\* not room for two minimal windows or a sibling has no cell at all (apply_drag).
Others(s) == UNION {Layout(s[1].kids[i], Part(s[1], s[2], i, FALSE)) :
                      i \in DOMAIN s[1].kids \ {grip.index, grip.index + 1}}
Wide(s) == LET sizes == SplitSizes(Total(s[2], s[1].dir), s[1].weights, Len(s[1].kids))
           IN /\ \A i \in DOMAIN sizes : sizes[i] > 0
              /\ sizes[grip.index] + sizes[grip.index + 1] >= 2 * MinSize
              /\ s[1].dir = grip.dir
DragIsLocal ==
  [][Drag => \A s \in Held : Wide(s) => Others(s) \subseteq Layout(root', Screen)]_vars

\* A balanced insertion and a removal leave every window and every Void the
\* same share of the area, however deep in the tree it is (the promise of
\* reweight_by_leaf_count).
RECURSIVE Fractions(_, _, _)
Fractions(t, num, den) ==
  IF ~IsSplit(t) THEN {<<num, den>>}
  ELSE UNION {Fractions(t.kids[i], num * t.weights[i], den * SumOf(t.weights)) : i \in DOMAIN t.kids}
Equal(t) == \A a, b \in Fractions(t, 1, 1) : a[1] * b[2] = b[1] * a[2]
EqualShares ==
  [][~Equal(root') => \A k \in Window : ~InsertBalanced(k) /\ ~RemoveWindow(k)]_vars

\* Whatever the shape of the tree, it is the store of windows and placeholders
\* that the window manager takes it for.
NoTree == [none |-> 0]
Store == INSTANCE TilingStore
           WITH tree <- [leaves |-> Leaves(root), voids |-> Voids(root), bare |-> ~IsSplit(root)]
IsStore == Store!Spec

\* remove_void_by_id "Cleans up empty parent splits".
RECURSIVE NoHollow(_)
NoHollow(t) == IsSplit(t) => t.kids # <<>> /\ \A i \in DOMAIN t.kids : NoHollow(t.kids[i])
NoHollowSplit == NoHollow(root)
=============================================================================
