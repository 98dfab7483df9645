------------------------------- MODULE Splits -------------------------------
(***************************************************************************)
(* How term-wm-layout-engine divides an area among the children of a split *)
(* (split.rs), where that puts the windows of a whole tree                 *)
(* (layout_recursive of tiling.rs), and what a split handle that is        *)
(* dragged makes of the sizes (apply_drag).  All of it is arithmetic on    *)
(* whole cells; TilingLayout, which uses it, is in LayoutTree.             *)
(***************************************************************************)
EXTENDS Integers, Sequences

IsSplit(t) == t.kind = "split"

AtLeast(x, y) == IF x < y THEN y ELSE x
Clamp(x, lo, hi) == IF x < lo THEN lo ELSE IF x > hi THEN hi ELSE x

\* The sums of the first 0, 1, 2, ... members of a sequence of numbers.
Sums(s) == LET upTo[i \in 0..Len(s)] == IF i = 0 THEN 0 ELSE upTo[i - 1] + s[i] IN upTo
SumOf(s) == Sums(s)[Len(s)]

\* One cell between two children, unless there is no room for it.
GapSize(total, n) == IF n < 2 \/ total <= n THEN 0
                     ELSE IF (total - n) \div (n - 1) = 0 THEN 0 ELSE 1

\* The cells that are left for the children.
Content(total, n) == total - GapSize(total, n) * (n - 1)

\* Weights of the wrong number count as equal.
Weights(weights, n) == IF Len(weights) = n THEN weights ELSE [i \in 1..n |-> 1]

\* What is due to each child, rounded down.
Shares(total, weights, n) ==
  LET ws == Weights(weights, n)
  IN [i \in 1..n |-> (Content(total, n) * ws[i]) \div AtLeast(SumOf(ws), 1)]

\* Fault: the last child gets its share like the others.
SplitSizesRounded(total, weights, n) == Shares(total, weights, n)

\* The last child gets what the others leave.
SplitSizes(total, weights, n) ==
  LET share == Shares(total, weights, n)
  IN [i \in 1..n |-> IF i < n THEN share[i] ELSE Content(total, n) - Sums(share)[n - 1]]

-----------------------------------------------------------------------------
Area(x, y, w, h) == [x |-> x, y |-> y, w |-> w, h |-> h]
Total(area, dir) == IF dir = "H" THEN area.w ELSE area.h

\* Where the i-th child begins.
Begin(sizes, gap, i) == Sums(sizes)[i - 1] + (i - 1) * gap

\* The rectangle of the i-th child, or of the gap after it.
Part(t, area, i, gapAfter) ==
  LET n     == Len(t.kids)
      gap   == GapSize(Total(area, t.dir), n)
      sizes == SplitSizes(Total(area, t.dir), t.weights, n)
      from  == IF gapAfter THEN Begin(sizes, gap, i) + sizes[i] ELSE Begin(sizes, gap, i)
      size  == IF gapAfter THEN gap ELSE sizes[i]
  IN IF t.dir = "H" THEN Area(area.x + from, area.y, size, area.h)
     ELSE Area(area.x, area.y + from, area.w, size)

\* A node in its area: itself, or the children of the split and the gaps.
GapNode(i) == [kind |-> "gap", id |-> i]
Divided(t, area) ==
  IF ~IsSplit(t) \/ t.kids = <<>> THEN {<<t, area>>}
  ELSE {<<t.kids[i], Part(t, area, i, FALSE)>> : i \in 1..Len(t.kids)}
       \cup {<<GapNode(i), Part(t, area, i, TRUE)>> : i \in 1..(Len(t.kids) - 1)}

\* layout_recursive, to a depth: leaves, Voids (and splits nothing is left of)
\* with their rectangles, and the gaps between them.
LayoutTo(depth, t, area) ==
  LET level[d \in 0..depth] ==
        IF d = 0 THEN {<<t, area>>} ELSE UNION {Divided(p[1], p[2]) : p \in level[d - 1]}
  IN level[depth]

-----------------------------------------------------------------------------
\* apply_drag on a split: the pair around the handle shares its cells anew.
MovedSizes(sizes, index, delta, least) ==
  LET pair == sizes[index] + sizes[index + 1]
      left == Clamp(sizes[index] + delta, least, AtLeast(pair - least, least))
  IN [sizes EXCEPT ![index] = left, ![index + 1] = pair - left]

\* The sizes, with the pair moved, become the weights.
DraggedBy(t, total, index, delta, least) ==
  LET moved == MovedSizes(SplitSizes(total, t.weights, Len(t.kids)), index, delta, least)
  IN [t EXCEPT !.weights = [i \in 1..Len(t.kids) |-> AtLeast(moved[i], 1)]]
=============================================================================
