-------------------------- MODULE MCWindowManager --------------------------
(* A terminal and a system panel, up to the names of the Voids.  A panel    *)
(* does all a terminal does except to die, and it comes back.              *)
EXTENDS WindowManager

CONSTANTS a, p

MCTerms == {a}
MCPanels == {p}
MCWindow == {a, p}

\* Forgotten are the names of Voids, but for whether one is remembered and whether
\* it is in the tree; the rectangle remembered by a window that is not maximized,
\* which is set again before it is read; and the timer of a drag that is over and
\* has left nothing to do.
WhatTells ==
  LET here == IF wm.tree = NoTree THEN {} ELSE wm.tree.voids
      known(v) == IF v = NoVoid THEN "none" ELSE IF v \in here THEN "here" ELSE "gone"
      seen(w) == [w EXCEPT !.void = known(@), !.prev = @ /\ w.max]
      over == drag.key = NoWindow /\ ~drag.snap /\ ~drag.top
  IN <<[wm EXCEPT !.win = [k \in Window |-> seen(wm.win[k])],
                  !.tree = IF @ = NoTree THEN @ ELSE [@ EXCEPT !.voids = Cardinality(@)]],
       chrome, IF over THEN NoDrag ELSE drag, PlaceholdersDistinct>>
=============================================================================
