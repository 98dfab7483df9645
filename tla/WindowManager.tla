--------------------------- MODULE WindowManager ---------------------------
(***************************************************************************)
(* The WindowManager of term-wm-core: window states, tiling tree, floating *)
(* and maximized windows, stacking order, draw order, focus ring and the   *)
(* mouse drag, under every interleaving of user commands, of child exits,  *)
(* of the drag timer and of frames.  Rectangles are abstracted to "has     *)
(* one"; the tree is the leaves and voids of module Tiling.  A handler is  *)
(* an operator from the manager to the set of managers it may leave.       *)
(***************************************************************************)
EXTENDS Tiling, SequencesExt

CONSTANTS Terms,    \* windows of terminals: opened once, destroyed on close
          Panels,   \* debug log and system panel: only hidden on close
          Dragged,  \* bound: the windows whose header is pressed
          NoWindow, \* WindowKey::default(), which no window has
          MaxVoid   \* bound: void ids told apart

ASSUME WindowAssumption == /\ Window = Terms \cup Panels
                           /\ Terms \cap Panels = {}
                           /\ Dragged \subseteq Window
                           /\ NoWindow \notin Window
                           /\ MaxVoid \in Nat

VARIABLES wm,      \* the struct WindowManager
          chrome,  \* hitbox_registry: the windows whose chrome the last frame drew
          drag     \* MouseCaptureState::DraggingWindow, and what outlives it in the
                   \* manager: drag_snap, snap_preview, drag_timer_id

vars == <<wm, chrome, drag>>

NoVoid == 0
VoidId == 1..MaxVoid
States == {"unborn", "Mapped", "Unmapped", "Iconic", "dead"}
NoDrag == [key |-> NoWindow, applied |-> FALSE, snap |-> FALSE, top |-> FALSE, armed |-> FALSE]

\* A window record; "unborn" and "dead" stand for an absent SlotMap entry.
Entry(s) == [st |-> s, float |-> FALSE, max |-> FALSE, prev |-> FALSE, void |-> NoVoid]

Init == /\ wm = [win |-> [k \in Window |-> Entry(IF k \in Panels THEN "Unmapped" ELSE "unborn")],
                 tree |-> NoTree, z |-> <<>>, draw |-> <<>>, ring |-> <<>>,
                 cur |-> NoWindow, regions |-> {}, measured |-> FALSE]
        /\ chrome = {} /\ drag = NoDrag

-----------------------------------------------------------------------------
State(S, k) == IF k \in Window THEN S.win[k].st ELSE "dead"
Live(S, k) == State(S, k) \notin {"unborn", "dead"}
IsFloating(S, k) == Live(S, k) /\ S.win[k].float
IsMaximized(S, k) == Live(S, k) /\ S.win[k].max
Mapped(S) == {k \in Window : S.win[k].st = "Mapped"}

\* Vec::retain: what of s is in A, in the order of s.
Kept(s, A) ==
  LET F[i \in 0..Len(s)] == IF i = 0 THEN <<>>
                            ELSE IF s[i] \in A THEN Append(F[i - 1], s[i]) ELSE F[i - 1]
  IN F[Len(s)]
Without(s, k) == Kept(s, Window \ {k})

\* Mutants are operators of the same parameters, placed before what they replace.
FreshInTreeOnly(S) == CHOOSE v \in VoidId : S.tree = NoTree \/ v \notin S.tree.voids

\* The next value of VOID_ID_COUNTER: any id nobody remembers.
InUse(S) == {S.win[k].void : k \in Window} \cup (IF S.tree = NoTree THEN {} ELSE S.tree.voids)
Pushed(s, k) == IF Contains(s, k) THEN s ELSE Append(s, k)
Fresh(S) == CHOOSE v \in VoidId : v \notin InUse(S)
CanDraw(S) == VoidId \ InUse(S) # {}

Trees(S, ts) == {[S EXCEPT !.tree = t] : t \in ts}

Bifurcate(S) ==
  LET floats == {k \in Window : IsFloating(S, k)}
  IN [S EXCEPT !.draw = Kept(S.z, Window \ floats) \o Kept(S.z, floats)]

BringToFront(S, k) ==
  IF ~IsFloating(S, k) THEN S
  ELSE Bifurcate([S EXCEPT !.z = IF Contains(@, k) THEN Append(Without(@, k), k) ELSE @])

Detach(S, k) ==
  IF S.tree = NoTree THEN {S}
  ELSE IF Live(S, k) /\ S.win[k].void # NoVoid
    THEN {[S EXCEPT !.tree = VoidRemoved(@, S.win[k].void, Fresh(S)), !.win[k].void = NoVoid]}
    ELSE Trees(S, Detached(S.tree, k, Fresh(S)))

Reattach(S, k) ==
  IF Has(S.tree, k) THEN {S}
  ELSE Trees(S, IF S.tree = NoTree THEN {Leaf(k)} ELSE Balanced(S.tree, k))

UnmaximizeNoFallback(S, k) ==
  LET back  == [S EXCEPT !.win[k].float = FALSE, !.win[k].max = FALSE]
      there == S.tree # NoTree /\ S.win[k].void # NoVoid
      T     == IF S.win[k].prev THEN [S EXCEPT !.win[k].prev = FALSE]
               ELSE IF there THEN [back EXCEPT !.tree = Filled(@, S.win[k].void, k)] ELSE back
  IN {BringToFront([T EXCEPT !.win[k].max = FALSE, !.win[k].void = NoVoid], k)}

\* toggle_maximize.  A tiled window leaves a Void behind and remembers its
\* id; a floating one remembers its rectangle.
Unmaximize(S, k) ==
  LET back  == [S EXCEPT !.win[k].float = FALSE, !.win[k].max = FALSE]
      void  == S.win[k].void
      there == S.tree # NoTree /\ void # NoVoid /\ void \in S.tree.voids
      after == IF S.win[k].prev THEN {[S EXCEPT !.win[k].prev = FALSE]}
               ELSE IF there THEN Trees(back, {Filled(S.tree, void, k)})
               ELSE IF S.win[k].st = "Mapped" THEN Reattach(back, k) ELSE {back}
  IN {BringToFront([T EXCEPT !.win[k].max = FALSE, !.win[k].void = NoVoid], k) : T \in after}

Maximize(S, k) ==
  LET tiled == ~S.win[k].float /\ Has(S.tree, k)
      T == IF tiled THEN [S EXCEPT !.tree = Emptied(@, k, Fresh(S)), !.win[k].void = Fresh(S)]
           ELSE S
  IN {BringToFront([T EXCEPT !.win[k].prev = S.win[k].float,
                             !.win[k].float = TRUE, !.win[k].max = TRUE], k)}

ToggleMaximize(S, k) ==
  IF ~Live(S, k)
    THEN Trees(S, {IF Has(S.tree, k) THEN Emptied(S.tree, k, Fresh(S)) ELSE S.tree})
  ELSE IF S.win[k].max THEN Unmaximize(S, k) ELSE Maximize(S, k)

FocusWindowKey(S, k) ==
  {BringToFront([T EXCEPT !.cur = k], k) :
     T \in IF S.cur # k /\ IsMaximized(S, S.cur) THEN ToggleMaximize(S, S.cur) ELSE {S}}

SelectFallbackFocus(S, k) ==
  IF S.cur = k /\ S.ring # <<>> THEN [S EXCEPT !.cur = Head(S.ring)] ELSE S

FocusAddCurrentOnly(S, k) == IF Live(S, S.cur) THEN S ELSE [S EXCEPT !.cur = k]

FocusAdd(S, k) ==
  [S EXCEPT !.ring = Pushed(@, k), !.cur = IF Live(S, @) THEN @ ELSE k]

\* transition_window: the cases of its match that the application reaches.
ToIconic(S, k) ==
  Detach(SelectFallbackFocus([S EXCEPT !.win[k].st = "Iconic", !.draw = Without(@, k)], k), k)

ToUnmappedStillStacked(S, k) ==
  Detach(SelectFallbackFocus([S EXCEPT !.win[k].st = "Unmapped", !.draw = Without(@, k),
                                !.regions = @ \ {k}, !.ring = Without(@, k)], k), k)

ToUnmapped(S, k) ==
  LET T == [S EXCEPT !.win[k].st = "Unmapped", !.z = Without(@, k), !.draw = Without(@, k),
                     !.regions = @ \ {k}, !.ring = Without(@, k)]
  IN Detach(SelectFallbackFocus(T, k), k)

Remapped(S, k) ==
  LET T == [S EXCEPT !.win[k].st = "Mapped", !.z = Pushed(@, k), !.draw = Pushed(@, k)]
      othersFloat == \E j \in Mapped(T) : T.win[j].float
      placed == IF T.win[k].float THEN {T}
                ELSE IF othersFloat THEN {[T EXCEPT !.win[k].float = TRUE]}
                ELSE Reattach(T, k)
  IN {BringToFront(FocusAdd(P, k), k) : P \in placed}

FirstMapped(S, k) ==
  {FocusAdd([S EXCEPT !.win[k] = Entry("Mapped"), !.z = Append(@, k), !.draw = Append(@, k)], k)}

TransitionWindow(S, k, new) ==
  IF State(S, k) \in {new, "dead"} THEN {S}
  ELSE IF new = "Mapped" THEN IF State(S, k) = "unborn" THEN FirstMapped(S, k) ELSE Remapped(S, k)
  ELSE IF new = "Unmapped" THEN ToUnmapped(S, k)
  ELSE IF new = "Iconic" /\ State(S, k) = "Mapped" THEN ToIconic(S, k)
  ELSE {[S EXCEPT !.win[k].st = new]}

-----------------------------------------------------------------------------
\* open_window: a new window floats when all others do, else it is tiled;
\* before the first frame the tree is left to register_managed_layout.
TileWindowKey(S, k) ==
  LET placed == IF ~S.measured THEN {S}
                ELSE Trees(S, IF S.tree = NoTree THEN {Leaf(k)} ELSE Balanced(S.tree, k))
  IN UNION {FocusWindowKey(T, k) : T \in placed}

Place(S, k) ==
  LET others == Mapped(S) \ {k} IN
  IF S.tree = NoTree /\ others # {} /\ \A j \in others : S.win[j].float
    THEN {Bifurcate([S EXCEPT !.win[k].float = TRUE])}
    ELSE {IF S.measured THEN Bifurcate(T) ELSE T : T \in TileWindowKey(S, k)}

OpenWindow(S, k) ==
  UNION {FocusWindowKey(P, k) : P \in UNION {Place(T, k) : T \in TransitionWindow(S, k, "Mapped")}}

CloseWindow(S, k) ==
  IF ~Live(S, k) THEN {S}
  ELSE {[T EXCEPT !.win[k] = IF k \in Panels THEN @ ELSE Entry("dead")] :
          T \in TransitionWindow(S, k, "Unmapped")}

\* dispatch_action(FocusWindow): restores a minimized window first.
FocusWindow(S, k) ==
  UNION {FocusWindowKey(T, k) :
           T \in IF State(S, k) = "Iconic" THEN TransitionWindow(S, k, "Mapped") ELSE {S}}

TogglePanel(S, k) ==
  IF State(S, k) = "Mapped" THEN TransitionWindow(S, k, "Unmapped")
  ELSE UNION {FocusWindowKey(T, k) : T \in TransitionWindow(S, k, "Mapped")}

AdvanceFocus(S, step) ==
  IF S.ring = <<>> THEN {S}
  ELSE LET n  == Len(S.ring)
           at == IF Contains(S.ring, S.cur) THEN CHOOSE i \in 1..n : S.ring[i] = S.cur ELSE 1
           to == S.ring[((at - 1 + step) % n) + 1]
           T  == [S EXCEPT !.cur = to]
       IN UNION {FocusWindowKey(U, to) :
                   U \in IF S.cur # to /\ IsMaximized(S, S.cur) THEN ToggleMaximize(T, S.cur) ELSE {T}}

-----------------------------------------------------------------------------
\* float_all_windows: every leaf and every drawn window that does not float.
FloatAll(S) ==
  LET tiled == {k \in S.regions \cup (IF S.tree = NoTree THEN {} ELSE S.tree.leaves) :
                  ~IsFloating(S, k)}
  IN IF tiled = {} THEN S
     ELSE [S EXCEPT !.tree = NoTree,
                    !.win = [k \in Window |-> IF k \in tiled /\ Live(S, k)
                               THEN [S.win[k] EXCEPT !.float = TRUE] ELSE S.win[k]]]

\* clear_floating_rect for a set of windows
Unfloat(S, K) ==
  [S EXCEPT !.win = [k \in Window |-> IF k \in K /\ Live(S, k)
                       THEN [S.win[k] EXCEPT !.float = FALSE, !.max = FALSE] ELSE S.win[k]]]

ToggleTiling(S) ==
  LET keys == {k \in Mapped(S) : Contains(S.z, k)} IN
  IF S.tree # NoTree THEN FloatAll(S)
  ELSE IF keys = {} THEN S
  ELSE Bifurcate([Unfloat(S, keys) EXCEPT !.tree = AllOf(keys)])

\* apply_position_based_layout: all that floats or was drawn, and the anchor.
PositionBased(S, k) ==
  LET all == {j \in Mapped(S) : S.win[j].float} \cup S.regions \cup {k}
      T   == Unfloat(S, all)
      old == IF all = {k} THEN Void(Fresh(S)) ELSE AllOf(all \ {k})
  IN Trees(T, Split(old, k, Fresh(S)))

ApplySnap(S, k) ==
  LET removed == IF ~Has(S.tree, k) THEN {S.tree}
                 ELSE IF S.tree.leaves = {k} THEN {NoTree} ELSE Removed(S.tree, k, Fresh(S))
  IN UNION {IF T.tree = NoTree THEN PositionBased(T, k)
            ELSE Trees(Unfloat(T, {k}), Split(T.tree, k, Fresh(T))) : T \in Trees(S, removed)}

\* update of a drag beyond the dead zone: a maximized window is restored by
\* pulling it down, a tiled one starts to float with its leaf still in place.
DragWindow(S, k) ==
  {IF Live(T, k) /\ ~IsFloating(T, k)
     THEN BringToFront([T EXCEPT !.win[k].float = TRUE], k) ELSE T :
     T \in IF IsMaximized(S, k) THEN ToggleMaximize(S, k) ELSE {S}}

-----------------------------------------------------------------------------
\* prepare_draw and register_managed_layout
BuildTree(S) ==
  LET tiled == {k \in Mapped(S) : ~S.win[k].float} IN
  IF S.tree = NoTree /\ tiled # {} THEN [S EXCEPT !.tree = AllOf(tiled)] ELSE S

Active(S) ==
  {k \in Window : S.win[k].st = "Mapped" /\ (S.win[k].float \/ Has(S.tree, k))}

\* A frame shows the active windows in some order, tiled regions as the tree has
\* them, then the floating ones by z, and appends to both lists what they lack.
Joined(s, A, o) == LET kept == Kept(s, A) IN kept \o Kept(o, Window \ Range(kept))

Drawn(S, o) ==
  Bifurcate([S EXCEPT !.regions = Active(S), !.ring = Joined(@, Active(S), o),
               !.z = Joined(@, {k \in Window : Live(S, k) /\ S.win[k].st # "Unmapped"}, o)])

Orders(S) ==
  LET raised == Kept(S.z, {k \in Active(S) : S.win[k].float})
  IN {t \o raised : t \in SetToSeqs(Active(S) \ Range(raised))}

Frame(S) ==
  LET B == [BuildTree(S) EXCEPT !.measured = TRUE]
  IN UNION {IF D.z # <<>> /\ Last(D.z) = D.cur THEN {D} ELSE FocusWindowKey(D, D.cur) :
              D \in {Drawn(B, o) : o \in Orders(B)}}

-----------------------------------------------------------------------------
\* One action per command.  Menu(k) is the command palette, which offers the
\* focused window and, to switch to, the displayed ones; Chrome(k) are the
\* hitboxes, which stay until the next frame, also of what has gone by then.
Menu(k) == wm.cur = k
Chrome(k) == k \in chrome
Displayed(k) == Contains(wm.draw, k) \/ State(wm, k) = "Iconic"

After(results) == wm.measured /\ CanDraw(wm) /\ wm' \in results /\ UNCHANGED chrome
Command(results) == After(results) /\ UNCHANGED drag

\* A press on what is in a window may take the capture from a drag, which leaves
\* where that would have put the window, and its timer, as they are.
Captured == [drag EXCEPT !.key = NoWindow, !.applied = FALSE]
Press(results) == After(results) /\ drag' \in {drag, Captured}

OpenTerminal(k) == /\ State(wm, k) = "unborn" /\ CanDraw(wm)
                   /\ wm' \in OpenWindow(wm, k) /\ UNCHANGED <<chrome, drag>>
Close(k)     == (Menu(k) \/ Chrome(k)) /\ Command(CloseWindow(wm, k))
AppExited(k) == k \in Terms /\ Live(wm, k) /\ Command(CloseWindow(wm, k))
Minimize(k)  == (Menu(k) \/ Chrome(k)) /\ Command(TransitionWindow(wm, k, "Iconic"))
FlipMaximize(k) == (Menu(k) \/ Chrome(k)) /\ Command(ToggleMaximize(wm, k))
SwitchTo(k)  == Displayed(k) /\ wm.cur # k /\ Live(wm, wm.cur) /\ Command(FocusWindow(wm, k))
Click(k)     == /\ Contains(wm.draw, k) /\ (k \in wm.regions \/ IsFloating(wm, k))
                /\ Press(FocusWindowKey(wm, k))
Raise(k)     == Chrome(k) /\ IsFloating(wm, k) /\ Press({BringToFront(wm, k)})
Tab(step)    == Command(AdvanceFocus(wm, step))
Tile         == Command({ToggleTiling(wm)})
Panel(p)     == Command(TogglePanel(wm, p))
Draw         == wm' \in Frame(wm) /\ chrome' = wm'.regions /\ UNCHANGED drag

\* A drag: pressed in the header, moved, released, or given up by the timer.
\* drag_snap says where the window would be put (snap) and snap_preview whether
\* it would be maximized (top).  Both are fields of the manager, so that a press
\* which replaces the capture finds them as they were.
Dragging == drag.key # NoWindow

PressHeader(k) ==
  /\ k \in Dragged /\ Chrome(k) /\ wm.measured
  /\ wm' = BringToFront(wm, k) /\ UNCHANGED chrome
  /\ drag' = [drag EXCEPT !.key = k, !.applied = FALSE, !.armed = TRUE]

\* A move leaves both fields alone close to where it found a target, and sets or
\* clears both elsewhere; close to where the pointer took the window up, which is
\* where a floating one was pulled out of its maximized state, only drag_snap.
Hints(restored) ==
  LET kept    == <<drag.snap, drag.top>>
      cleared == <<FALSE, drag.top>>
  IN IF ~Live(wm, drag.key) THEN {kept}
     ELSE IF restored THEN {cleared}
     ELSE {kept, cleared, <<TRUE, TRUE>>, <<TRUE, FALSE>>, <<FALSE, FALSE>>}

DragMove ==
  /\ Dragging
  /\ wm' \in DragWindow(wm, drag.key) /\ UNCHANGED chrome
  /\ \E h \in Hints(IsMaximized(wm, drag.key) /\ wm.win[drag.key].prev) :
       drag' = [drag EXCEPT !.snap = h[1], !.top = h[2], !.armed = TRUE]

\* A preview at the top edge maximizes, whether or not drag_snap is set.
DropSnap(S, k) ==
  IF drag.top THEN ToggleMaximize(S, k)
  ELSE IF drag.snap THEN ApplySnap(S, k) ELSE {S}

\* Without a preview a press that moved is a detachment, also of a window that
\* never left the dead zone of two cells.
DragRelease ==
  /\ Dragging /\ CanDraw(wm) /\ drag' = NoDrag /\ UNCHANGED chrome
  /\ wm' \in IF drag.top \/ drag.snap \/ drag.applied
              THEN DropSnap(wm, drag.key)
              ELSE {wm} \cup {FloatAll(T) : T \in Detach(wm, drag.key)}

DragTimer ==
  /\ drag.armed /\ CanDraw(wm) /\ drag' = NoDrag /\ UNCHANGED chrome
  /\ wm' \in IF Dragging THEN DropSnap(wm, drag.key) ELSE {wm}

\* The pointer moves without its button: the release was lost.
DragMoved ==
  /\ Dragging /\ drag.snap /\ CanDraw(wm)
  /\ wm' \in ApplySnap(wm, drag.key) /\ UNCHANGED chrome
  /\ drag' = [drag EXCEPT !.snap = FALSE, !.top = FALSE, !.applied = TRUE, !.armed = FALSE]

Next == \/ \E k \in Terms : OpenTerminal(k) \/ AppExited(k)
        \/ \E k \in Window : \/ Close(k) \/ Minimize(k) \/ FlipMaximize(k) \/ SwitchTo(k)
                             \/ Click(k) \/ Raise(k) \/ PressHeader(k)
        \/ \E step \in {-1, 1} : Tab(step)
        \/ \E p \in Panels : Panel(p)
        \/ Tile \/ Draw \/ DragMove \/ DragRelease \/ DragTimer \/ DragMoved

Spec == Init /\ [][Next]_vars

-----------------------------------------------------------------------------
\* No two windows wait for the same Void of the tree.
PlaceholdersDistinct ==
  \A j, k \in Window : j # k => wm.win[j].void # wm.win[k].void \/ wm.win[j].void = NoVoid

WindowTypeOK ==
  /\ PlaceholdersDistinct
  /\ wm.win \in [Window -> [st : States, float : BOOLEAN, max : BOOLEAN, prev : BOOLEAN,
                            void : VoidId \cup {NoVoid}]]
  /\ wm.tree \in [leaves : SUBSET Window, voids : SUBSET VoidId, bare : BOOLEAN] \cup {NoTree}
  /\ \A s \in {wm.z, wm.draw, wm.ring} : IsInjective(s) /\ Range(s) \subseteq Window
  /\ wm.cur \in Window \cup {NoWindow} /\ wm.regions \subseteq Window
  /\ chrome \subseteq Window
  /\ drag \in [key : Window \cup {NoWindow}, applied : BOOLEAN,
               snap : BOOLEAN, top : BOOLEAN, armed : BOOLEAN]

Placed(S, k) == S.win[k].float \/ Has(S.tree, k)
Hidden(S) == {k \in Window : S.win[k].st \in {"Iconic", "Unmapped"}}

\* Once the screen is measured no step leaves a mapped window without a place,
\* neither a rectangle of its own nor a leaf: not minimizing and restoring it,
\* not losing the Void it left, not the other windows' changes of mode.  The
\* exception is the window whose header is let go where nothing is previewed and
\* nothing has been applied (DragRelease, see NothingLost): it stays mapped and is
\* drawn nowhere.  A snap, whether by the release, by the timer or by the pointer
\* that moves without its button, places the window.
Unaimed == ~(drag.snap \/ drag.top \/ drag.applied)
PlaceKept ==
  [][\A k \in Mapped(wm') : wm'.measured =>
        \/ Placed(wm', k)
        \/ k \in Mapped(wm) /\ wm.measured /\ ~Placed(wm, k)
        \/ drag.key = k /\ drag' = NoDrag /\ Unaimed]_vars

\* The stacking order and the draw order agree with the windows' states: every
\* mapped window is stacked and drawn; nothing closed is, nor does Tab reach it.
StackingOrder ==
  /\ Mapped(wm) \subseteq Range(wm.draw)
  /\ Range(wm.draw) \subseteq Range(wm.z)
  /\ \A k \in Range(wm.z) \cup Range(wm.ring) : wm.win[k].st \in {"Mapped", "Iconic"}

\* Tab reaches every mapped window: mapping one puts it into the focus ring,
\* and it leaves the ring only at a frame that finds no place for it.
RingKept ==
  [][\A k \in Mapped(wm') \ Range(wm'.ring) :
        k \in Mapped(wm) /\ (~Placed(wm, k) \/ k \notin Range(wm.ring))]_vars

\* Stated by the code, and false.
\* detach_from_tiling_layout removes a window from the tree: no leaf is left
\* of a window that was minimized, closed or destroyed.
NoGhostLeaf == wm.tree # NoTree => wm.tree.leaves \subseteq Mapped(wm)

\* A mapped window is somewhere on the screen.
NothingLost == wm.measured => \A k \in Mapped(wm) : Placed(wm, k)

\* is_valid_transition, asserted by transition_window in debug builds.
LegalTransitions ==
  [][\A k \in Window : <<wm.win[k].st, wm'.win[k].st>> \notin
       {<<"Iconic", "Unmapped">>, <<"Iconic", "dead">>, <<"Unmapped", "Iconic">>}]_vars
=============================================================================
