---------------------------- MODULE SystemTasks -----------------------------
(***************************************************************************)
(* What the window manager does with its scheduler of system tasks: the    *)
(* timeout of a resting drag, the debounced toast of an input mode, the    *)
(* time a notification and the outline of the focused window stay.         *)
(* run_event_loop drains the scheduler, handles each task it got, and only *)
(* then goes on to events.                                                 *)
(*                                                                         *)
(* Payloads, titles and what a snap does (WindowManager) are left out.     *)
(* temporal_timer_id is left out: nothing but its own handler arms it.     *)
(***************************************************************************)
EXTENDS Scheduler

CONSTANTS
  Windows,
  Debounce,     \* DIRECT_MODE_TOAST_DEBOUNCE
  Ttl,          \* of a notification
  SnapTimeout,  \* config.drag_snap_timeout, when there is one
  Outline,      \* TAB_OUTLINE_DURATION
  Capacity      \* MAX_CAPACITY of the notification queue

\* enum SystemTask.
DragSnap == [kind |-> "snap"]
DismissNotification(n) == [kind |-> "dismiss", note |-> n]
FlushDirectModeToast(w) == [kind |-> "flush", window |-> w]
ClearTabOutline == [kind |-> "outline"]

ASSUME SystemTaskAssumption ==
  /\ {Debounce, Ttl, SnapTimeout, Outline} \subseteq Delay /\ Capacity \in Nat \ {0}
  /\ DragSnap \in Task /\ ClearTabOutline \in Task
  /\ \A w \in Windows : FlushDirectModeToast(w) \in Task
  /\ \A n \in 0..MaxId : DismissNotification(n) \in Task

VARIABLES
  open,       \* windows that exist
  pending,    \* KeyedTaskDebouncer: per window the flush that is armed and, for the
              \* properties, since when
  notes,      \* NotificationQueue: what is shown, oldest first
  nextNote,
  capture,    \* mouse_capture: "drag" (DraggingWindow), "other", or "none"
  dragTimer,  \* drag_timer_id
  rested,     \* drag_last_event
  outline     \* tab_outline_until

wmVars == <<open, pending, notes, nextNote, capture, dragTimer, rested, outline>>
vars == <<schedulerVars, wmVars>>

None == [id |-> NoId, since |-> NoTime]

Init ==
  /\ SchedulerInit
  /\ open = Windows /\ pending = [w \in Windows |-> None]
  /\ notes = <<>> /\ nextNote = 0
  /\ capture = "none" /\ dragTimer = NoId /\ rested = NoTime /\ outline = NoTime

\* Events are handled when no drained task is left.
Event == fired = <<>> /\ UNCHANGED fired

Toasts == <<open, pending>>
Notes  == <<notes, nextNote>>
Mouse  == <<capture, dragTimer, rested>>

\* push_notification; the oldest goes when the queue is full.
Push ==
  /\ Schedule(NoId, Ttl, 0, DismissNotification(nextNote))
  /\ notes' = Append(IF Len(notes) >= Capacity THEN Tail(notes) ELSE notes, nextNote)
  /\ nextNote' = nextNote + 1

Notify == Event /\ Push /\ UNCHANGED <<Toasts, Mouse, outline>>

\* Fault: every submit of a burst arms a flush.
SubmitRearms(w) ==
  /\ Schedule(NoId, Debounce, 0, FlushDirectModeToast(w))
  /\ pending' = [pending EXCEPT ![w] = [id |-> nextId, since |-> now]]

\* KeyedTaskDebouncer::submit: only the first of a burst arms the flush.
Submit(w) ==
  IF pending[w] # None
  THEN Calm /\ UNCHANGED <<heap, cancelled, nextId, pending>>
  ELSE /\ Schedule(NoId, Debounce, 0, FlushDirectModeToast(w))
       /\ pending' = [pending EXCEPT ![w] = [id |-> nextId, since |-> now]]

\* The transitions come after the exits of the same round: the window may be gone.
DirectInputModeChanged(w) == Event /\ Submit(w) /\ UNCHANGED <<open, Notes, Mouse, outline>>

CloseWindow(w) ==
  /\ Event /\ w \in open
  /\ open' = open \ {w} /\ pending' = [pending EXCEPT ![w] = None]
  /\ Cancel(pending[w].id)
  /\ UNCHANGED <<Notes, Mouse, outline>>

AdvanceFocus ==
  /\ Event /\ Schedule(NoId, Outline, 0, ClearTabOutline)
  /\ outline' = now + Outline
  /\ UNCHANGED <<Toasts, Notes, Mouse>>

\* Fault: the timer of the last movement is left to run.
ArmAnother == Schedule(NoId, SnapTimeout, 0, DragSnap) /\ dragTimer' = nextId

\* arm_drag_snap_timer, reset_drag_snap_timer.
Arm == Schedule(dragTimer, SnapTimeout, 0, DragSnap) /\ dragTimer' = nextId
Disarm == Cancel(dragTimer) /\ dragTimer' = NoId

\* A press looks at no capture: a second button may come down in a drag.
PressHeader ==
  /\ Event /\ Arm /\ capture' = "drag" /\ rested' = now
  /\ UNCHANGED <<Toasts, Notes, outline>>

PressOther ==
  /\ Event /\ Calm /\ capture' = "other"
  /\ UNCHANGED <<heap, cancelled, nextId, dragTimer, rested, Toasts, Notes, outline>>

DragMove ==
  /\ Event /\ capture = "drag" /\ Arm /\ rested' = now
  /\ UNCHANGED <<capture, Toasts, Notes, outline>>

Release ==
  /\ Event /\ capture # "none" /\ capture' = "none"
  /\ IF capture = "drag" THEN Disarm /\ rested' = NoTime
     ELSE Calm /\ UNCHANGED <<heap, cancelled, nextId, dragTimer, rested>>
  /\ UNCHANGED <<Toasts, Notes, outline>>

\* The mouse moves with the button up, unnoticed, where a snap was previewed.
MovedSnap ==
  /\ Event /\ capture = "drag" /\ Disarm /\ rested' = NoTime
  /\ UNCHANGED <<capture, Toasts, Notes, outline>>

\* clear_capture: of the drag only the timer goes.
ClearCapture ==
  /\ Event /\ Disarm /\ UNCHANGED <<capture, rested, Toasts, Notes, outline>>

(***************************************************************************)
(* The handlers of the drained tasks.                                      *)
(***************************************************************************)
Fires(t) == fired # <<>> /\ Head(fired).task = t /\ Take

\* What is left of s without its i-th element.
RemoveAt(s, i) == [j \in 1..(Len(s) - 1) |-> IF j < i THEN s[j] ELSE s[j + 1]]

\* The capture is taken whatever it is.
ApplyDragSnap ==
  /\ Fires(DragSnap) /\ Calm /\ capture' = "none"
  /\ IF capture = "drag" THEN dragTimer' = NoId /\ rested' = NoTime
     ELSE UNCHANGED <<dragTimer, rested>>
  /\ UNCHANGED <<heap, cancelled, nextId, Toasts, Notes, outline>>

Dismiss ==
  \E n \in 0..MaxId :
    /\ Fires(DismissNotification(n)) /\ Calm
    /\ \/ \E i \in DOMAIN notes : notes[i] = n /\ notes' = RemoveAt(notes, i)
       \/ (\A i \in DOMAIN notes : notes[i] # n) /\ UNCHANGED notes
    /\ UNCHANGED <<heap, cancelled, nextId, nextNote, Toasts, Mouse, outline>>

FlushToast(w) ==
  /\ Fires(FlushDirectModeToast(w))
  /\ pending' = [pending EXCEPT ![w] = None]
  /\ IF pending[w] # None /\ w \in open THEN Push
     ELSE Calm /\ UNCHANGED <<heap, cancelled, nextId, Notes>>
  /\ UNCHANGED <<open, Mouse, outline>>

ClearOutline ==
  /\ Fires(ClearTabOutline) /\ Calm
  /\ outline' = IF outline # NoTime /\ now >= outline THEN NoTime ELSE outline
  /\ UNCHANGED <<heap, cancelled, nextId, Toasts, Notes, Mouse>>

Handle == ApplyDragSnap \/ Dismiss \/ (\E w \in Windows : FlushToast(w)) \/ ClearOutline

Clock ==
  /\ Pass \/ TimeUntilNext \/ DrainStart \/ (\E e \in heap : DrainPop(e)) \/ DrainEnd
  /\ UNCHANGED wmVars

Next ==
  \/ Clock \/ Handle
  \/ Notify \/ AdvanceFocus
  \/ \E w \in Windows : DirectInputModeChanged(w) \/ CloseWindow(w)
  \/ PressHeader \/ PressOther \/ DragMove \/ Release \/ MovedSnap \/ ClearCapture

Spec == Init /\ [][Next]_vars

-----------------------------------------------------------------------------
(***************************************************************************)
(* Every transient thing has the timer that ends it.                       *)
(***************************************************************************)
\* The firings still to come: of the entries that are not cancelled, and those
\* drained and not handled yet.
Coming == {[id |-> e.id, task |-> e.task] : e \in Live} \cup {fired[i] : i \in DOMAIN fired}

\* A buffered toast has the one flush of its window, which was armed by the first
\* submit of the burst and is not put off by the others.
ToastsArmed ==
  \A w \in Windows :
    /\ {f \in Coming : f.task = FlushDirectModeToast(w)}
       = IF pending[w] = None THEN {}
         ELSE {[id |-> pending[w].id, task |-> FlushDirectModeToast(w)]}
    /\ \A e \in Live : e.id = pending[w].id => e.at = pending[w].since + Debounce

\* A notification that is shown is going to be dismissed.
NotesArmed ==
  \A i \in DOMAIN notes : \E f \in Coming : f.task = DismissNotification(notes[i])

\* An outline is going to be cleared: by a task that does not come too early.
OutlineArmed ==
  outline # NoTime =>
    \/ \E e \in Live : e.task = ClearTabOutline /\ e.at >= outline
    \/ now >= outline /\ \E f \in Coming : f.task = ClearTabOutline

\* There is no drag timer but the one that is remembered and can be cancelled.
OneDragTimer == \A f \in Coming : f.task = DragSnap => f.id = dragTimer

TransientsEnd == ToastsArmed /\ NotesArmed /\ OutlineArmed /\ OneDragTimer

\* The timer never ends a drag that has moved within the timeout.
SnapsAfterRest ==
  [][capture = "drag" /\ capture' # "drag" /\ fired' # fired
     => rested # NoTime /\ now - rested >= SnapTimeout]_<<capture, fired>>

\* The drag timer ends nothing but drags.
OnlyDragsTimeOut ==
  [][capture = "other" /\ fired' # fired => capture' = "other"]_<<capture, fired>>
=============================================================================
