------------------------- MODULE SystemTasksProofs --------------------------
(* The timer heap is the set of timers it stands for, and what the window  *)
(* manager shows for a time ends, for every set of windows, every duration *)
(* and every bound.                                                        *)
EXTENDS SystemTasks, TLAPS

(***************************************************************************)
(* The scheduler.  An identifier stands for one entry, and only what was   *)
(* issued can be cancelled: so nothing new is born cancelled, and an       *)
(* identifier leaves the cancelled set together with its entry.            *)
(***************************************************************************)
Entry == [at : Nat, every : Nat, task : Task, id : Nat]

HeapInv ==
  /\ now \in Nat /\ nextId \in Nat \ {0}
  /\ heap \subseteq Entry
  /\ \A e \in heap : e.id < nextId
  /\ \A e, f \in heap : e.id = f.id => e = f
  /\ \A id \in cancelled : id \in Nat /\ id < nextId
  /\ limit # NoTime => answer = NoTime

\* A call of the owning thread keeps it.
LEMMA CallKeeps == ASSUME SchedulerAssumption, HeapInv, Call PROVE HeapInv'
<1>1. ASSUME NEW id \in 1..(nextId - 1) \cup {NoId}, Cancel(id) PROVE HeapInv'
  BY <1>1 DEF Cancel, Calm, HeapInv
<1>2. ASSUME NEW old \in 1..(nextId - 1) \cup {NoId}, NEW after \in Delay \cup {0},
             NEW every \in Delay \cup {0}, NEW t \in Task, Schedule(old, after, every, t)
      PROVE  HeapInv'
  <2> DEFINE new == [at |-> now + after, every |-> every, task |-> t, id |-> nextId]
  <2>1. new \in Entry /\ new.id = nextId
    BY DEF Entry, HeapInv, SchedulerAssumption
  <2>2. heap' = heap \cup {new} /\ nextId' = nextId + 1 /\ now' = now
    BY <1>2 DEF Schedule, Calm
  <2>3. cancelled' = cancelled \cup ({old} \ {NoId})
    BY <1>2 DEF Schedule
  <2> HIDE DEF new
  <2>4. heap' \subseteq Entry /\ \A e \in heap' : e.id < nextId'
    BY <2>1, <2>2 DEF HeapInv, Entry
  <2>5. \A e, f \in heap' : e.id = f.id => e = f
    BY <2>1, <2>2 DEF HeapInv, Entry
  <2>6. \A id \in cancelled' : id \in Nat /\ id < nextId'
    BY <2>2, <2>3 DEF HeapInv
  <2>7. limit' = NoTime
    BY <1>2 DEF Schedule, Calm
  <2> QED BY <2>2, <2>4, <2>5, <2>6, <2>7 DEF HeapInv
<1> QED BY <1>1, <1>2 DEF Call

\* A popped entry leaves no other entry with its identifier, but itself.
LEMMA PopKeeps ==
  ASSUME HeapInv, NEW e \in heap, DrainPop(e) PROVE HeapInv'
<1>1. CASE e.id \in cancelled
  BY <1>1 DEF DrainPop, HeapInv
<1>2. CASE e.id \notin cancelled
  <2>1. e \in Entry /\ [e EXCEPT !.at = @ + e.every] \in Entry
        /\ [e EXCEPT !.at = @ + e.every].id = e.id
    BY DEF HeapInv, Entry
  <2>2. \A f \in Reinserted(e) : f \in Entry /\ f.id = e.id
    BY <2>1 DEF Reinserted
  <2>3. \A f, g \in Reinserted(e) : f = g
    BY DEF Reinserted
  <2>4. heap' = (heap \ {e}) \cup Reinserted(e) /\ UNCHANGED <<now, nextId, cancelled>>
    BY <1>2 DEF DrainPop
  <2>5. heap' \subseteq Entry /\ \A f \in heap' : f.id < nextId'
    BY <2>2, <2>4 DEF HeapInv
  <2>6. \A f, g \in heap' : f.id = g.id => f = g
    BY <2>2, <2>3, <2>4 DEF HeapInv
  <2>7. answer' = NoTime
    BY DEF DrainPop
  <2> QED BY <2>4, <2>5, <2>6, <2>7 DEF HeapInv
<1> QED BY <1>1, <1>2

\* Every step of the scheduler keeps the invariant.
LEMMA HeapKept ==
  ASSUME SchedulerAssumption, HeapInv, [SchedulerNext]_schedulerVars PROVE HeapInv'
<1>1. CASE Pass
  BY <1>1 DEF Pass, HeapInv
<1>2. CASE TimeUntilNext
  BY <1>2 DEF TimeUntilNext, Purged, HeapInv
<1>3. CASE DrainStart
  BY <1>3 DEF DrainStart, HeapInv
<1>4. CASE DrainEnd
  BY <1>4 DEF DrainEnd, HeapInv
<1>5. ASSUME NEW e \in heap, DrainPop(e) PROVE HeapInv'
  BY <1>5, PopKeeps
<1>6. CASE Call
  BY <1>6, CallKeeps
<1>7. CASE UNCHANGED schedulerVars
  BY <1>7 DEF schedulerVars, HeapInv
<1> QED BY <1>1, <1>2, <1>3, <1>4, <1>5, <1>6, <1>7 DEF SchedulerNext

(***************************************************************************)
(* Step by step, the heap without its cancelled entries is the timer set.  *)
(***************************************************************************)
\* Purging takes no live entry and leaves a live one, or none, on top.
LEMMA PurgeHidden ==
  ASSUME HeapInv, NEW e, Top(e, heap \ Purged) PROVE e.id \notin cancelled
<1>1. e \in heap /\ e \notin Purged
  BY DEF Top
<1>2. PICK f \in heap : Before(f, e) /\ f.id \notin cancelled
  BY <1>1 DEF Purged
<1>3. f \in Entry /\ e \in Entry
  BY <1>1 DEF HeapInv
<1>4. Before(f, f)
  BY <1>3 DEF Before, Entry
<1>5. f \in heap \ Purged
  BY <1>2, <1>4 DEF Purged
<1>6. Before(e, f)
  BY <1>5 DEF Top
<1>7. e.id = f.id
  BY <1>2, <1>3, <1>6 DEF Before, Entry
<1> QED BY <1>2, <1>7

\* time_until_next changes nothing that counts and answers for the first timer.
LEMMA AskRefines ==
  ASSUME SchedulerAssumption, HeapInv, TimeUntilNext PROVE TimerSet!Ask
<1> DEFINE left == heap \ Purged
<1>1. \A e \in Purged : e \in heap /\ e.id \in cancelled
  <2> SUFFICES ASSUME NEW e \in Purged PROVE e \in heap /\ e.id \in cancelled
    OBVIOUS
  <2>1. e \in heap /\ e \in Entry
    BY DEF Purged, HeapInv
  <2>2. Before(e, e)
    BY <2>1 DEF Before, Entry
  <2> QED BY <2>1, <2>2 DEF Purged
<1>2. heap' = left /\ cancelled' = cancelled \ {e.id : e \in Purged}
  BY DEF TimeUntilNext
<1>3. \A e \in left : e.id \in cancelled' <=> e.id \in cancelled
  BY <1>1, <1>2 DEF HeapInv
<1>4. Live' = Live
  BY <1>1, <1>2, <1>3 DEF Live
<1>5. CASE left = {} /\ answer' = NoTime
  <2>1. Live = {}
    BY <1>2, <1>4, <1>5 DEF Live
  <2> QED BY <1>4, <1>5, <2>1 DEF TimeUntilNext, TimerSet!Ask
<1>6. ASSUME NEW e \in left, Top(e, left), answer' = IF e.at > now THEN e.at - now ELSE 0
      PROVE  TimerSet!Ask
  <2>1. e \in Live
    BY <1>6, PurgeHidden DEF Live
  <2>2. \A f \in Live : f \in left
    BY <1>1 DEF Live
  <2>3. TimerSet!Leads(e, Live)
    BY <1>6, <2>1, <2>2 DEF Top, Before, TimerSet!Leads, TimerSet!Before
  <2> QED BY <1>4, <1>6, <2>1, <2>3 DEF TimeUntilNext, TimerSet!Ask
<1> QED BY <1>5, <1>6 DEF TimeUntilNext

\* The popped entry is the first timer and goes off, or was no timer any more.
LEMMA PopRefines ==
  ASSUME SchedulerAssumption, HeapInv, NEW e \in heap, DrainPop(e)
  PROVE  (TimerSet!GoOff(e) /\ e \in Live) \/ UNCHANGED <<now, Live, nextId, limit, fired>>
<1>1. CASE e.id \in cancelled
  <2>1. heap' = heap \ {e} /\ cancelled' = cancelled \ {e.id}
        /\ UNCHANGED <<now, nextId, limit, fired>>
    BY <1>1 DEF DrainPop
  <2>2. \A f \in heap' : f.id # e.id
    BY <2>1 DEF HeapInv
  <2>3. Live' = Live
    BY <1>1, <2>1, <2>2 DEF Live
  <2> QED BY <2>1, <2>3
<1>2. CASE e.id \notin cancelled
  <2>1. heap' = (heap \ {e}) \cup Reinserted(e) /\ cancelled' = cancelled
    BY <1>2 DEF DrainPop
  <2>2. \A f \in Reinserted(e) : f.id = e.id
    BY DEF Reinserted, HeapInv, Entry
  <2>3. Live' = (Live \ {e}) \cup Reinserted(e)
    BY <1>2, <2>1, <2>2 DEF Live
  <2>4. e \in Live /\ TimerSet!Leads(e, Live)
    BY <1>2 DEF DrainPop, Top, Before, TimerSet!Leads, TimerSet!Before, Live
  <2> QED BY <1>2, <2>3, <2>4 DEF DrainPop, TimerSet!GoOff, Reinserted
<1> QED BY <1>1, <1>2

\* A call cancels timers, and sets at most one.
LEMMA CallRefines ==
  ASSUME SchedulerAssumption, HeapInv, Call
  PROVE  \E C \in SUBSET Live : TimerSet!Change(C)
<1>1. fired' \in TimerSet!Taken
  BY DEF Call, Take, TimerSet!Taken
<1>2. ASSUME NEW id \in 1..(nextId - 1) \cup {NoId}, Cancel(id)
      PROVE  \E C \in SUBSET Live : TimerSet!Change(C)
  <2> DEFINE C == {e \in Live : e.id = id}
  <2>1. \A e \in heap : e.id # NoId
    BY DEF HeapInv, Entry, SchedulerAssumption
  <2>2. Live' = Live \ C
    BY <1>2, <2>1 DEF Cancel, Live
  <2>3. TimerSet!Change(C)
    BY <1>1, <1>2, <2>2 DEF Cancel, Calm, TimerSet!Change
  <2>4. C \in SUBSET Live
    OBVIOUS
  <2> QED BY <2>3, <2>4
<1>3. ASSUME NEW old \in 1..(nextId - 1) \cup {NoId}, NEW after \in Delay \cup {0},
             NEW every \in Delay \cup {0}, NEW t \in Task, Schedule(old, after, every, t)
      PROVE  \E C \in SUBSET Live : TimerSet!Change(C)
  <2> DEFINE C == {e \in Live : e.id = old}
             new == [at |-> now + after, every |-> every, task |-> t, id |-> nextId]
  <2>1. \A e \in heap : e.id # NoId /\ e.id # nextId
    BY DEF HeapInv, Entry, SchedulerAssumption
  <2>2. nextId \notin cancelled /\ nextId # old
    BY DEF HeapInv, SchedulerAssumption
  <2>3. new.id = nextId
    OBVIOUS
  <2>4. heap' = heap \cup {new} /\ cancelled' = cancelled \cup ({old} \ {NoId})
    BY <1>3 DEF Schedule
  <2> HIDE DEF new
  <2>5. Live' = (Live \ C) \cup {new}
    <3>1. new.id \notin cancelled'
      BY <2>2, <2>3, <2>4
    <3>2. \A e \in heap : e.id \in cancelled' <=> e.id \in cancelled \/ e.id = old
      BY <2>1, <2>4
    <3> QED BY <2>4, <3>1, <3>2 DEF Live
  <2>6. TimerSet!Change(C)
    BY <1>1, <1>3, <2>5 DEF Schedule, Calm, TimerSet!Change, new
  <2>7. C \in SUBSET Live
    OBVIOUS
  <2> QED BY <2>6, <2>7
<1> QED BY <1>2, <1>3 DEF Call

LEMMA SchedulerRefines ==
  ASSUME SchedulerAssumption, HeapInv, [SchedulerNext]_schedulerVars
  PROVE  [TimerSet!Next]_(TimerSet!vars)
<1>1. CASE Pass
  BY <1>1 DEF Pass, Live, TimerSet!Next, TimerSet!Pass
<1>2. CASE TimeUntilNext
  BY <1>2, AskRefines DEF TimerSet!Next
<1>3. CASE DrainStart
  BY <1>3 DEF DrainStart, Live, TimerSet!Next, TimerSet!Begin
<1>4. CASE DrainEnd
  BY <1>4 DEF DrainEnd, Live, TimerSet!Next, TimerSet!End
<1>5. ASSUME NEW e \in heap, DrainPop(e) PROVE [TimerSet!Next]_(TimerSet!vars)
  <2>1. CASE TimerSet!GoOff(e) /\ e \in Live
    BY <2>1 DEF TimerSet!Next
  <2>2. CASE UNCHANGED <<now, Live, nextId, limit, fired>>
    BY <1>5, <2>2 DEF TimerSet!vars, DrainPop, HeapInv
  <2> QED BY <1>5, <2>1, <2>2, PopRefines
<1>6. CASE Call
  BY <1>6, CallRefines DEF TimerSet!Next
<1>7. CASE UNCHANGED schedulerVars
  BY <1>7 DEF schedulerVars, Live, TimerSet!vars
<1> QED BY <1>1, <1>2, <1>3, <1>4, <1>5, <1>6, <1>7 DEF SchedulerNext

(***************************************************************************)
(* The window manager calls the scheduler as its owner does.  It needs to  *)
(* know that what it remembers was issued, and that the numbers of its     *)
(* notifications stay below those of the timers that dismiss them.         *)
(***************************************************************************)
Remembered ==
  /\ pending \in [Windows -> [id : 1..(nextId - 1), since : Nat] \cup {None}]
  /\ dragTimer \in 1..(nextId - 1) \cup {NoId}
  /\ nextNote \in Nat /\ nextNote < nextId

LEMMA RememberedIds ==
  ASSUME Remembered, NEW w \in Windows
  PROVE  pending[w].id \in 1..(nextId - 1) \cup {NoId}
BY DEF Remembered, None

\* A call that leaves the heap alone is the cancelling of nothing.
LEMMA CalmIsCall ==
  ASSUME Calm, UNCHANGED <<heap, cancelled, nextId>>, UNCHANGED fired \/ Take PROVE Call
<1>1. Cancel(NoId)
  BY DEF Cancel
<1> QED BY <1>1 DEF Call

LEMMA CancelIsCall ==
  ASSUME NEW id \in 1..(nextId - 1) \cup {NoId}, Cancel(id), UNCHANGED fired PROVE Call
BY DEF Call

LEMMA ScheduleIsCall ==
  ASSUME NEW old \in 1..(nextId - 1) \cup {NoId}, NEW after \in Delay, NEW t \in Task,
         Schedule(old, after, 0, t), UNCHANGED fired \/ Take
  PROVE  Call
BY DEF Call

LEMMA PushIsCall ==
  ASSUME SchedulerAssumption, SystemTaskAssumption, HeapInv, Remembered, Push,
         UNCHANGED fired \/ Take
  PROVE  Call
<1>1. Schedule(NoId, Ttl, 0, DismissNotification(nextNote)) /\ nextId <= MaxId
  BY DEF Push, Schedule
<1>2. nextNote \in 0..MaxId
  BY <1>1 DEF Remembered, HeapInv, SchedulerAssumption
<1>3. DismissNotification(nextNote) \in Task /\ Ttl \in Delay
  BY <1>2 DEF SystemTaskAssumption
<1> QED BY <1>1, <1>3, ScheduleIsCall

LEMMA ArmIsCall ==
  ASSUME SystemTaskAssumption, Remembered, Arm, UNCHANGED fired PROVE Call
BY ScheduleIsCall DEF Arm, Remembered, SystemTaskAssumption

LEMMA DisarmIsCall == ASSUME Remembered, Disarm, UNCHANGED fired PROVE Call
BY CancelIsCall DEF Disarm, Remembered

LEMMA StepsAreCalls ==
  ASSUME SchedulerAssumption, SystemTaskAssumption, HeapInv, Remembered, Next
  PROVE  SchedulerNext
<1>1. CASE Clock
  BY <1>1 DEF Clock, SchedulerNext
<1>2. CASE Notify
  BY <1>2, PushIsCall DEF Notify, Event, SchedulerNext
<1>3. CASE AdvanceFocus
  BY <1>3, ScheduleIsCall DEF AdvanceFocus, Event, SystemTaskAssumption, SchedulerNext
<1>4. ASSUME NEW w \in Windows, DirectInputModeChanged(w) PROVE SchedulerNext
  <2>1. CASE pending[w] # None
    BY <1>4, <2>1, CalmIsCall DEF DirectInputModeChanged, Submit, Event, SchedulerNext
  <2>2. CASE pending[w] = None
    BY <1>4, <2>2, ScheduleIsCall
    DEF DirectInputModeChanged, Submit, Event, SystemTaskAssumption, SchedulerNext
  <2> QED BY <2>1, <2>2
<1>5. ASSUME NEW w \in Windows, CloseWindow(w) PROVE SchedulerNext
  BY <1>5, CancelIsCall, RememberedIds DEF CloseWindow, Event, SchedulerNext
<1>6. CASE PressHeader \/ DragMove
  BY <1>6, ArmIsCall DEF PressHeader, DragMove, Event, SchedulerNext
<1>7. CASE PressOther
  BY <1>7, CalmIsCall DEF PressOther, Event, SchedulerNext
<1>8. CASE Release
  BY <1>8, CalmIsCall, DisarmIsCall DEF Release, Event, SchedulerNext
<1>9. CASE MovedSnap \/ ClearCapture
  BY <1>9, DisarmIsCall DEF MovedSnap, ClearCapture, Event, SchedulerNext
<1>10. CASE ApplyDragSnap
  BY <1>10, CalmIsCall DEF ApplyDragSnap, Fires, SchedulerNext
<1>11. CASE Dismiss
  BY <1>11, CalmIsCall DEF Dismiss, Fires, SchedulerNext
<1>12. ASSUME NEW w \in Windows, FlushToast(w) PROVE SchedulerNext
  BY <1>12, CalmIsCall, PushIsCall DEF FlushToast, Fires, SchedulerNext
<1>13. CASE ClearOutline
  BY <1>13, CalmIsCall DEF ClearOutline, Fires, SchedulerNext
<1> QED
  BY <1>1, <1>2, <1>3, <1>4, <1>5, <1>6, <1>7, <1>8, <1>9, <1>10, <1>11, <1>12, <1>13
  DEF Next, Handle

\* What is remembered stays issued.
LEMMA RememberedKept ==
  ASSUME SchedulerAssumption, SystemTaskAssumption, HeapInv, Remembered, [Next]_vars
  PROVE  Remembered'
<1> USE DEF Toasts, Notes, Mouse
<1>1. ASSUME UNCHANGED <<pending, dragTimer, nextNote>>, nextId' \in {nextId, nextId + 1}
      PROVE  Remembered'
  <2>1. nextId' \in Nat \ {0} /\ 1..(nextId - 1) \subseteq 1..(nextId' - 1) /\ nextId <= nextId'
    BY <1>1 DEF HeapInv
  <2>2. pending' \in [Windows -> [id : 1..(nextId' - 1), since : Nat] \cup {None}]
    BY <1>1, <2>1 DEF Remembered
  <2>3. dragTimer' \in 1..(nextId' - 1) \cup {NoId}
    BY <1>1, <2>1 DEF Remembered
  <2>4. nextNote' \in Nat /\ nextNote' < nextId'
    <3>1. nextNote' = nextNote /\ nextNote \in Nat /\ nextNote < nextId /\ nextId \in Nat
      BY <1>1 DEF Remembered, HeapInv
    <3> QED BY <2>1, <3>1
  <2> QED BY <2>2, <2>3, <2>4 DEF Remembered, None
<1>2. CASE Clock
  <2>1. nextId' = nextId
    BY <1>2 DEF Clock, Pass, TimeUntilNext, DrainStart, DrainPop, DrainEnd
  <2> QED BY <1>1, <1>2, <2>1 DEF Clock, wmVars
<1>3. ASSUME Push, UNCHANGED dragTimer,
             pending' = pending \/ \E w \in Windows : pending' = [pending EXCEPT ![w] = None]
      PROVE  Remembered'
  BY <1>3 DEF Push, Schedule, Remembered, HeapInv
<1>4. CASE Notify
  BY <1>3, <1>4 DEF Notify
<1>5. CASE AdvanceFocus
  BY <1>1, <1>5 DEF AdvanceFocus, Schedule
<1>6. ASSUME NEW w \in Windows, DirectInputModeChanged(w) PROVE Remembered'
  <2>1. CASE pending[w] # None
    BY <1>1, <1>6, <2>1 DEF DirectInputModeChanged, Submit
  <2>2. CASE pending[w] = None
    BY <1>6, <2>2 DEF DirectInputModeChanged, Submit, Schedule, Remembered, HeapInv
  <2> QED BY <2>1, <2>2
<1>7. ASSUME NEW w \in Windows, CloseWindow(w) PROVE Remembered'
  BY <1>7 DEF CloseWindow, Cancel, Remembered
<1>8. CASE PressHeader \/ DragMove
  BY <1>8 DEF PressHeader, DragMove, Arm, Schedule, Remembered, HeapInv
<1>9. CASE PressOther
  BY <1>1, <1>9 DEF PressOther
<1>10. CASE Release
  BY <1>10 DEF Release, Disarm, Cancel, Remembered
<1>11. CASE MovedSnap \/ ClearCapture
  BY <1>11 DEF MovedSnap, ClearCapture, Disarm, Cancel, Remembered
<1>12. CASE ApplyDragSnap
  BY <1>12 DEF ApplyDragSnap, Remembered
<1>13. CASE Dismiss \/ ClearOutline
  BY <1>1, <1>13 DEF Dismiss, ClearOutline
<1>14. ASSUME NEW w \in Windows, FlushToast(w) PROVE Remembered'
  <2>1. CASE pending[w] # None /\ w \in open
    BY <1>3, <1>14, <2>1 DEF FlushToast
  <2>2. CASE ~(pending[w] # None /\ w \in open)
    BY <1>14, <2>2 DEF FlushToast, Remembered
  <2> QED BY <2>1, <2>2
<1>15. CASE UNCHANGED vars
  BY <1>1, <1>15 DEF vars, schedulerVars, wmVars
<1> QED
  BY <1>2, <1>4, <1>5, <1>6, <1>7, <1>8, <1>9, <1>10, <1>11, <1>12, <1>13, <1>14, <1>15
  DEF Next, Handle

LEMMA HeapHolds ==
  ASSUME SchedulerAssumption, SystemTaskAssumption
  PROVE  Spec => [](HeapInv /\ Remembered)
<1>1. Init => HeapInv /\ Remembered
  BY DEF Init, SchedulerInit, HeapInv, Remembered
<1>2. HeapInv /\ Remembered /\ [Next]_vars => (HeapInv /\ Remembered)'
  BY HeapKept, RememberedKept, StepsAreCalls DEF vars
<1> QED BY <1>1, <1>2, PTL DEF Spec

\* The heap, with the entries that were cancelled and are still in it, is the set
\* of timers of module Timers: what it answers, what it drains and in which order.
THEOREM HeapIsTimers == Spec => IsTimers
<1> USE SchedulerAssumption, SystemTaskAssumption
<1>1. Init => TimerSet!Init
  BY DEF Init, SchedulerInit, TimerSet!Init, Live
<1>2. HeapInv /\ Remembered /\ [Next]_vars => [TimerSet!Next]_(TimerSet!vars)
  BY StepsAreCalls, SchedulerRefines DEF vars
<1> QED BY <1>1, <1>2, HeapHolds, PTL DEF Spec, IsTimers, TimerSet!Spec

(***************************************************************************)
(* What is still to come.  The drained tasks are entries that have left    *)
(* the heap, each once, and no later than the clock says.                  *)
(***************************************************************************)
Firing == [id : Nat, task : Task]

FiredInv ==
  /\ fired \in Seq(Firing)
  /\ \A i, j \in 1..Len(fired) : fired[i].id = fired[j].id => i = j
  /\ \A i \in 1..Len(fired) : fired[i].id < nextId /\ \A e \in heap : e.id # fired[i].id
  /\ \A e \in heap : e.every = 0
  /\ limit # NoTime => limit \in Nat /\ limit <= now

\* The window manager asks for nothing that repeats.
OneShot ==
  /\ UNCHANGED fired \/ Take
  /\ \/ UNCHANGED <<now, heap, nextId, limit>>
     \/ \E at \in Nat, t \in Task :
          /\ heap' = heap \cup {[at |-> at, every |-> 0, task |-> t, id |-> nextId]}
          /\ nextId' = nextId + 1 /\ UNCHANGED <<now, limit>>

LEMMA StepsAreOneShot ==
  ASSUME SchedulerAssumption, SystemTaskAssumption, HeapInv, Remembered, Next, ~Clock
  PROVE  OneShot
<1>1. ASSUME NEW old, NEW after \in Delay, NEW t \in Task, Schedule(old, after, 0, t),
             UNCHANGED fired \/ Take
      PROVE  OneShot
  <2>1. after \in Nat
    BY DEF SchedulerAssumption
  <2>2. now + after \in Nat
    BY <2>1 DEF HeapInv
  <2> QED BY <1>1, <2>2 DEF OneShot, Schedule, Calm
<1>2. ASSUME Calm, UNCHANGED <<heap, nextId>>, UNCHANGED fired \/ Take PROVE OneShot
  BY <1>2 DEF OneShot, Calm
<1>3. ASSUME Push, UNCHANGED fired \/ Take PROVE OneShot
  <2>1. nextNote \in 0..MaxId
    BY <1>3 DEF Push, Schedule, Remembered, HeapInv, SchedulerAssumption
  <2>2. DismissNotification(nextNote) \in Task /\ Ttl \in Delay
    BY <2>1 DEF SystemTaskAssumption
  <2> QED BY <1>1, <1>3, <2>2 DEF Push
<1>4. CASE Notify
  BY <1>3, <1>4 DEF Notify, Event
<1>5. CASE AdvanceFocus
  BY <1>1, <1>5 DEF AdvanceFocus, Event, SystemTaskAssumption
<1>6. ASSUME NEW w \in Windows, DirectInputModeChanged(w) PROVE OneShot
  <2>1. CASE pending[w] # None
    BY <1>2, <1>6, <2>1 DEF DirectInputModeChanged, Submit, Event
  <2>2. CASE pending[w] = None
    BY <1>1, <1>6, <2>2 DEF DirectInputModeChanged, Submit, Event, SystemTaskAssumption
  <2> QED BY <2>1, <2>2
<1>7. ASSUME NEW w \in Windows, CloseWindow(w) PROVE OneShot
  BY <1>2, <1>7 DEF CloseWindow, Cancel, Event
<1>8. CASE PressHeader \/ DragMove
  BY <1>1, <1>8 DEF PressHeader, DragMove, Arm, Event, SystemTaskAssumption
<1>9. CASE PressOther \/ Release \/ MovedSnap \/ ClearCapture
  BY <1>2, <1>9 DEF PressOther, Release, MovedSnap, ClearCapture, Disarm, Cancel, Event
<1>10. CASE ApplyDragSnap \/ Dismiss \/ ClearOutline
  BY <1>2, <1>10 DEF ApplyDragSnap, Dismiss, ClearOutline, Fires
<1>11. ASSUME NEW w \in Windows, FlushToast(w) PROVE OneShot
  BY <1>2, <1>3, <1>11 DEF FlushToast, Fires
<1> QED
  BY <1>4, <1>5, <1>6, <1>7, <1>8, <1>9, <1>10, <1>11 DEF Next, Handle

LEMMA FiredKept ==
  ASSUME SchedulerAssumption, SystemTaskAssumption, HeapInv, Remembered, FiredInv, [Next]_vars
  PROVE  FiredInv'
<1>1. CASE OneShot
  <2>1. /\ fired' \in Seq(Firing)
        /\ \A i \in 1..Len(fired') : \E j \in 1..Len(fired) : fired'[i] = fired[j]
        /\ \A i, j \in 1..Len(fired') : fired'[i].id = fired'[j].id => i = j
    <3>1. CASE UNCHANGED fired
      BY <3>1 DEF FiredInv
    <3>2. CASE Take
      <4>1. fired # <<>> /\ fired' = Tail(fired) /\ fired \in Seq(Firing)
        BY <3>2 DEF Take, FiredInv
      <4>2. Len(fired') = Len(fired) - 1 /\ fired' \in Seq(Firing) /\ Len(fired) \in Nat
        BY <4>1
      <4>3. \A i \in 1..Len(fired') : fired'[i] = fired[i + 1] /\ i + 1 \in 1..Len(fired)
        BY <4>1, <4>2
      <4>4. \A i, j \in 1..Len(fired') : fired'[i].id = fired'[j].id => i = j
        <5> SUFFICES ASSUME NEW i \in 1..Len(fired'), NEW j \in 1..Len(fired'),
                            fired'[i].id = fired'[j].id
                     PROVE  i = j
          OBVIOUS
        <5>1. i + 1 = j + 1
          BY <4>3 DEF FiredInv
        <5> QED BY <4>2, <5>1
      <4> QED BY <4>2, <4>3, <4>4
    <3> QED BY <1>1, <3>1, <3>2 DEF OneShot
  <2>2. CASE UNCHANGED <<now, heap, nextId, limit>>
    BY <2>1, <2>2 DEF FiredInv
  <2>3. ASSUME NEW at \in Nat, NEW t \in Task,
               heap' = heap \cup {[at |-> at, every |-> 0, task |-> t, id |-> nextId]},
               nextId' = nextId + 1, UNCHANGED <<now, limit>>
        PROVE  FiredInv'
    <3>1. nextId \in Nat /\ \A i \in 1..Len(fired) : fired[i].id \in Nat /\ fired[i].id < nextId
      <4>1. \A i \in 1..Len(fired) : fired[i] \in Firing
        BY DEF FiredInv
      <4> QED BY <4>1 DEF FiredInv, Firing, HeapInv
    <3>2. \A i \in 1..Len(fired') :
            fired'[i].id < nextId' /\ \A e \in heap' : e.id # fired'[i].id
      BY <2>1, <2>3, <3>1 DEF FiredInv
    <3>3. \A e \in heap' : e.every = 0
      BY <2>3 DEF FiredInv
    <3> QED BY <2>1, <2>3, <3>2, <3>3 DEF FiredInv
  <2> QED BY <1>1, <2>2, <2>3 DEF OneShot
<1>2. CASE Pass \/ TimeUntilNext \/ DrainStart \/ DrainEnd
  BY <1>2 DEF Pass, TimeUntilNext, DrainStart, DrainEnd, HeapInv, FiredInv, SchedulerAssumption
<1>3. ASSUME NEW e \in heap, DrainPop(e) PROVE FiredInv'
  <2>1. CASE e.id \in cancelled
    BY <1>3, <2>1 DEF DrainPop, FiredInv
  <2>2. CASE e.id \notin cancelled
    <3> DEFINE f == [id |-> e.id, task |-> e.task]
    <3>1. f \in Firing /\ f.id = e.id
      BY DEF HeapInv, Entry, Firing
    <3>2. heap' = heap \ {e} /\ fired' = Append(fired, f) /\ UNCHANGED <<now, nextId, limit>>
      BY <1>3, <2>2 DEF DrainPop, Reinserted, FiredInv
    <3> HIDE DEF f
    <3>3. fired' \in Seq(Firing) /\ Len(fired') = Len(fired) + 1 /\ Len(fired) \in Nat
      BY <3>1, <3>2 DEF FiredInv
    <3>4. \A i \in 1..Len(fired') : fired'[i] = IF i = Len(fired) + 1 THEN f ELSE fired[i]
      BY <3>1, <3>2, <3>3 DEF FiredInv
    <3>5. \A i, j \in 1..Len(fired') : fired'[i].id = fired'[j].id => i = j
      BY <3>1, <3>3, <3>4 DEF FiredInv
    <3>6. \A i \in 1..Len(fired') :
            fired'[i].id < nextId' /\ \A g \in heap' : g.id # fired'[i].id
      BY <3>1, <3>2, <3>3, <3>4 DEF FiredInv, HeapInv
    <3> QED BY <3>2, <3>3, <3>5, <3>6 DEF FiredInv
  <2> QED BY <2>1, <2>2
<1>4. CASE UNCHANGED vars
  BY <1>4 DEF vars, schedulerVars, FiredInv
<1> QED BY <1>1, <1>2, <1>3, <1>4, StepsAreOneShot DEF Clock

(***************************************************************************)
(* Every step outside of Clock lets at most one firing go, and adds at     *)
(* most one.                                                               *)
(***************************************************************************)
Image(S) == {[id |-> e.id, task |-> e.task] : e \in S}
Drained == {fired[i] : i \in DOMAIN fired}

Dropped(gone) ==
  /\ Live' = {e \in Live : e.id # gone}
  /\ Coming' = {f \in Coming : f.id # gone}

Added(gone, at, t) ==
  /\ Live' = {e \in Live : e.id # gone} \cup {[at |-> at, every |-> 0, task |-> t, id |-> nextId]}
  /\ Coming' = {f \in Coming : f.id # gone} \cup {[id |-> nextId, task |-> t]}

LEMMA ComingTyped ==
  ASSUME HeapInv, FiredInv
  PROVE  /\ Coming \subseteq Firing
         /\ \A f \in Coming : f.id < nextId
         /\ \A f, g \in Coming : f.id = g.id => f = g
<1>1. \A f \in Image(Live) : f \in Firing /\ f.id < nextId /\ \E e \in heap : f.id = e.id /\ f.task = e.task
  BY DEF HeapInv, Live, Image, Entry, Firing
<1>2. DOMAIN fired = 1..Len(fired) /\ \A i \in 1..Len(fired) : fired[i] \in Firing
  BY DEF FiredInv
<1>3. \A f \in Drained : f \in Firing /\ f.id < nextId /\ \E i \in 1..Len(fired) : f = fired[i]
  BY <1>2 DEF FiredInv, Drained
<1>4. Coming = Image(Live) \cup Drained
  BY DEF Coming, Image, Drained
<1>5. \A f, g \in Firing : f.id = g.id /\ f.task = g.task => f = g
  BY DEF Firing
<1>6. \A f, g \in Coming : f.id = g.id => f = g
  <2>1. \A f, g \in Image(Live) : f.id = g.id => f = g
    BY <1>1, <1>5 DEF HeapInv
  <2>2. \A f, g \in Drained : f.id = g.id => f = g
    BY <1>3 DEF FiredInv
  <2>3. \A f \in Image(Live), g \in Drained : f.id # g.id
    BY <1>1, <1>3 DEF FiredInv
  <2> QED BY <1>4, <2>1, <2>2, <2>3
<1> QED BY <1>1, <1>3, <1>4, <1>6

LEMMA CallComing ==
  ASSUME SchedulerAssumption, HeapInv, FiredInv, NEW gone, NEW news,
         cancelled' = cancelled \cup ({gone} \ {NoId}),
         heap' = heap \cup news, \A e \in news : e.id = nextId,
         gone # nextId,
         Drained' = {f \in Drained : f.id # gone}
  PROVE  /\ Live' = {e \in Live : e.id # gone} \cup news
         /\ Coming' = {f \in Coming : f.id # gone} \cup Image(news)
<1>1. \A e \in heap : e.id # NoId /\ e.id # nextId
  BY DEF HeapInv, Entry, SchedulerAssumption
<1>2. nextId \notin cancelled
  BY DEF HeapInv
<1>3. Live' = {e \in Live : e.id # gone} \cup news
  BY <1>1, <1>2 DEF Live
<1>4. Coming = Image(Live) \cup Drained /\ Coming' = Image(Live') \cup Drained'
  BY DEF Coming, Image, Drained
<1>5. Image(Live') = {f \in Image(Live) : f.id # gone} \cup Image(news)
  BY <1>3 DEF Image
<1> QED BY <1>3, <1>4, <1>5

LEMMA CancelDrops ==
  ASSUME SchedulerAssumption, HeapInv, FiredInv, Event,
         NEW id \in 1..(nextId - 1) \cup {NoId}, Cancel(id)
  PROVE  Dropped(id)
<1>1. Drained' = {f \in Drained : f.id # id}
  BY DEF Drained, Event
<1>2. heap' = heap \cup {} /\ (\A e \in {} : e.id = nextId) /\ cancelled' = cancelled \cup ({id} \ {NoId})
  BY DEF Cancel
<1>3. id # nextId
  BY DEF HeapInv, SchedulerAssumption
<1>4. Image({}) = {}
  BY DEF Image
<1>5. /\ Live' = {e \in Live : e.id # id} \cup {}
      /\ Coming' = {f \in Coming : f.id # id} \cup Image({})
  BY <1>1, <1>2, <1>3, CallComing
<1> QED BY <1>4, <1>5 DEF Dropped

LEMMA ScheduleAdds ==
  ASSUME SchedulerAssumption, HeapInv, FiredInv, Event,
         NEW old \in 1..(nextId - 1) \cup {NoId}, NEW after, NEW t, Schedule(old, after, 0, t)
  PROVE  Added(old, now + after, t)
<1> DEFINE new == [at |-> now + after, every |-> 0, task |-> t, id |-> nextId]
<1>1. Drained' = {f \in Drained : f.id # old}
  BY DEF Drained, Event
<1>2. heap' = heap \cup {new} /\ cancelled' = cancelled \cup ({old} \ {NoId})
  BY DEF Schedule
<1>3. old # nextId
  BY DEF HeapInv, SchedulerAssumption
<1>4. Image({new}) = {[id |-> nextId, task |-> t]} /\ \A e \in {new} : e.id = nextId
  BY DEF Image
<1> HIDE DEF new
<1>5. /\ Live' = {e \in Live : e.id # old} \cup {new}
      /\ Coming' = {f \in Coming : f.id # old} \cup Image({new})
  BY <1>1, <1>2, <1>3, <1>4, CallComing
<1> QED BY <1>4, <1>5 DEF Added, new

\* What is taken was drained once, and is in the heap no more.
LEMMA TakeTakes ==
  ASSUME HeapInv, FiredInv, Take
  PROVE  /\ Head(fired) \in Drained /\ Head(fired) \in Coming /\ Head(fired) \in Firing
         /\ Head(fired).id < nextId /\ \A e \in heap : e.id # Head(fired).id
         /\ Drained' = {f \in Drained : f.id # Head(fired).id}
<1>1. fired \in Seq(Firing) /\ fired # <<>> /\ fired' = Tail(fired)
  BY DEF FiredInv, Take
<1>2. Len(fired) \in Nat \ {0} /\ Len(fired') = Len(fired) - 1 /\ Head(fired) = fired[1]
      /\ \A i \in 1..Len(fired') : fired'[i] = fired[i + 1]
  BY <1>1
<1>3. DOMAIN fired = 1..Len(fired) /\ DOMAIN fired' = 1..Len(fired') /\ 1 \in 1..Len(fired)
  BY <1>1, <1>2
<1>4. \A i \in 2..Len(fired) : i - 1 \in 1..Len(fired') /\ fired'[i - 1] = fired[i]
  BY <1>2
<1>5. \A i \in 2..Len(fired) : fired[i].id # fired[1].id
  BY <1>2, <1>3 DEF FiredInv
<1>6. Drained' = {fired[i] : i \in 2..Len(fired)}
  BY <1>2, <1>3, <1>4 DEF Drained
<1>7. Drained = {fired[i] : i \in 2..Len(fired)} \cup {fired[1]}
  BY <1>2, <1>3 DEF Drained
<1>8. Drained' = {f \in Drained : f.id # fired[1].id}
  BY <1>5, <1>6, <1>7
<1> QED BY <1>1, <1>2, <1>3, <1>7, <1>8 DEF Coming, Drained, FiredInv

LEMMA TakeDrops ==
  ASSUME SchedulerAssumption, HeapInv, FiredInv, Take, UNCHANGED <<heap, cancelled>>
  PROVE  Dropped(Head(fired).id)
<1>1. Live' = Live /\ \A e \in Live : e.id # Head(fired).id
  BY TakeTakes DEF Live
<1>2. Coming = Image(Live) \cup Drained /\ Coming' = Image(Live') \cup Drained'
  BY DEF Coming, Image, Drained
<1>3. Image(Live) = {f \in Image(Live) : f.id # Head(fired).id}
  BY <1>1 DEF Image
<1> QED BY <1>1, <1>2, <1>3, TakeTakes DEF Dropped

LEMMA TakeAdds ==
  ASSUME SchedulerAssumption, HeapInv, FiredInv, Take,
         NEW after, NEW t, Schedule(NoId, after, 0, t)
  PROVE  Added(Head(fired).id, now + after, t)
<1> DEFINE new == [at |-> now + after, every |-> 0, task |-> t, id |-> nextId]
           h == Head(fired).id
<1>1. heap' = heap \cup {new} /\ cancelled' = cancelled
  BY DEF Schedule
<1>2. new.id = nextId /\ nextId \notin cancelled /\ Image({new}) = {[id |-> nextId, task |-> t]}
  BY DEF HeapInv, Image
<1> HIDE DEF new
<1>3. Live' = Live \cup {new}
  BY <1>1, <1>2 DEF Live
<1>4. \A e \in Live : e.id # h
  BY TakeTakes DEF Live
<1>5. Coming = Image(Live) \cup Drained /\ Coming' = Image(Live') \cup Drained'
  BY DEF Coming, Image, Drained
<1>6. Image(Live') = Image(Live) \cup Image({new}) /\ Image(Live) = {f \in Image(Live) : f.id # h}
  BY <1>3, <1>4 DEF Image
<1>7. Drained' = {f \in Drained : f.id # h}
  BY TakeTakes
<1>8. Coming' = {f \in Coming : f.id # h} \cup Image({new})
  BY <1>5, <1>6, <1>7
<1> QED BY <1>2, <1>3, <1>4, <1>8 DEF Added, new

\* Nothing changes for the scheduler.
LEMMA RestDrops ==
  ASSUME SchedulerAssumption, HeapInv, FiredInv, UNCHANGED <<heap, cancelled, fired>>
  PROVE  Dropped(NoId)
<1>1. Live' = Live /\ Coming' = Coming
  BY DEF Live, Coming
<1>2. \A e \in Live : e.id # NoId
  BY DEF HeapInv, Entry, Live, SchedulerAssumption
<1>3. \A f \in Coming : f.id # NoId
  BY ComingTyped DEF Firing, SchedulerAssumption
<1> QED BY <1>1, <1>2, <1>3 DEF Dropped

\* Time and the drain lose nothing: what leaves the heap alive is drained, and due.
LEMMA ClockComing ==
  ASSUME SchedulerAssumption, HeapInv, FiredInv, Clock
  PROVE  /\ Coming' = Coming /\ Live' \subseteq Live
         /\ \A e \in Live : e \in Live' \/ e.at <= now
         /\ now' \in Nat /\ now <= now'
<1>1. CASE Pass \/ DrainStart \/ DrainEnd
  BY <1>1 DEF Pass, DrainStart, DrainEnd, Live, Coming, HeapInv
<1>2. CASE TimeUntilNext
  <2>1. UNCHANGED <<now, nextId, limit, fired>>
    BY <1>2 DEF TimeUntilNext
  <2>2. Live' = Live
    BY <1>2, AskRefines DEF TimerSet!Ask
  <2> QED BY <2>1, <2>2 DEF Coming, HeapInv
<1>3. ASSUME NEW e \in heap, DrainPop(e)
      PROVE  /\ Coming' = Coming /\ Live' \subseteq Live
             /\ \A f \in Live : f \in Live' \/ f.at <= now
             /\ now' \in Nat /\ now <= now'
  <2>1. now' = now /\ now \in Nat /\ e.at \in Nat /\ limit \in Nat /\ e.at <= limit /\ limit <= now
    BY <1>3 DEF DrainPop, HeapInv, Entry, FiredInv
  <2>2. CASE e.id \in cancelled
    <3>1. fired' = fired /\ heap' = heap \ {e} /\ cancelled' = cancelled \ {e.id}
      BY <1>3, <2>2 DEF DrainPop
    <3>2. Live' = Live
      BY <2>2, <3>1 DEF Live, HeapInv
    <3> QED BY <2>1, <3>1, <3>2 DEF Coming
  <2>3. CASE e.id \notin cancelled
    <3> DEFINE f == [id |-> e.id, task |-> e.task]
    <3>1. heap' = heap \ {e} /\ fired' = Append(fired, f) /\ cancelled' = cancelled
      BY <1>3, <2>3 DEF DrainPop, Reinserted, FiredInv
    <3>2. Live' = Live \ {e} /\ e \in Live
      BY <2>3, <3>1 DEF Live
    <3>3. Image(Live) = Image(Live') \cup {f}
      BY <3>2 DEF Image
    <3>4. f \in Firing
      BY DEF HeapInv, Entry, Firing
    <3> HIDE DEF f
    <3>5. Drained' = Drained \cup {f}
      <4>1. fired \in Seq(Firing) /\ Len(fired) \in Nat /\ DOMAIN fired = 1..Len(fired)
        BY DEF FiredInv
      <4>2. Len(fired') = Len(fired) + 1 /\ DOMAIN fired' = 1..(Len(fired) + 1)
            /\ \A i \in 1..(Len(fired) + 1) : fired'[i] = IF i = Len(fired) + 1 THEN f ELSE fired[i]
        BY <3>1, <3>4, <4>1
      <4> QED BY <4>1, <4>2 DEF Drained
    <3>6. Coming = Image(Live) \cup Drained /\ Coming' = Image(Live') \cup Drained'
      BY DEF Coming, Image, Drained
    <3> QED BY <2>1, <3>2, <3>3, <3>5, <3>6
  <2> QED BY <2>2, <2>3
<1> QED BY <1>1, <1>2, <1>3 DEF Clock

(***************************************************************************)
(* Whatever is shown for a time has the firing that ends it.  Besides the  *)
(* property, the identifier of the drag timer is never that of another     *)
(* task, and a notification is shown once.                                 *)
(***************************************************************************)
DragKind == \A f \in Coming : f.id = dragTimer => f.task = DragSnap

NotesInv ==
  /\ notes \in Seq(Nat)
  /\ \A i \in 1..Len(notes) : notes[i] < nextNote
  /\ \A i, j \in 1..Len(notes) : notes[i] = notes[j] => i = j
  /\ outline \in Nat \cup {NoTime}

TransInv == TransientsEnd /\ DragKind /\ NotesInv

Assumptions == SchedulerAssumption /\ SystemTaskAssumption
Base == HeapInv /\ Remembered /\ FiredInv

LEMMA TaskKinds ==
  /\ DragSnap # ClearTabOutline
  /\ \A w \in Windows : FlushDirectModeToast(w) \notin {DragSnap, ClearTabOutline}
  /\ \A n \in Nat : DismissNotification(n) \notin {DragSnap, ClearTabOutline}
  /\ \A w \in Windows, n \in Nat : FlushDirectModeToast(w) # DismissNotification(n)
  /\ \A v, w \in Windows : FlushDirectModeToast(v) = FlushDirectModeToast(w) => v = w
  /\ \A m, n \in Nat : DismissNotification(m) = DismissNotification(n) => m = n
<1> USE DEF DragSnap, ClearTabOutline, FlushDirectModeToast, DismissNotification
<1>1. DragSnap.kind = "snap" /\ ClearTabOutline.kind = "outline"
  OBVIOUS
<1>2. \A w \in Windows : FlushDirectModeToast(w).kind = "flush" /\ FlushDirectModeToast(w).window = w
  OBVIOUS
<1>3. \A n \in Nat : DismissNotification(n).kind = "dismiss" /\ DismissNotification(n).note = n
  OBVIOUS
<1> HIDE DEF DragSnap, ClearTabOutline, FlushDirectModeToast, DismissNotification
<1> QED BY <1>1, <1>2, <1>3

\* A step leaves the firings of a task as they are.
Untouched(u) ==
  /\ {f \in Coming' : f.task = u} = {f \in Coming : f.task = u}
  /\ \A e \in Live : e.task = u => e \in Live'
  /\ \A e \in Live' : e \in Live \/ (e.id = nextId /\ e.task # u)

LEMMA DropSpares ==
  ASSUME NEW gone, Dropped(gone), NEW u, \A f \in Coming : f.id = gone => f.task # u
  PROVE  Untouched(u)
<1>1. \A e \in Live : e.id = gone => e.task # u
  <2>1. \A e \in Live : [id |-> e.id, task |-> e.task] \in Coming
    BY DEF Coming
  <2> QED BY <2>1
<1> QED BY <1>1 DEF Dropped, Untouched

LEMMA AddSpares ==
  ASSUME NEW gone, NEW at, NEW s, Added(gone, at, s), NEW u, u # s,
         \A f \in Coming : f.id = gone => f.task # u
  PROVE  Untouched(u)
<1>1. \A e \in Live : e.id = gone => e.task # u
  <2>1. \A e \in Live : [id |-> e.id, task |-> e.task] \in Coming
    BY DEF Coming
  <2> QED BY <2>1
<1> QED BY <1>1 DEF Added, Untouched

\* Whose firing it is that a step lets go.
LEMMA NoIdIsNobody == ASSUME Assumptions, Base PROVE \A f \in Coming : f.id # NoId
BY ComingTyped DEF Assumptions, Base, SchedulerAssumption, Firing

LEMMA FlushIsToasts ==
  ASSUME Assumptions, Base, ToastsArmed, NEW w \in Windows
  PROVE  \A f \in Coming : f.id = pending[w].id => f.task = FlushDirectModeToast(w)
<1>1. CASE pending[w] = None
  BY <1>1, NoIdIsNobody DEF None
<1>2. CASE pending[w] # None
  <2> DEFINE g == [id |-> pending[w].id, task |-> FlushDirectModeToast(w)]
  <2>1. g \in Coming
    BY <1>2 DEF ToastsArmed
  <2>2. g.id = pending[w].id /\ g.task = FlushDirectModeToast(w)
    OBVIOUS
  <2> HIDE DEF g
  <2> QED BY <2>1, <2>2, ComingTyped DEF Base
<1> QED BY <1>1, <1>2

LEMMA HeadIsItself ==
  ASSUME Assumptions, Base, NEW t, Fires(t)
  PROVE  /\ \A f \in Coming : f.id = Head(fired).id => f.task = t
         /\ Head(fired) \in Coming /\ Head(fired).task = t
BY TakeTakes, ComingTyped DEF Base, Fires

\* What the actions leave alone.
LEMMA NotifyTouches ==
  ASSUME Assumptions, Base, Notify
  PROVE  /\ \A u : u # DismissNotification(nextNote) => Untouched(u)
         /\ [id |-> nextId, task |-> DismissNotification(nextNote)] \in Coming'
<1>1. Added(NoId, now + Ttl, DismissNotification(nextNote))
  BY ScheduleAdds DEF Notify, Push, Assumptions, Base
<1> QED BY <1>1, AddSpares, NoIdIsNobody DEF Added

LEMMA FocusTouches ==
  ASSUME Assumptions, Base, AdvanceFocus
  PROVE  /\ \A u : u # ClearTabOutline => Untouched(u)
         /\ [at |-> now + Outline, every |-> 0, task |-> ClearTabOutline, id |-> nextId] \in Live'
<1>1. Added(NoId, now + Outline, ClearTabOutline)
  BY ScheduleAdds DEF AdvanceFocus, Assumptions, Base
<1> QED BY <1>1, AddSpares, NoIdIsNobody DEF Added

LEMMA SubmitTouches ==
  ASSUME Assumptions, Base, NEW w \in Windows, DirectInputModeChanged(w)
  PROVE  /\ \A u : u # FlushDirectModeToast(w) => Untouched(u)
         /\ \/ Dropped(NoId) /\ pending' = pending
            \/ /\ Added(NoId, now + Debounce, FlushDirectModeToast(w)) /\ pending[w] = None
               /\ pending' = [pending EXCEPT ![w] = [id |-> nextId, since |-> now]]
<1>1. CASE pending[w] # None
  <2>1. Dropped(NoId)
    BY <1>1, RestDrops DEF DirectInputModeChanged, Submit, Event, Assumptions, Base
  <2> QED BY <1>1, <2>1, DropSpares, NoIdIsNobody DEF DirectInputModeChanged, Submit
<1>2. CASE pending[w] = None
  <2>1. Added(NoId, now + Debounce, FlushDirectModeToast(w))
    BY <1>2, ScheduleAdds DEF DirectInputModeChanged, Submit, Assumptions, Base
  <2> QED BY <1>2, <2>1, AddSpares, NoIdIsNobody DEF DirectInputModeChanged, Submit
<1> QED BY <1>1, <1>2

LEMMA CloseTouches ==
  ASSUME Assumptions, Base, ToastsArmed, NEW w \in Windows, CloseWindow(w)
  PROVE  /\ \A u : u # FlushDirectModeToast(w) => Untouched(u)
         /\ Dropped(pending[w].id)
<1>1. Dropped(pending[w].id)
  BY CancelDrops, RememberedIds DEF CloseWindow, Assumptions, Base
<1> QED BY <1>1, DropSpares, FlushIsToasts

LEMMA MouseTouches ==
  ASSUME Assumptions, Base, DragKind,
         PressHeader \/ PressOther \/ DragMove \/ Release \/ MovedSnap \/ ClearCapture
  PROVE  /\ \A u : u # DragSnap => Untouched(u)
         /\ \/ Added(dragTimer, now + SnapTimeout, DragSnap) /\ dragTimer' = nextId
            \/ Dropped(dragTimer) /\ dragTimer' = NoId
            \/ Dropped(NoId) /\ dragTimer' = dragTimer
<1>1. dragTimer \in 1..(nextId - 1) \cup {NoId}
  BY DEF Base, Remembered
<1>2. CASE PressHeader \/ DragMove
  <2>1. Added(dragTimer, now + SnapTimeout, DragSnap) /\ dragTimer' = nextId
    BY <1>1, <1>2, ScheduleAdds DEF PressHeader, DragMove, Arm, Assumptions, Base
  <2> QED BY <2>1, AddSpares DEF DragKind
<1>3. CASE Disarm /\ Event
  <2>1. Dropped(dragTimer) /\ dragTimer' = NoId
    BY <1>1, <1>3, CancelDrops DEF Disarm, Assumptions, Base
  <2> QED BY <2>1, DropSpares DEF DragKind
<1>4. CASE Event /\ UNCHANGED <<heap, cancelled, dragTimer>>
  <2>1. Dropped(NoId) /\ dragTimer' = dragTimer
    BY <1>4, RestDrops DEF Event, Assumptions, Base
  <2> QED BY <2>1, DropSpares, NoIdIsNobody
<1> QED BY <1>2, <1>3, <1>4 DEF PressOther, Release, MovedSnap, ClearCapture

\* A handled task was due once; a handler that shows nothing adds nothing.
LEMMA HandlerTouches ==
  ASSUME Assumptions, Base, NEW t, Fires(t), UNCHANGED <<heap, cancelled>>
  PROVE  /\ \A u : u # t => Untouched(u)
         /\ Dropped(Head(fired).id)
<1>1. Dropped(Head(fired).id)
  BY TakeDrops DEF Fires, Assumptions, Base
<1> QED BY <1>1, DropSpares, HeadIsItself

LEMMA FlushTouches ==
  ASSUME Assumptions, Base, NEW w \in Windows, FlushToast(w), Push
  PROVE  /\ \A u : u \notin {FlushDirectModeToast(w), DismissNotification(nextNote)} => Untouched(u)
         /\ Added(Head(fired).id, now + Ttl, DismissNotification(nextNote))
<1>1. Fires(FlushDirectModeToast(w)) /\ Take
  BY DEF FlushToast, Fires
<1>2. Added(Head(fired).id, now + Ttl, DismissNotification(nextNote))
  BY <1>1, TakeAdds DEF Push, Assumptions, Base
<1> QED BY <1>1, <1>2, AddSpares, HeadIsItself

\* What is not touched stays armed.
Toast(w) ==
  /\ {f \in Coming : f.task = FlushDirectModeToast(w)}
     = IF pending[w] = None THEN {}
       ELSE {[id |-> pending[w].id, task |-> FlushDirectModeToast(w)]}
  /\ \A e \in Live : e.id = pending[w].id => e.at = pending[w].since + Debounce

LEMMA ToastStays ==
  ASSUME Assumptions, Base, NEW w \in Windows, Toast(w), Untouched(FlushDirectModeToast(w)),
         pending'[w] = pending[w]
  PROVE  Toast(w)'
<1>1. pending[w].id # nextId
  BY RememberedIds DEF Assumptions, Base, SchedulerAssumption, HeapInv
<1> QED BY <1>1 DEF Toast, Untouched

NoteArmed(n) == \E f \in Coming : f.task = DismissNotification(n)

LEMMA NoteStays ==
  ASSUME NEW n, NoteArmed(n), Untouched(DismissNotification(n))
  PROVE  \E f \in Coming' : f.task = DismissNotification(n)
<1>1. PICK f \in {f \in Coming : f.task = DismissNotification(n)} : TRUE
  BY DEF NoteArmed
<1>2. f \in Coming' /\ f.task = DismissNotification(n)
  BY DEF Untouched
<1> QED BY <1>2

LEMMA NotesStay ==
  ASSUME NotesArmed, UNCHANGED notes,
         \A i \in DOMAIN notes : Untouched(DismissNotification(notes[i]))
  PROVE  NotesArmed'
<1>1. \A i \in DOMAIN notes : \E f \in Coming' : f.task = DismissNotification(notes[i])
  BY NoteStays DEF NotesArmed, NoteArmed
<1> QED BY <1>1 DEF NotesArmed

LEMMA OutlineStays ==
  ASSUME OutlineArmed, Untouched(ClearTabOutline), UNCHANGED <<outline, now>>
  PROVE  OutlineArmed'
<1> SUFFICES ASSUME outline # NoTime PROVE OutlineArmed'
  BY DEF OutlineArmed
<1>1. CASE \E e \in Live : e.task = ClearTabOutline /\ e.at >= outline
  BY <1>1 DEF OutlineArmed, Untouched
<1>2. CASE now >= outline /\ \E f \in Coming : f.task = ClearTabOutline
  <2>1. PICK f \in {f \in Coming : f.task = ClearTabOutline} : TRUE
    BY <1>2
  <2>2. f \in Coming' /\ f.task = ClearTabOutline
    BY DEF Untouched
  <2> QED BY <1>2, <2>2 DEF OutlineArmed
<1> QED BY <1>1, <1>2 DEF OutlineArmed

OneDrag == OneDragTimer /\ DragKind

LEMMA DragStays ==
  ASSUME Assumptions, Base, OneDrag, Untouched(DragSnap), UNCHANGED dragTimer,
         \A f \in Coming' : f \in Coming \/ f.id = nextId
  PROVE  OneDrag'
<1>1. dragTimer # nextId
  BY DEF Assumptions, Base, Remembered, HeapInv, SchedulerAssumption
<1>2. \A f \in Coming' : f.task = DragSnap => f \in Coming
  BY DEF Untouched
<1> QED BY <1>1, <1>2 DEF OneDrag, OneDragTimer, DragKind

\* Time, and the drain, take nothing that is to come.
LEMMA ClockTrans ==
  ASSUME Assumptions, Base, TransInv, Clock PROVE TransInv'
<1>1. /\ Coming' = Coming /\ Live' \subseteq Live
      /\ \A e \in Live : e \in Live' \/ e.at <= now
      /\ now \in Nat /\ now' \in Nat /\ now <= now'
  BY ClockComing DEF Assumptions, Base, HeapInv
<1>2. UNCHANGED wmVars
  BY DEF Clock
<1>3. ToastsArmed' /\ NotesArmed' /\ OneDragTimer' /\ DragKind' /\ NotesInv'
  BY <1>1, <1>2
  DEF wmVars, TransInv, TransientsEnd, ToastsArmed, NotesArmed, OneDragTimer, DragKind, NotesInv
<1>4. OutlineArmed'
  <2> SUFFICES ASSUME outline # NoTime PROVE OutlineArmed'
    BY <1>2 DEF wmVars, OutlineArmed
  <2>1. outline \in Nat /\ outline' = outline
    BY <1>2 DEF wmVars, TransInv, NotesInv
  <2>2. CASE now >= outline /\ \E f \in Coming : f.task = ClearTabOutline
    BY <1>1, <2>1, <2>2 DEF OutlineArmed
  <2>3. ASSUME NEW e \in Live, e.task = ClearTabOutline, e.at >= outline PROVE OutlineArmed'
    <3>1. CASE e \in Live'
      BY <2>1, <2>3, <3>1 DEF OutlineArmed
    <3>2. CASE e \notin Live'
      <4>1. e.at \in Nat /\ e.at <= now
        BY <1>1, <3>2 DEF Live, Base, HeapInv, Entry
      <4>2. now' >= outline
        BY <1>1, <2>1, <2>3, <4>1
      <4>3. [id |-> e.id, task |-> e.task] \in Coming
        BY DEF Coming
      <4> QED BY <1>1, <2>1, <2>3, <4>2, <4>3 DEF OutlineArmed
    <3> QED BY <3>1, <3>2
  <2> QED BY <2>2, <2>3 DEF TransInv, TransientsEnd, OutlineArmed
<1> QED BY <1>3, <1>4 DEF TransInv, TransientsEnd

\* A notification that is pushed comes last, and is armed; the oldest may go.
LEMMA PushNotes ==
  ASSUME Assumptions, Base, NotesInv, NotesArmed, Push,
         \A n \in Nat : n # nextNote => Untouched(DismissNotification(n)),
         [id |-> nextId, task |-> DismissNotification(nextNote)] \in Coming',
         UNCHANGED outline
  PROVE  NotesArmed' /\ NotesInv'
<1> DEFINE kept == IF Len(notes) >= Capacity THEN Tail(notes) ELSE notes
<1>1. notes \in Seq(Nat) /\ nextNote \in Nat /\ Capacity \in Nat \ {0}
  BY DEF NotesInv, Base, Remembered, Assumptions, SystemTaskAssumption
<1>2. /\ kept \in Seq(Nat) /\ Len(kept) \in Nat
      /\ \A i \in 1..Len(kept) : kept[i] \in Nat /\ kept[i] < nextNote /\ NoteArmed(kept[i])
      /\ \A i, j \in 1..Len(kept) : kept[i] = kept[j] => i = j
  <2>1. /\ \A i \in 1..Len(notes) : notes[i] \in Nat /\ notes[i] < nextNote /\ NoteArmed(notes[i])
        /\ \A i, j \in 1..Len(notes) : notes[i] = notes[j] => i = j
    BY <1>1 DEF NotesInv, NotesArmed, NoteArmed
  <2>2. CASE Len(notes) >= Capacity
    <3>1. kept = Tail(notes) /\ Len(kept) = Len(notes) - 1 /\ Len(notes) \in Nat /\ kept \in Seq(Nat)
          /\ \A i \in 1..Len(kept) : kept[i] = notes[i + 1] /\ i + 1 \in 1..Len(notes)
      BY <1>1, <2>2
    <3> HIDE DEF kept
    <3>2. \A i, j \in 1..Len(kept) : kept[i] = kept[j] => i = j
      <4> SUFFICES ASSUME NEW i \in 1..Len(kept), NEW j \in 1..Len(kept), kept[i] = kept[j]
                   PROVE  i = j
        OBVIOUS
      <4>1. i + 1 = j + 1
        BY <2>1, <3>1
      <4> QED BY <3>1, <4>1
    <3>3. Len(kept) \in Nat
      BY <3>1
    <3> QED BY <2>1, <3>1, <3>2, <3>3
  <2>3. CASE ~(Len(notes) >= Capacity)
    BY <1>1, <2>1, <2>3
  <2> QED BY <2>2, <2>3
<1>3. notes' = Append(kept, nextNote) /\ nextNote' = nextNote + 1
  BY DEF Push
<1> HIDE DEF kept
<1>4. notes' \in Seq(Nat) /\ Len(notes') = Len(kept) + 1
      /\ \A i \in 1..Len(notes') : notes'[i] = IF i = Len(kept) + 1 THEN nextNote ELSE kept[i]
  BY <1>1, <1>2, <1>3
<1>5. \A i \in 1..Len(notes') : notes'[i] < nextNote'
  BY <1>1, <1>2, <1>3, <1>4
<1>6. \A i, j \in 1..Len(notes') : notes'[i] = notes'[j] => i = j
  BY <1>1, <1>2, <1>3, <1>4
<1>7. \A i \in 1..Len(kept) : \E f \in Coming' : f.task = DismissNotification(kept[i])
  <2> SUFFICES ASSUME NEW i \in 1..Len(kept)
               PROVE  \E f \in Coming' : f.task = DismissNotification(kept[i])
    OBVIOUS
  <2>1. kept[i] \in Nat /\ kept[i] # nextNote /\ NoteArmed(kept[i])
    BY <1>1, <1>2
  <2> QED BY <2>1, NoteStays
<1>8. \E f \in Coming' : f.task = DismissNotification(nextNote)
  <2> DEFINE f == [id |-> nextId, task |-> DismissNotification(nextNote)]
  <2>1. f \in Coming' /\ f.task = DismissNotification(nextNote)
    OBVIOUS
  <2> QED BY <2>1
<1>9. NotesArmed'
  <2>1. DOMAIN notes' = 1..Len(notes')
    BY <1>4
  <2>2. \A i \in 1..Len(notes') : \E f \in Coming' : f.task = DismissNotification(notes'[i])
    BY <1>2, <1>4, <1>7, <1>8
  <2> QED BY <2>1, <2>2 DEF NotesArmed
<1> QED BY <1>4, <1>5, <1>6, <1>9 DEF NotesInv

LEMMA NotifyTrans == ASSUME Assumptions, Base, TransInv, Notify PROVE TransInv'
<1>1. UNCHANGED <<now, open, pending, dragTimer, outline>> /\ Push
  BY DEF Notify, Push, Schedule, Calm, Toasts, Mouse
<1>2. nextNote \in Nat
  BY DEF Base, Remembered
<1>3. \A w \in Windows : Toast(w)'
  BY <1>1, <1>2, NotifyTouches, ToastStays, TaskKinds DEF TransInv, TransientsEnd, ToastsArmed, Toast
<1>4. NotesArmed' /\ NotesInv'
  BY <1>1, <1>2, NotifyTouches, PushNotes, TaskKinds DEF TransInv, TransientsEnd
<1>5. Untouched(DragSnap) /\ Untouched(ClearTabOutline)
  BY <1>2, NotifyTouches, TaskKinds
<1>6. OutlineArmed'
  BY <1>1, <1>5, OutlineStays DEF TransInv, TransientsEnd
<1>7. Added(NoId, now + Ttl, DismissNotification(nextNote))
  BY ScheduleAdds DEF Notify, Push, Assumptions, Base
<1>8. OneDrag'
  BY <1>1, <1>5, <1>7, DragStays DEF Added, OneDrag, TransInv, TransientsEnd
<1> QED
  BY <1>3, <1>4, <1>6, <1>8 DEF TransInv, TransientsEnd, ToastsArmed, Toast, OneDrag

LEMMA FocusTrans == ASSUME Assumptions, Base, TransInv, AdvanceFocus PROVE TransInv'
<1>1. UNCHANGED <<now, pending, notes, nextNote, dragTimer>> /\ outline' = now + Outline
  BY DEF AdvanceFocus, Schedule, Calm, Toasts, Notes, Mouse
<1>2. \A n \in Nat : Untouched(DismissNotification(n))
  BY FocusTouches, TaskKinds
<1>3. \A w \in Windows : Toast(w)'
  BY <1>1, FocusTouches, ToastStays, TaskKinds DEF TransInv, TransientsEnd, ToastsArmed, Toast
<1>4. NotesArmed'
  <2>1. \A i \in DOMAIN notes : notes[i] \in Nat
    BY DEF TransInv, NotesInv
  <2> QED BY <1>1, <1>2, <2>1, NotesStay DEF TransInv, TransientsEnd
<1>5. outline' \in Nat
  <2>1. Outline \in Nat
    BY DEF Assumptions, SchedulerAssumption, SystemTaskAssumption
  <2> QED BY <1>1, <2>1 DEF Base, HeapInv
<1>6. OutlineArmed'
  <2> DEFINE e == [at |-> now + Outline, every |-> 0, task |-> ClearTabOutline, id |-> nextId]
  <2>1. e \in Live' /\ e.task = ClearTabOutline /\ e.at = outline'
    BY <1>1, FocusTouches
  <2> HIDE DEF e
  <2> QED BY <1>5, <2>1 DEF OutlineArmed
<1>7. Added(NoId, now + Outline, ClearTabOutline)
  BY ScheduleAdds DEF AdvanceFocus, Assumptions, Base
<1>8. OneDrag'
  BY <1>1, <1>7, FocusTouches, DragStays, TaskKinds DEF Added, OneDrag, TransInv, TransientsEnd
<1> QED
  BY <1>1, <1>3, <1>4, <1>5, <1>6, <1>8
  DEF TransInv, TransientsEnd, ToastsArmed, Toast, OneDrag, NotesInv

\* Three of the parts, for a step that leaves their firings alone.
LEMMA OthersStay ==
  ASSUME Assumptions, Base, TransInv, UNCHANGED <<now, notes, nextNote, outline>>,
         \A n \in Nat : Untouched(DismissNotification(n)), Untouched(ClearTabOutline)
  PROVE  NotesArmed' /\ OutlineArmed' /\ NotesInv'
<1>1. \A i \in DOMAIN notes : notes[i] \in Nat
  BY DEF TransInv, NotesInv
<1>2. NotesArmed'
  BY <1>1, NotesStay DEF TransInv, TransientsEnd
<1>3. OutlineArmed'
  BY OutlineStays DEF TransInv, TransientsEnd
<1> QED BY <1>2, <1>3 DEF TransInv, NotesInv

LEMMA SubmitTrans ==
  ASSUME Assumptions, Base, TransInv, NEW w \in Windows, DirectInputModeChanged(w) PROVE TransInv'
<1>1. UNCHANGED <<now, open, notes, nextNote, dragTimer, outline>>
  BY DEF DirectInputModeChanged, Submit, Schedule, Calm, Notes, Mouse
<1>2. NotesArmed' /\ OutlineArmed' /\ NotesInv'
  BY <1>1, SubmitTouches, OthersStay, TaskKinds
<1>3. OneDrag'
  BY <1>1, SubmitTouches, DragStays, TaskKinds DEF Dropped, Added, OneDrag, TransInv, TransientsEnd
<1>4. pending \in [Windows -> [id : 1..(nextId - 1), since : Nat] \cup {None}]
  BY DEF Base, Remembered
<1>5. \A v \in Windows \ {w} : Toast(v)'
  <2> SUFFICES ASSUME NEW v \in Windows \ {w} PROVE Toast(v)'
    OBVIOUS
  <2>1. pending'[v] = pending[v]
    BY <1>4, SubmitTouches
  <2> QED
    BY <2>1, SubmitTouches, ToastStays, TaskKinds DEF TransInv, TransientsEnd, ToastsArmed, Toast
<1>6. Toast(w)'
  <2>1. CASE Dropped(NoId) /\ pending' = pending
    <3>1. Coming' = Coming /\ Live' = Live
      <4>1. \A f \in Coming : f.id # NoId
        BY NoIdIsNobody
      <4>2. \A e \in Live : e.id # NoId
        BY DEF Live, Base, HeapInv, Entry, Assumptions, SchedulerAssumption
      <4> QED BY <2>1, <4>1, <4>2 DEF Dropped
    <3> QED BY <2>1, <3>1 DEF TransInv, TransientsEnd, ToastsArmed, Toast
  <2>2. CASE /\ Added(NoId, now + Debounce, FlushDirectModeToast(w)) /\ pending[w] = None
             /\ pending' = [pending EXCEPT ![w] = [id |-> nextId, since |-> now]]
    <3> DEFINE f == [id |-> nextId, task |-> FlushDirectModeToast(w)]
    <3>1. pending'[w] = [id |-> nextId, since |-> now] /\ pending'[w].id = nextId /\ pending'[w].since = now
      BY <1>4, <2>2
    <3>2. pending'[w] # None /\ f.task = FlushDirectModeToast(w)
      BY <3>1 DEF None, Base, HeapInv, Assumptions, SchedulerAssumption
    <3>3. {g \in Coming : g.task = FlushDirectModeToast(w)} = {}
      BY <2>2 DEF TransInv, TransientsEnd, ToastsArmed
    <3>4. {g \in Coming' : g.task = FlushDirectModeToast(w)} = {f}
      <4>1. Coming' = {g \in Coming : g.id # NoId} \cup {f}
        BY <2>2 DEF Added
      <4> HIDE DEF f
      <4> QED BY <3>2, <3>3, <4>1
    <3>5. \A e \in Live' : e.id = nextId => e.at = now + Debounce
      <4>1. \A e \in Live : e.id # nextId
        BY DEF Live, Base, HeapInv, Entry
      <4> QED BY <2>2, <4>1 DEF Added
    <3> QED BY <3>1, <3>2, <3>4, <3>5 DEF Toast
  <2> QED BY <2>1, <2>2, SubmitTouches
<1> QED
  BY <1>2, <1>3, <1>5, <1>6 DEF TransInv, TransientsEnd, ToastsArmed, Toast, OneDrag

LEMMA CloseTrans ==
  ASSUME Assumptions, Base, TransInv, NEW w \in Windows, CloseWindow(w) PROVE TransInv'
<1>1. UNCHANGED <<now, notes, nextNote, dragTimer, outline>>
      /\ pending' = [pending EXCEPT ![w] = None]
  BY DEF CloseWindow, Cancel, Calm, Notes, Mouse
<1>2. Dropped(pending[w].id) /\ \A u : u # FlushDirectModeToast(w) => Untouched(u)
  BY CloseTouches DEF TransInv, TransientsEnd
<1>3. NotesArmed' /\ OutlineArmed' /\ NotesInv'
  BY <1>1, <1>2, OthersStay, TaskKinds
<1>4. OneDrag'
  BY <1>1, <1>2, DragStays, TaskKinds DEF Dropped, OneDrag, TransInv, TransientsEnd
<1>5. pending \in [Windows -> [id : 1..(nextId - 1), since : Nat] \cup {None}]
  BY DEF Base, Remembered
<1>6. \A v \in Windows \ {w} : Toast(v)'
  <2> SUFFICES ASSUME NEW v \in Windows \ {w} PROVE Toast(v)'
    OBVIOUS
  <2>1. pending'[v] = pending[v]
    BY <1>1, <1>5
  <2> QED BY <1>2, <2>1, ToastStays, TaskKinds DEF TransInv, TransientsEnd, ToastsArmed, Toast
<1>7. Toast(w)'
  <2>1. pending'[w] = None
    BY <1>1, <1>5
  <2>2. \A f \in Coming : f.task = FlushDirectModeToast(w) => f.id = pending[w].id
    BY DEF TransInv, TransientsEnd, ToastsArmed
  <2>3. {f \in Coming' : f.task = FlushDirectModeToast(w)} = {}
    BY <1>2, <2>2 DEF Dropped
  <2>4. \A e \in Live' : e.id # NoId
    BY <1>2 DEF Dropped, Live, Base, HeapInv, Entry, Assumptions, SchedulerAssumption
  <2> QED BY <2>1, <2>3, <2>4 DEF Toast, None
<1> QED
  BY <1>3, <1>4, <1>6, <1>7 DEF TransInv, TransientsEnd, ToastsArmed, Toast, OneDrag

LEMMA MouseTrans ==
  ASSUME Assumptions, Base, TransInv,
         PressHeader \/ PressOther \/ DragMove \/ Release \/ MovedSnap \/ ClearCapture
  PROVE  TransInv'
<1>1. UNCHANGED <<now, pending, notes, nextNote, outline>>
  BY DEF PressHeader, PressOther, DragMove, Release, MovedSnap, ClearCapture, Arm, Disarm,
         Schedule, Cancel, Calm, Toasts, Notes
<1>2. /\ \A u : u # DragSnap => Untouched(u)
      /\ \/ Added(dragTimer, now + SnapTimeout, DragSnap) /\ dragTimer' = nextId
         \/ Dropped(dragTimer) /\ dragTimer' = NoId
         \/ Dropped(NoId) /\ dragTimer' = dragTimer
  BY MouseTouches DEF TransInv
<1>3. NotesArmed' /\ OutlineArmed' /\ NotesInv'
  BY <1>1, <1>2, OthersStay, TaskKinds
<1>4. \A w \in Windows : Toast(w)'
  BY <1>1, <1>2, ToastStays, TaskKinds DEF TransInv, TransientsEnd, ToastsArmed, Toast
<1>5. OneDrag'
  <2>1. \A f \in Coming : f.task = DragSnap <=> f.id = dragTimer
    BY DEF TransInv, TransientsEnd, OneDragTimer, DragKind
  <2>2. \A f \in Coming : f.id # nextId /\ f.id # NoId
    BY ComingTyped, NoIdIsNobody DEF Base, Firing, HeapInv
  <2>3. CASE Added(dragTimer, now + SnapTimeout, DragSnap) /\ dragTimer' = nextId
    BY <2>1, <2>2, <2>3 DEF Added, OneDrag, OneDragTimer, DragKind
  <2>4. CASE Dropped(dragTimer) /\ dragTimer' = NoId
    BY <2>1, <2>2, <2>4 DEF Dropped, OneDrag, OneDragTimer, DragKind
  <2>5. CASE Dropped(NoId) /\ dragTimer' = dragTimer
    BY <2>1, <2>5 DEF Dropped, OneDrag, OneDragTimer, DragKind
  <2> QED BY <1>2, <2>3, <2>4, <2>5
<1> QED BY <1>3, <1>4, <1>5 DEF TransInv, TransientsEnd, ToastsArmed, Toast, OneDrag

LEMMA SnapTrans == ASSUME Assumptions, Base, TransInv, ApplyDragSnap PROVE TransInv'
<1>1. UNCHANGED <<now, heap, cancelled, pending, notes, nextNote, outline>> /\ Fires(DragSnap)
  BY DEF ApplyDragSnap, Calm, Toasts, Notes
<1>2. Dropped(Head(fired).id) /\ \A u : u # DragSnap => Untouched(u)
  BY <1>1, HandlerTouches
<1>3. NotesArmed' /\ OutlineArmed' /\ NotesInv'
  BY <1>1, <1>2, OthersStay, TaskKinds
<1>4. \A w \in Windows : Toast(w)'
  BY <1>1, <1>2, ToastStays, TaskKinds DEF TransInv, TransientsEnd, ToastsArmed, Toast
<1>5. OneDrag'
  <2>1. \A f \in Coming : f.task = DragSnap <=> f.id = dragTimer
    BY DEF TransInv, TransientsEnd, OneDragTimer, DragKind
  <2>2. Head(fired).id = dragTimer
    BY <1>1, <2>1, HeadIsItself
  <2>3. \A f \in Coming' : f.task # DragSnap /\ f.id # dragTimer
    BY <1>2, <2>1, <2>2 DEF Dropped
  <2>4. \A f \in Coming' : f.id # NoId
    BY <1>2, NoIdIsNobody DEF Dropped
  <2>5. dragTimer' \in {dragTimer, NoId}
    BY DEF ApplyDragSnap
  <2> QED BY <2>3, <2>4, <2>5 DEF OneDrag, OneDragTimer, DragKind
<1> QED BY <1>3, <1>4, <1>5 DEF TransInv, TransientsEnd, ToastsArmed, Toast, OneDrag

\* What is left of distinct notifications without one of them.
LEMMA RemoveAtOne ==
  ASSUME NEW s \in Seq(Nat), NEW i \in 1..Len(s),
         \A j, k \in 1..Len(s) : s[j] = s[k] => j = k
  PROVE  /\ RemoveAt(s, i) \in Seq(Nat)
         /\ \A j \in 1..Len(RemoveAt(s, i)) :
              RemoveAt(s, i)[j] # s[i] /\ \E k \in 1..Len(s) : RemoveAt(s, i)[j] = s[k]
         /\ \A j, k \in 1..Len(RemoveAt(s, i)) :
              RemoveAt(s, i)[j] = RemoveAt(s, i)[k] => j = k
<1> DEFINE r == RemoveAt(s, i)
           at(j) == IF j < i THEN j ELSE j + 1
<1>1. Len(s) \in Nat \ {0} /\ i \in Nat
  OBVIOUS
<1>2. \A j \in 1..(Len(s) - 1) : at(j) \in 1..Len(s) /\ at(j) # i /\ r[j] = s[at(j)]
  BY <1>1 DEF RemoveAt
<1>3. \A j, k \in 1..(Len(s) - 1) : at(j) = at(k) => j = k
  BY <1>1
<1>4. r \in Seq(Nat) /\ Len(r) = Len(s) - 1
  <2>1. \A j \in 1..(Len(s) - 1) : s[at(j)] \in Nat
    BY <1>2
  <2>2. r = [j \in 1..(Len(s) - 1) |-> s[at(j)]]
    BY DEF RemoveAt
  <2> HIDE DEF at
  <2>3. r \in [1..(Len(s) - 1) -> Nat] /\ Len(s) - 1 \in Nat
    BY <1>1, <2>1, <2>2
  <2> HIDE DEF r
  <2> QED BY <2>3
<1> HIDE DEF r, at
<1>5. \A j \in 1..Len(r) : r[j] # s[i] /\ \E k \in 1..Len(s) : r[j] = s[k]
  BY <1>2, <1>4
<1>6. \A j, k \in 1..Len(r) : r[j] = r[k] => j = k
  <2> SUFFICES ASSUME NEW j \in 1..Len(r), NEW k \in 1..Len(r), r[j] = r[k] PROVE j = k
    OBVIOUS
  <2>1. s[at(j)] = s[at(k)] /\ at(j) \in 1..Len(s) /\ at(k) \in 1..Len(s)
    BY <1>2, <1>4
  <2>2. at(j) = at(k)
    BY <2>1
  <2> QED BY <1>3, <1>4, <2>2
<1> QED BY <1>4, <1>5, <1>6 DEF r

LEMMA DismissTrans == ASSUME Assumptions, Base, TransInv, Dismiss PROVE TransInv'
<1>1. PICK n \in 0..MaxId :
        /\ Fires(DismissNotification(n)) /\ Calm
        /\ \/ \E i \in DOMAIN notes : notes[i] = n /\ notes' = RemoveAt(notes, i)
           \/ (\A i \in DOMAIN notes : notes[i] # n) /\ UNCHANGED notes
        /\ UNCHANGED <<heap, cancelled, nextId, nextNote, Toasts, Mouse, outline>>
  BY DEF Dismiss
<1>2. n \in Nat /\ UNCHANGED <<now, pending, nextNote, dragTimer, outline>>
  BY <1>1 DEF Assumptions, SchedulerAssumption, Calm, Toasts, Mouse
<1>3. Dropped(Head(fired).id) /\ \A u : u # DismissNotification(n) => Untouched(u)
  BY <1>1, HandlerTouches
<1>4. OutlineArmed'
  BY <1>2, <1>3, OutlineStays, TaskKinds DEF TransInv, TransientsEnd
<1>5. \A w \in Windows : Toast(w)'
  BY <1>2, <1>3, ToastStays, TaskKinds DEF TransInv, TransientsEnd, ToastsArmed, Toast
<1>6. OneDrag'
  BY <1>2, <1>3, DragStays, TaskKinds DEF Dropped, OneDrag, TransInv, TransientsEnd
<1>7. notes \in Seq(Nat) /\ DOMAIN notes = 1..Len(notes)
      /\ \A j, k \in 1..Len(notes) : notes[j] = notes[k] => j = k
  BY DEF TransInv, NotesInv
<1>8. /\ notes' \in Seq(Nat)
      /\ \A j \in 1..Len(notes') : notes'[j] # n /\ \E k \in 1..Len(notes) : notes'[j] = notes[k]
      /\ \A j, k \in 1..Len(notes') : notes'[j] = notes'[k] => j = k
  <2>1. ASSUME NEW i \in DOMAIN notes, notes[i] = n, notes' = RemoveAt(notes, i)
        PROVE  /\ notes' \in Seq(Nat)
               /\ \A j \in 1..Len(notes') :
                    notes'[j] # n /\ \E k \in 1..Len(notes) : notes'[j] = notes[k]
               /\ \A j, k \in 1..Len(notes') : notes'[j] = notes'[k] => j = k
    <3>1. i \in 1..Len(notes)
      BY <1>7, <2>1
    <3> DEFINE s == RemoveAt(notes, i)
    <3>2. /\ s \in Seq(Nat)
          /\ \A j \in 1..Len(s) : s[j] # notes[i] /\ \E k \in 1..Len(notes) : s[j] = notes[k]
          /\ \A j, k \in 1..Len(s) : s[j] = s[k] => j = k
      BY <1>7, <3>1, RemoveAtOne
    <3> HIDE DEF s
    <3>3. notes' = s
      BY <2>1 DEF s
    <3> QED BY <2>1, <3>2, <3>3
  <2>2. CASE (\A i \in DOMAIN notes : notes[i] # n) /\ UNCHANGED notes
    BY <1>7, <2>2
  <2> QED BY <1>1, <2>1, <2>2
<1>9. NotesInv'
  BY <1>2, <1>8 DEF TransInv, NotesInv
<1>10. NotesArmed'
  <2> SUFFICES ASSUME NEW j \in 1..Len(notes')
               PROVE  \E f \in Coming' : f.task = DismissNotification(notes'[j])
    BY <1>8 DEF NotesArmed
  <2>1. PICK k \in 1..Len(notes) : notes'[j] = notes[k] /\ notes[k] # n
    BY <1>8
  <2>2. notes[k] \in Nat
    BY <1>7
  <2>3. NoteArmed(notes[k]) /\ Untouched(DismissNotification(notes[k]))
    BY <1>2, <1>3, <1>7, <2>1, <2>2, TaskKinds DEF TransInv, TransientsEnd, NotesArmed, NoteArmed
  <2> QED BY <2>1, <2>3, NoteStays
<1> QED BY <1>4, <1>5, <1>6, <1>9, <1>10 DEF TransInv, TransientsEnd, ToastsArmed, Toast, OneDrag

LEMMA FlushTrans ==
  ASSUME Assumptions, Base, TransInv, NEW w \in Windows, FlushToast(w) PROVE TransInv'
<1>1. /\ Fires(FlushDirectModeToast(w)) /\ pending' = [pending EXCEPT ![w] = None]
      /\ UNCHANGED <<now, dragTimer, outline>>
  BY DEF FlushToast, Push, Schedule, Calm, Mouse
<1>2. /\ \A u : u \notin {FlushDirectModeToast(w), DismissNotification(nextNote)} => Untouched(u)
      /\ \A f \in Coming' : (f \in Coming /\ f.id # Head(fired).id)
                            \/ (f.id = nextId /\ f.task = DismissNotification(nextNote))
      /\ \A e \in Live' : e \in Live \/ e.id = nextId
      /\ NotesArmed' /\ NotesInv'
  <2>1. nextNote \in Nat
    BY DEF Base, Remembered
  <2>2. CASE Push
    <3>1. /\ Added(Head(fired).id, now + Ttl, DismissNotification(nextNote))
          /\ \A u : u \notin {FlushDirectModeToast(w), DismissNotification(nextNote)} => Untouched(u)
      BY <2>2, FlushTouches
    <3>2. [id |-> nextId, task |-> DismissNotification(nextNote)] \in Coming'
      BY <3>1 DEF Added
    <3>3. NotesArmed' /\ NotesInv'
      BY <1>1, <2>1, <2>2, <3>1, <3>2, PushNotes, TaskKinds DEF TransInv, TransientsEnd
    <3> QED BY <3>1, <3>3 DEF Added
  <2>3. CASE UNCHANGED <<heap, cancelled, Notes>>
    <3>1. Dropped(Head(fired).id) /\ \A u : u # FlushDirectModeToast(w) => Untouched(u)
      BY <1>1, <2>3, HandlerTouches
    <3>2. \A i \in DOMAIN notes : notes[i] \in Nat
      BY DEF TransInv, NotesInv
    <3>3. NotesArmed' /\ NotesInv'
      BY <1>1, <2>3, <3>1, <3>2, NotesStay, TaskKinds DEF TransInv, TransientsEnd, Notes, NotesInv
    <3> QED BY <3>1, <3>3 DEF Dropped
  <2> QED BY <2>2, <2>3 DEF FlushToast
<1>3. nextNote \in Nat
  BY DEF Base, Remembered
<1>4. OutlineArmed'
  BY <1>1, <1>2, <1>3, OutlineStays, TaskKinds DEF TransInv, TransientsEnd
<1>5. OneDrag'
  BY <1>1, <1>2, <1>3, DragStays, TaskKinds DEF OneDrag, TransInv, TransientsEnd
<1>6. pending \in [Windows -> [id : 1..(nextId - 1), since : Nat] \cup {None}]
  BY DEF Base, Remembered
<1>7. \A v \in Windows \ {w} : Toast(v)'
  <2> SUFFICES ASSUME NEW v \in Windows \ {w} PROVE Toast(v)'
    OBVIOUS
  <2>1. pending'[v] = pending[v]
    BY <1>1, <1>6
  <2> QED
    BY <1>2, <1>3, <2>1, ToastStays, TaskKinds DEF TransInv, TransientsEnd, ToastsArmed, Toast
<1>8. Toast(w)'
  <2>1. pending'[w] = None
    BY <1>1, <1>6
  <2>2. \A f \in Coming : f.task = FlushDirectModeToast(w) => f.id = Head(fired).id
    <3>1. \A f \in Coming : f.task = FlushDirectModeToast(w) => f.id = pending[w].id
      BY DEF TransInv, TransientsEnd, ToastsArmed
    <3> QED BY <1>1, <3>1, HeadIsItself
  <2>3. {f \in Coming' : f.task = FlushDirectModeToast(w)} = {}
    BY <1>2, <1>3, <2>2, TaskKinds
  <2>4. \A e \in Live' : e.id # NoId
    BY <1>2 DEF Live, Base, HeapInv, Entry, Assumptions, SchedulerAssumption
  <2> QED BY <2>1, <2>3, <2>4 DEF Toast, None
<1> QED BY <1>2, <1>4, <1>5, <1>7, <1>8 DEF TransInv, TransientsEnd, ToastsArmed, Toast, OneDrag

LEMMA ClearTrans == ASSUME Assumptions, Base, TransInv, ClearOutline PROVE TransInv'
<1>1. /\ UNCHANGED <<now, heap, cancelled, pending, notes, nextNote, dragTimer>>
      /\ Fires(ClearTabOutline)
      /\ outline' = IF outline # NoTime /\ now >= outline THEN NoTime ELSE outline
  BY DEF ClearOutline, Calm, Toasts, Notes, Mouse
<1>2. Dropped(Head(fired).id) /\ \A u : u # ClearTabOutline => Untouched(u)
  BY <1>1, HandlerTouches
<1>3. \A i \in DOMAIN notes : notes[i] \in Nat
  BY DEF TransInv, NotesInv
<1>4. NotesArmed' /\ NotesInv'
  BY <1>1, <1>2, <1>3, NotesStay, TaskKinds DEF TransInv, TransientsEnd, NotesInv
<1>5. \A w \in Windows : Toast(w)'
  BY <1>1, <1>2, ToastStays, TaskKinds DEF TransInv, TransientsEnd, ToastsArmed, Toast
<1>6. OneDrag'
  BY <1>1, <1>2, DragStays, TaskKinds DEF Dropped, OneDrag, TransInv, TransientsEnd
<1>7. OutlineArmed'
  <2>1. CASE outline' = NoTime
    BY <2>1 DEF OutlineArmed
  <2>2. CASE outline' = outline /\ ~(outline # NoTime /\ now >= outline)
    <3>1. Live' = Live
      BY <1>1 DEF Live
    <3> QED BY <2>2, <3>1 DEF TransInv, TransientsEnd, OutlineArmed
  <2> QED BY <1>1, <2>1, <2>2
<1> QED BY <1>4, <1>5, <1>6, <1>7 DEF TransInv, TransientsEnd, ToastsArmed, Toast, OneDrag

LEMMA TransKept == ASSUME Assumptions, Base, TransInv, [Next]_vars PROVE TransInv'
<1>1. CASE Next
  BY <1>1, ClockTrans, NotifyTrans, FocusTrans, SubmitTrans, CloseTrans, MouseTrans, SnapTrans,
     DismissTrans, FlushTrans, ClearTrans DEF Next, Handle
<1>2. CASE UNCHANGED vars
  <2>1. UNCHANGED <<Live, Coming>>
    BY <1>2 DEF vars, schedulerVars, Live, Coming
  <2> QED BY <1>2, <2>1
    DEF vars, schedulerVars, wmVars, TransInv, TransientsEnd, ToastsArmed, NotesArmed, OutlineArmed,
        OneDragTimer, DragKind, NotesInv
<1> QED BY <1>1, <1>2

LEMMA TransHolds ==
  ASSUME Assumptions PROVE Spec => [](Base /\ TransInv)
<1>1. Init => Base /\ TransInv
  <2> SUFFICES ASSUME Init PROVE Base /\ TransInv
    OBVIOUS
  <2>1. Live = {} /\ Coming = {} /\ fired = <<>> /\ notes = <<>>
    BY DEF Init, SchedulerInit, Live, Coming
  <2>2. HeapInv /\ Remembered /\ FiredInv
    BY <2>1 DEF Init, SchedulerInit, HeapInv, Remembered, FiredInv
  <2>3. TransInv
    BY <2>1 DEF Init, SchedulerInit, TransInv, TransientsEnd, ToastsArmed, NotesArmed, OutlineArmed,
                OneDragTimer, DragKind, NotesInv
  <2> QED BY <2>2, <2>3 DEF Base
<1>2. Base /\ TransInv /\ [Next]_vars => (Base /\ TransInv)'
  <2> SUFFICES ASSUME Base, TransInv, [Next]_vars PROVE (Base /\ TransInv)'
    OBVIOUS
  <2>1. HeapInv' /\ Remembered' /\ FiredInv'
    BY HeapKept, RememberedKept, FiredKept, StepsAreCalls DEF Base, Assumptions, vars
  <2> QED BY <2>1, TransKept DEF Base
<1> QED BY <1>1, <1>2, PTL DEF Spec

\* Whatever is shown for a time has the timer that ends it, on time: for every set of
\* windows, every duration and every capacity.
THEOREM ShownEnds == Spec => []TransientsEnd
<1> USE SchedulerAssumption, SystemTaskAssumption DEF Assumptions
<1>1. Base /\ TransInv => TransientsEnd
  BY DEF TransInv
<1> QED BY <1>1, TransHolds, PTL

(***************************************************************************)
(* The one timer of a drag counts from its last movement.                  *)
(***************************************************************************)
RestInv ==
  capture = "drag" =>
    /\ \A e \in Live : e.task = DragSnap => rested \in Nat /\ e.at = rested + SnapTimeout
    /\ \A f \in Drained : f.task = DragSnap => rested \in Nat /\ rested + SnapTimeout <= now

LEMMA RestStays ==
  ASSUME RestInv, Untouched(DragSnap), Drained' \subseteq Drained, UNCHANGED <<now, capture, rested>>
  PROVE  RestInv'
BY DEF RestInv, Untouched

LEMMA ClockRest ==
  ASSUME Assumptions, Base, FiredInv', RestInv, Clock PROVE RestInv'
<1>1. /\ Coming' = Coming /\ Live' \subseteq Live
      /\ \A e \in Live : e \in Live' \/ e.at <= now
      /\ now \in Nat /\ now' \in Nat /\ now <= now'
  BY ClockComing DEF Assumptions, Base, HeapInv
<1>2. UNCHANGED <<capture, rested>>
  BY DEF Clock, wmVars
<1>3. SnapTimeout \in Nat
  BY DEF Assumptions, SchedulerAssumption, SystemTaskAssumption
<1> SUFFICES ASSUME capture = "drag", NEW f \in Drained', f.task = DragSnap
             PROVE  rested \in Nat /\ rested + SnapTimeout <= now'
  BY <1>1, <1>2 DEF RestInv
<1>4. f \in Coming
  BY <1>1 DEF Drained, Coming
<1>5. CASE f \in Drained
  BY <1>1, <1>3, <1>5 DEF RestInv
<1>6. ASSUME NEW e \in Live, f = [id |-> e.id, task |-> e.task]
      PROVE  rested \in Nat /\ rested + SnapTimeout <= now'
  <2>1. e.id = f.id /\ e.task = DragSnap
    BY <1>6
  <2>2. rested \in Nat /\ e.at = rested + SnapTimeout
    BY <2>1 DEF RestInv
  <2>3. e \notin Live'
    <3>1. DOMAIN fired' = 1..Len(fired')
      BY DEF FiredInv
    <3>2. PICK i \in 1..Len(fired') : f = fired'[i]
      BY <3>1 DEF Drained
    <3> QED BY <2>1, <3>2 DEF FiredInv, Live
  <2> QED BY <1>1, <1>3, <2>2, <2>3
<1> QED BY <1>4, <1>5, <1>6 DEF Coming, Drained

LEMMA RestKept ==
  ASSUME Assumptions, Base, FiredInv', TransInv, RestInv, [Next]_vars PROVE RestInv'
<1>1. CASE Clock
  BY <1>1, ClockRest
<1>2. ASSUME Event PROVE Drained' = {} /\ Drained = {}
  BY <1>2 DEF Event, Drained
<1>3. \A e \in Live : e.task = DragSnap => e.id = dragTimer
  <2>1. \A e \in Live : [id |-> e.id, task |-> e.task] \in Coming
    BY DEF Coming
  <2> QED BY <2>1 DEF TransInv, TransientsEnd, OneDragTimer
<1>4. nextNote \in Nat /\ dragTimer \in 1..(nextId - 1) \cup {NoId}
  BY DEF Base, Remembered
<1>5. CASE Notify
  <2>1. Untouched(DragSnap)
    BY <1>4, <1>5, NotifyTouches, TaskKinds
  <2> QED BY <1>2, <1>5, <2>1, RestStays DEF Notify, Push, Schedule, Calm, Mouse
<1>6. CASE AdvanceFocus
  <2>1. Untouched(DragSnap)
    BY <1>6, FocusTouches, TaskKinds
  <2> QED BY <1>2, <1>6, <2>1, RestStays DEF AdvanceFocus, Schedule, Calm, Mouse
<1>7. ASSUME NEW w \in Windows, DirectInputModeChanged(w) PROVE RestInv'
  <2>1. Untouched(DragSnap)
    BY <1>7, SubmitTouches, TaskKinds
  <2> QED BY <1>2, <1>7, <2>1, RestStays DEF DirectInputModeChanged, Submit, Schedule, Calm, Mouse
<1>8. ASSUME NEW w \in Windows, CloseWindow(w) PROVE RestInv'
  <2>1. Untouched(DragSnap)
    BY <1>8, CloseTouches, TaskKinds DEF TransInv, TransientsEnd
  <2> QED BY <1>2, <1>8, <2>1, RestStays DEF CloseWindow, Cancel, Calm, Mouse
<1>9. CASE PressHeader \/ DragMove
  <2>1. Added(dragTimer, now + SnapTimeout, DragSnap) /\ rested' = now /\ now \in Nat
    BY <1>4, <1>9, ScheduleAdds DEF PressHeader, DragMove, Arm, Assumptions, Base, HeapInv
  <2>2. \A e \in Live' : e.task = DragSnap => e.at = now + SnapTimeout
    BY <1>3, <2>1 DEF Added
  <2>3. Drained' = {}
    BY <1>2, <1>9 DEF PressHeader, DragMove
  <2> QED BY <2>1, <2>2, <2>3 DEF RestInv
<1>10. CASE MovedSnap \/ ClearCapture
  <2>1. Dropped(dragTimer)
    BY <1>4, <1>10, CancelDrops DEF MovedSnap, ClearCapture, Disarm, Assumptions, Base
  <2>2. \A e \in Live' : e.task # DragSnap
    BY <1>3, <2>1 DEF Dropped
  <2>3. Drained' = {}
    BY <1>2, <1>10 DEF MovedSnap, ClearCapture
  <2> QED BY <2>2, <2>3 DEF RestInv
<1>11. CASE PressOther \/ Release \/ ApplyDragSnap
  BY <1>11 DEF PressOther, Release, ApplyDragSnap, RestInv
<1>12. ASSUME Take PROVE Drained' \subseteq Drained
  BY <1>12, TakeTakes DEF Base
<1>13. CASE Dismiss
  <2>1. PICK n \in Nat : Fires(DismissNotification(n))
    BY <1>13 DEF Dismiss, Assumptions, SchedulerAssumption
  <2>2. Untouched(DragSnap)
    BY <1>13, <2>1, HandlerTouches, TaskKinds DEF Dismiss
  <2>3. Take /\ UNCHANGED <<now, capture, rested>>
    BY <1>13, <2>1 DEF Dismiss, Fires, Calm, Mouse
  <2> QED BY <1>12, <2>2, <2>3, RestStays
<1>14. ASSUME NEW w \in Windows, FlushToast(w) PROVE RestInv'
  <2>1. Untouched(DragSnap)
    <3>1. CASE Push
      BY <1>4, <1>14, <3>1, FlushTouches, TaskKinds
    <3>2. CASE UNCHANGED <<heap, cancelled>>
      BY <1>14, <3>2, HandlerTouches, TaskKinds DEF FlushToast
    <3> QED BY <1>14, <3>1, <3>2 DEF FlushToast
  <2>2. Take /\ UNCHANGED <<now, capture, rested>>
    BY <1>14 DEF FlushToast, Fires, Push, Schedule, Calm, Mouse
  <2> QED BY <1>12, <2>1, <2>2, RestStays
<1>15. CASE ClearOutline
  <2>1. Untouched(DragSnap)
    BY <1>15, HandlerTouches, TaskKinds DEF ClearOutline
  <2>2. Take /\ UNCHANGED <<now, capture, rested>>
    BY <1>15 DEF ClearOutline, Fires, Calm, Mouse
  <2> QED BY <1>12, <2>1, <2>2, RestStays
<1>16. CASE UNCHANGED vars
  BY <1>16 DEF vars, schedulerVars, wmVars, Live, Drained, RestInv
<1> QED
  BY <1>1, <1>5, <1>6, <1>7, <1>8, <1>9, <1>10, <1>11, <1>13, <1>14, <1>15, <1>16
  DEF Next, Handle

\* A handler ends a drag only when the drag has rested for the whole timeout.
LEMMA SnapIsDue ==
  ASSUME Assumptions, Base, RestInv, Next,
         capture = "drag", capture' # "drag", fired' # fired
  PROVE  rested # NoTime /\ now - rested >= SnapTimeout
<1>1. ApplyDragSnap
  BY DEF Next, Clock, wmVars, Handle, Dismiss, FlushToast, ClearOutline, Mouse, Notify, Event,
         AdvanceFocus, DirectInputModeChanged, CloseWindow, PressHeader, PressOther, DragMove,
         Release, MovedSnap, ClearCapture
<1>2. Head(fired) \in Drained /\ Head(fired).task = DragSnap
  BY <1>1, TakeTakes DEF ApplyDragSnap, Fires, Base
<1>3. rested \in Nat /\ rested + SnapTimeout <= now
  BY <1>2 DEF RestInv
<1>4. now \in Nat /\ SnapTimeout \in Nat /\ NoTime \notin Nat
  BY DEF Base, HeapInv, Assumptions, SchedulerAssumption, SystemTaskAssumption
<1> QED BY <1>3, <1>4

\* The timer never ends a drag that has moved within the timeout, however often the
\* drag was started again, and whatever of its earlier timers is still in the heap.
THEOREM SnapsDragsAtRest == Spec => SnapsAfterRest
<1> USE SchedulerAssumption, SystemTaskAssumption DEF Assumptions
<1>1. Init => RestInv
  BY DEF Init, RestInv
<1>2. Base /\ TransInv /\ (Base /\ TransInv)' /\ RestInv /\ [Next]_vars => RestInv'
  BY RestKept DEF Base
<1>3. Base /\ RestInv /\ [Next]_vars =>
        [capture = "drag" /\ capture' # "drag" /\ fired' # fired
           => rested # NoTime /\ now - rested >= SnapTimeout]_<<capture, fired>>
  BY SnapIsDue DEF vars, schedulerVars, wmVars
<1> QED BY <1>1, <1>2, <1>3, TransHolds, PTL DEF Spec, SnapsAfterRest
=============================================================================
