----------------------------- MODULE Scheduler ------------------------------
(***************************************************************************)
(* TaskHandle of crates/term-wm-core/src/task_scheduler.rs: a heap of      *)
(* deadlines with lazy cancellation.  One thread owns it.  drain_expired   *)
(* is written entry by entry, because time goes on between the entries.    *)
(* keep_awake, a flag or-ed into has_pending, belongs to the model of the  *)
(* event loop; drain_expired_once has no caller but tests.                 *)
(***************************************************************************)
EXTENDS Integers, Sequences

CONSTANTS
  Task,     \* the payloads
  Delay,    \* the durations there are
  NoTime,   \* None, of a time
  NoId,     \* None, of a TaskId
  MaxTime, MaxId  \* bounds of the clock and of the identifiers

ASSUME SchedulerAssumption ==
  /\ Delay \subseteq Nat \ {0} /\ NoTime \notin Nat /\ NoId \notin Nat
  /\ MaxTime \in Nat /\ MaxId \in Nat

VARIABLES
  now,        \* Instant::now()
  heap,       \* the entries of the BinaryHeap; every = 0 is the interval None
  cancelled,  \* identifiers to be skipped when their entry comes up
  nextId,
  limit,      \* the time drain_expired read when it began; NoTime: it is not running
  fired,      \* the result of drain_expired, of which the caller takes one by one
  answer      \* what the call returns if it is time_until_next, else NoTime

schedulerVars == <<now, heap, cancelled, nextId, limit, fired, answer>>

\* Ord of HeapEntry, reversed: the entry that is popped first comes first.
Before(e, f) == e.at < f.at \/ (e.at = f.at /\ e.id <= f.id)
Top(e, S) == e \in S /\ \A f \in S : Before(e, f)

SchedulerInit ==
  /\ now = 0 /\ heap = {} /\ cancelled = {} /\ nextId = 1
  /\ limit = NoTime /\ fired = <<>> /\ answer = NoTime

Pass ==
  /\ now < MaxTime
  /\ now' = now + 1 /\ answer' = NoTime /\ UNCHANGED <<heap, cancelled, nextId, limit, fired>>

\* What holds of every call between two drains.
Calm == limit = NoTime /\ answer' = NoTime /\ UNCHANGED <<now, limit>>

Take == fired # <<>> /\ fired' = Tail(fired)

\* schedule_once, and schedule_repeating, which may start at once.  The caller may
\* cancel first the timer it remembers as the old one.
Schedule(old, after, every, t) ==
  /\ Calm /\ nextId <= MaxId
  /\ every # 0 => after \in {0, every}
  /\ heap' = heap \cup {[at |-> now + after, every |-> every, task |-> t, id |-> nextId]}
  /\ nextId' = nextId + 1
  /\ cancelled' = cancelled \cup ({old} \ {NoId})

Cancel(id) == Calm /\ cancelled' = cancelled \cup ({id} \ {NoId}) /\ UNCHANGED <<heap, nextId>>

\* Fault: the next deadline is read off the heap as it is.
PurgedNever == {e \in heap : e.id < 0}

\* Cancelled entries are popped until one comes up that is not.
Purged == {e \in heap : \A f \in heap : Before(f, e) => f.id \in cancelled}

TimeUntilNext ==
  LET left == heap \ Purged IN
  /\ limit = NoTime
  /\ heap' = left /\ cancelled' = cancelled \ {e.id : e \in Purged}
  /\ \/ left = {} /\ answer' = NoTime
     \/ \E e \in left : Top(e, left) /\ answer' = IF e.at > now THEN e.at - now ELSE 0
  /\ UNCHANGED <<now, nextId, limit, fired>>

DrainStart ==
  /\ limit = NoTime /\ fired = <<>>
  /\ limit' = now /\ answer' = NoTime /\ UNCHANGED <<now, heap, cancelled, nextId, fired>>

\* What a popped entry leaves in the heap.
Reinserted(e) == IF e.every = 0 THEN {} ELSE {[e EXCEPT !.at = @ + e.every]}

DrainPop(e) ==
  /\ limit # NoTime /\ Top(e, heap) /\ e.at <= limit
  /\ IF e.id \in cancelled
     THEN heap' = heap \ {e} /\ cancelled' = cancelled \ {e.id} /\ UNCHANGED fired
     ELSE /\ heap' = (heap \ {e}) \cup Reinserted(e)
          /\ fired' = Append(fired, [id |-> e.id, task |-> e.task])
          /\ UNCHANGED cancelled
  /\ answer' = NoTime /\ UNCHANGED <<now, nextId, limit>>

DrainEnd ==
  /\ limit # NoTime /\ \A e \in heap : e.at > limit
  /\ limit' = NoTime /\ answer' = NoTime /\ UNCHANGED <<now, heap, cancelled, nextId, fired>>

\* The thread that owns the scheduler handles the drained tasks and calls it again.
Call ==
  /\ UNCHANGED fired \/ Take
  /\ \/ \E id \in 1..(nextId - 1) \cup {NoId} : Cancel(id)
     \/ \E old \in 1..(nextId - 1) \cup {NoId}, after, every \in Delay \cup {0}, t \in Task :
          Schedule(old, after, every, t)

SchedulerNext ==
  Pass \/ TimeUntilNext \/ DrainStart \/ (\E e \in heap : DrainPop(e)) \/ DrainEnd \/ Call

SchedulerSpec == SchedulerInit /\ [][SchedulerNext]_schedulerVars

\* The entries that are not cancelled.
Live == {e \in heap : e.id \notin cancelled}

\* The heap with its cancelled entries is a set of timers in which nothing that
\* was cancelled is left, and of which the first is known at any time.
TimerSet == INSTANCE Timers WITH timers <- Live, issued <- nextId
IsTimers == TimerSet!Spec
=============================================================================
