------------------------------- MODULE Timers -------------------------------
(***************************************************************************)
(* What the task scheduler promises: a set of timers, of which the one     *)
(* that is due first goes off first, once per deadline, until it is        *)
(* cancelled; nothing of a cancelled timer is left.                        *)
(***************************************************************************)
EXTENDS Integers, Sequences

CONSTANTS Task, Delay, NoTime

VARIABLES
  now,      \* the clock
  timers,   \* the timers that run
  issued,   \* identifiers below it have been given away
  limit,    \* the time up to which timers are being collected, or NoTime
  fired,    \* what the collection found, in order, and nobody took yet
  answer    \* the reply to a question for the next deadline

vars == <<now, timers, issued, limit, fired, answer>>

\* e goes off before f, or is f: by deadline, then in the order they were made.
Before(e, f) == e.at < f.at \/ (e.at = f.at /\ e.id <= f.id)
Leads(e, S) == e \in S /\ \A f \in S : Before(e, f)

Init ==
  now = 0 /\ timers = {} /\ issued = 1 /\ limit = NoTime /\ fired = <<>> /\ answer = NoTime

Pass == now' = now + 1 /\ answer' = NoTime /\ UNCHANGED <<timers, issued, limit, fired>>

\* Between two collections what was found is taken, one after another, timers
\* are cancelled, and new ones are set.
Taken == IF fired = <<>> THEN {fired} ELSE {fired, Tail(fired)}
Change(C) ==
  /\ limit = NoTime /\ fired' \in Taken /\ answer' = NoTime
  /\ \/ timers' = timers \ C /\ issued' = issued
     \/ /\ \E after \in Delay \cup {0}, every \in Delay \cup {0}, t \in Task :
             timers' = (timers \ C)
                       \cup {[at |-> now + after, every |-> every, task |-> t, id |-> issued]}
        /\ issued' = issued + 1
  /\ UNCHANGED <<now, limit>>

\* The time to the first deadline; none if nothing runs.
Ask ==
  /\ limit = NoTime /\ UNCHANGED <<now, timers, issued, limit, fired>>
  /\ \/ timers = {} /\ answer' = NoTime
     \/ \E e \in timers : Leads(e, timers) /\ answer' = IF e.at > now THEN e.at - now ELSE 0

Begin ==
  /\ limit = NoTime /\ fired = <<>> /\ limit' = now /\ answer' = NoTime
  /\ UNCHANGED <<now, timers, issued, fired>>

\* Its next deadline counts from the last one, not from when it was collected.
GoOff(e) ==
  /\ limit # NoTime /\ Leads(e, timers) /\ e.at <= limit
  /\ timers' = (timers \ {e}) \cup (IF e.every = 0 THEN {} ELSE {[e EXCEPT !.at = @ + e.every]})
  /\ fired' = Append(fired, [id |-> e.id, task |-> e.task])
  /\ answer' = NoTime /\ UNCHANGED <<now, issued, limit>>

End ==
  /\ limit # NoTime /\ \A e \in timers : e.at > limit
  /\ limit' = NoTime /\ answer' = NoTime /\ UNCHANGED <<now, timers, issued, fired>>

Next ==
  \/ Pass \/ Ask \/ Begin \/ End
  \/ \E e \in timers : GoOff(e)
  \/ \E C \in SUBSET timers : Change(C)

Spec == Init /\ [][Next]_vars
=============================================================================
