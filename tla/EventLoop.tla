----------------------------- MODULE EventLoop -----------------------------
(***************************************************************************)
(* The one loop of the window manager and the threads that feed it:        *)
(* run_event_loop of crates/term-wm-core/src/runner.rs, EventLoop::run,    *)
(* the UnifiedEventSource of src/unified_event_source.rs, the frame pacer  *)
(* and the renderer's half of the PTY readers' edge-triggered wakeup.      *)
(*                                                                         *)
(* Time is untimed: a deadline is "none", "armed" or "due", and a sleep is *)
(* "zero", "short" (bounded by a deadline or an active power profile) or   *)
(* "long" (the 3600 s of PowerSaver, on whose end nothing may rely).  An   *)
(* input event is its place in the order of arrival; a key release, which  *)
(* the normalizer drops, has no place.  A draw visits the open windows     *)
(* that are displayed.  Quitting is left out.                              *)
(***************************************************************************)
EXTENDS Naturals, Sequences

CONSTANTS
  Windows,    \* terminal windows open at the start
  NoWindow,
  Consoles,   \* TRUE: a program with a console; FALSE: an internal session, whose
              \* input comes attributed through the unified channel
  Cap,        \* EVENT_CHANNEL_CAPACITY, CONSOLE_EVENT_CHANNEL_CAPACITY
  MaxEvents   \* bound on what the environment does: keys, chunks of output, exits,
              \* panics of the renderer, windows hidden or shown, timers, overlays

ASSUME LoopAssumption ==
  /\ NoWindow \notin Windows
  /\ Consoles \subseteq BOOLEAN
  /\ Cap \in Nat \ {0} /\ MaxEvents \in Nat

VARIABLES
  local,   \* there is a console, and no viewers
  spent,   \* what MaxEvents bounds
  chan,    \* the unified channel
  console, \* the channel of the background console reader
  typed,   \* input events so far
  reader,  \* per window: where its reader thread is
  dead,    \* windows whose child try_wait finds dead
  raised,  \* windows whose Pty::dirty is set
  stale,   \* windows whose emulator holds what no frame has shown
  latched, \* windows whose exit has been reported (exited_emitted)
  open, hidden,  \* windows there are, and those that are not displayed
  dirty, exited, modes,  \* dirty_windows, exited_windows, direct_input_changed
  buffer,  \* input_buffer
  owner,   \* event_owner
  handled, \* the last input event given to the handler
  recent,  \* last_event_at lies less than STREAMING_THRESHOLD_MS back
  work,    \* pending_work: an overlay is up or an app task waits
  sp, rp,  \* the deadlines of the source's frame pacer and of the runner's
  task,    \* the next deadline of the schedulers
  pc,      \* where the loop is
  sleep,   \* poll's `remaining`
  todo, cur, \* windows the draw has still to visit, and the one it is in
  copied,  \* windows of which the frame holds all that their emulators do
  missed,  \* for the properties: the pacers whose deadline has passed between the two
           \* reads of the clock before this sleep
  lost     \* for the properties: windows whose output may wait for another reason to
           \* draw, since a frame panicked that was not drawn for their sake

inputVars == <<local, console, typed>>
childVars == <<reader, dead>>
ptyVars   == <<raised, stale, latched>>
wmVars    == <<open, hidden, work, task>>
setVars   == <<dirty, exited, modes>>
eventVars == <<buffer, owner, handled, recent>>
drawVars  == <<todo, cur, copied, lost>>
vars == <<spent, chan, inputVars, childVars, ptyVars, wmVars, setVars, eventVars,
          drawVars, sp, rp, pc, sleep, missed>>

\* 0 is no event, and the owner of local input.
Owner(e) == IF local THEN 0 ELSE 1 + (e % 2)

\* The state after the render that precedes the loop.
Init ==
  /\ local \in Consoles /\ spent = 0
  /\ chan = <<>> /\ console = <<>> /\ typed = 0
  /\ reader = [w \in Windows |-> "read"]
  /\ dead = {} /\ raised = {} /\ stale = {} /\ latched = {}
  /\ open = Windows /\ hidden = {}
  /\ dirty = {} /\ exited = {} /\ modes = {}
  /\ buffer = <<>> /\ owner = 0 /\ handled = 0 /\ recent = FALSE
  /\ work = FALSE /\ sp = "none" /\ rp = "none" /\ task = "none"
  /\ pc = "handler" /\ sleep = "zero"
  /\ todo = {} /\ cur = NoWindow /\ copied = {} /\ lost = {} /\ missed = {}

Room == Len(chan) < Cap
Send(kind, x) == chan' = Append(chan, <<kind, x>>)

\* FramePacer::notify_pending.
Armed(deadline) == IF deadline = "none" THEN "armed" ELSE deadline

Event == spent < MaxEvents /\ spent' = spent + 1

-----------------------------------------------------------------------------
(* Input.  The handler of attributed input drops what the channel has no   *)
(* room for; the console reader waits.                                     *)

Inputs == {<<"key", typed + 1>>, <<"release", 0>>}

ViewerInput ==
  /\ ~local /\ Event
  /\ typed' = typed + 1
  /\ \E e \in Inputs : IF Room THEN Send(e[1], e[2]) ELSE UNCHANGED chan
  /\ UNCHANGED <<local, console, childVars, ptyVars, wmVars, setVars, eventVars,
                 drawVars, sp, rp, pc, sleep, missed>>

ConsoleInput ==
  /\ local /\ Event /\ Len(console) < Cap
  /\ typed' = typed + 1
  /\ \E e \in Inputs : console' = Append(console, e)
  /\ UNCHANGED <<chan, local, childVars, ptyVars, wmVars, setVars, eventVars,
                 drawVars, sp, rp, pc, sleep, missed>>

-----------------------------------------------------------------------------
(* The reader threads, as far as the loop hears of them.  A reader sends   *)
(* with its status_cb lock held, and blocks while the channel is full.     *)

Goes(w, to) == reader' = [reader EXCEPT ![w] = to]
Sending(w) == reader[w] \in {"mode", "wake", "lastwake", "exit"}

ReaderRead(w) ==
  /\ reader[w] = "read" /\ Event
  /\ \E to \in {"mode", "parse"} : Goes(w, to)
  /\ UNCHANGED <<chan, inputVars, dead, ptyVars, wmVars, setVars, eventVars,
                 drawVars, sp, rp, pc, sleep, missed>>

\* End of file, or an error: on Linux, the EIO of a hung-up terminal.
ReaderEnd(w) ==
  /\ reader[w] = "read" /\ Event
  /\ \E to \in {"lastwake", "exit"} : Goes(w, to)
  /\ UNCHANGED <<chan, inputVars, dead, ptyVars, wmVars, setVars, eventVars,
                 drawVars, sp, rp, pc, sleep, missed>>

ReaderParse(w) ==
  /\ reader[w] = "parse"
  /\ stale' = stale \cup ({w} \cap open)
  /\ copied' = copied \ {w}
  /\ Goes(w, "raise")
  /\ UNCHANGED <<spent, chan, inputVars, dead, raised, latched, wmVars, setVars,
                 eventVars, todo, cur, lost, sp, rp, pc, sleep, missed>>

\* The wakeup is edge-triggered: only the raising of the flag sends one.
ReaderRaise(w) ==
  /\ reader[w] = "raise"
  /\ raised' = raised \cup {w}
  /\ Goes(w, IF w \in raised THEN "read" ELSE "wake")
  /\ UNCHANGED <<spent, chan, inputVars, dead, stale, latched, wmVars, setVars,
                 eventVars, drawVars, sp, rp, pc, sleep, missed>>

ReaderSend(w) ==
  /\ Room
  /\ \/ reader[w] = "mode" /\ Send("mode", w) /\ Goes(w, "parse")
     \/ reader[w] = "wake" /\ Send("wakeup", w) /\ Goes(w, "read")
     \/ reader[w] = "lastwake" /\ Send("wakeup", w) /\ Goes(w, "exit")
  /\ UNCHANGED <<spent, inputVars, dead, ptyVars, wmVars, setVars, eventVars,
                 drawVars, sp, rp, pc, sleep, missed>>

\* The exit is reported by whoever takes the latch first.
ReaderExit(w) ==
  /\ reader[w] = "exit"
  /\ IF w \in latched THEN UNCHANGED chan ELSE Room /\ Send("exited", w)
  /\ latched' = latched \cup {w}
  /\ Goes(w, "done")
  /\ UNCHANGED <<spent, inputVars, dead, raised, stale, wmVars, setVars,
                 eventVars, drawVars, sp, rp, pc, sleep, missed>>

Die(w) ==
  /\ w \notin dead /\ Event
  /\ dead' = dead \cup {w}
  /\ UNCHANGED <<chan, inputVars, reader, ptyVars, wmVars, setVars, eventVars,
                 drawVars, sp, rp, pc, sleep, missed>>

-----------------------------------------------------------------------------
(* Time passes.                                                            *)

SourceDue == sp = "armed" /\ sp' = "due" /\ UNCHANGED <<rp, task, recent>>
RunnerDue == rp = "armed" /\ rp' = "due" /\ UNCHANGED <<sp, task, recent>>
TaskDue   == task = "armed" /\ task' = "due" /\ UNCHANGED <<sp, rp, recent>>
InputAges == recent /\ recent' = FALSE /\ UNCHANGED <<sp, rp, task>>

Passes(deadline) ==
  /\ deadline
  /\ UNCHANGED <<spent, chan, inputVars, childVars, ptyVars, open, hidden, work,
                 setVars, buffer, owner, handled, drawVars, pc, sleep, missed>>

TimePasses ==
  Passes(SourceDue) \/ Passes(RunnerDue) \/ Passes(TaskDue) \/ Passes(InputAges)

\* What time_until_deadline makes of a deadline try_expire has just refused: a
\* bound on the sleep, or none at all if it has passed in between.
Read(deadline) == IF deadline = "armed" THEN {"armed", "due"} ELSE {deadline}

\* Whether it has passed is kept in `missed`.
Misses(pacer, passed) == missed' = (missed \ {pacer}) \cup (IF passed THEN {pacer} ELSE {})

-----------------------------------------------------------------------------
(* The handler.  Its first part is the same for an event and for none:     *)
(* expired tasks run, exited windows are closed, and the mode changes are  *)
(* handed to the toast debouncer, which schedules a task.                  *)

HandlerTop ==
  /\ open' = open \ exited
  /\ stale' = stale \ exited
  /\ exited' = {} /\ modes' = {}

TaskNext == CASE modes # {}                 -> "armed"
              [] modes = {} /\ task = "due" -> "none"
              [] OTHER                      -> task

\* flush_state_changes clamps the sleep to the next deadline, poll_interval
\* takes the power profile into account.
Poll(deadline, nextTask, stillDirty) ==
  /\ sleep' = IF \/ deadline = "armed" \/ nextTask # "none"
                \/ recent \/ work \/ stillDirty
              THEN "short" ELSE "long"
  /\ pc' = "drain"

\* handler(None): every handler requests a redraw, so the pacer is armed
\* whenever it is not; a deadline that is due starts a frame.
HandleNone ==
  /\ pc = "handler"
  /\ HandlerTop
  /\ task' = TaskNext
  /\ IF rp = "due"
     THEN rp' = "none" /\ pc' = "draw" /\ todo' = open' \ hidden /\ UNCHANGED sleep
     ELSE rp' \in Read(Armed(rp)) /\ Poll(rp', task', dirty # {}) /\ UNCHANGED todo
  /\ Misses("runner", rp' = "due")
  /\ UNCHANGED <<spent, chan, inputVars, childVars, raised, latched, hidden,
                 work, dirty, eventVars, cur, copied, lost, sp>>

\* handler(Some): the application may hide or show a window, set a timer, or
\* open or close an overlay.  The sleep its flush asks for is overruled by
\* poll(0).
HandleEvent ==
  /\ pc = "event"
  /\ HandlerTop
  /\ rp' = Armed(rp)
  /\ \/ UNCHANGED <<spent, hidden, work>> /\ task' = TaskNext
     \/ /\ Event
        /\ \/ /\ \E w \in open' : hidden' = (hidden \ {w}) \cup ({w} \ hidden)
              /\ UNCHANGED work /\ task' = TaskNext
           \/ work' = ~work /\ task' = TaskNext /\ UNCHANGED hidden
           \/ task' = "armed" /\ UNCHANGED <<hidden, work>>
  /\ sleep' = "zero"
  /\ pc' = "drain"
  /\ UNCHANGED <<chan, inputVars, childVars, raised, latched, dirty, eventVars,
                 drawVars, sp, missed>>

-----------------------------------------------------------------------------
(* The frame.                                                              *)

\* A terminal asks whether its child has exited, and reports it if the reader
\* has not, from the loop's own thread: the callback must be free and the channel
\* must have room.  Then sync_screen lowers the flag.
DrawStart ==
  /\ pc = "draw" /\ cur = NoWindow /\ todo # {}
  /\ cur' = CHOOSE w \in todo : TRUE
  /\ IF cur' \in dead \ latched
     THEN /\ ~Sending(cur') /\ Room /\ Send("exited", cur')
          /\ latched' = latched \cup {cur'}
     ELSE UNCHANGED <<chan, latched>>
  /\ raised' = raised \ {cur'}
  /\ todo' = todo \ {cur'}
  /\ UNCHANGED <<spent, inputVars, childVars, stale, wmVars, setVars, eventVars,
                 copied, lost, sp, rp, pc, sleep, missed>>

\* The cells are copied and the flag is lowered again under the emulator's lock.
DrawCells ==
  /\ pc = "draw" /\ cur # NoWindow
  /\ copied' = copied \cup {cur}
  /\ raised' = raised \ {cur}
  /\ cur' = NoWindow
  /\ UNCHANGED <<spent, chan, inputVars, childVars, stale, latched, wmVars, setVars,
                 eventVars, todo, lost, sp, rp, pc, sleep, missed>>

\* Only a frame that was drawn to its end is shown, and consumes the dirty windows.
DrawEnd ==
  /\ pc = "draw" /\ todo = {} /\ cur = NoWindow
  /\ dirty' = {} /\ stale' = stale \ copied
  /\ copied' = {} /\ lost' = {}
  /\ Poll(rp, task, FALSE)
  /\ UNCHANGED <<spent, chan, inputVars, childVars, raised, latched, wmVars, exited,
                 modes, eventVars, todo, cur, sp, rp, missed>>

\* Fault: a panic consumes them as well.
DrawPanicConsumes ==
  /\ pc = "draw" /\ Event
  /\ todo' = {} /\ cur' = NoWindow /\ copied' = {} /\ lost' = open \ dirty
  /\ dirty' = {}
  /\ Poll(rp, task, FALSE)
  /\ UNCHANGED <<chan, inputVars, childVars, ptyVars, wmVars, exited, modes,
                 eventVars, sp, rp, missed>>

DrawPanic ==
  /\ pc = "draw" /\ Event
  /\ todo' = {} /\ cur' = NoWindow /\ copied' = {} /\ lost' = open \ dirty
  /\ Poll(rp, task, dirty # {})
  /\ UNCHANGED <<chan, inputVars, childVars, ptyVars, wmVars, setVars,
                 eventVars, sp, rp, missed>>

-----------------------------------------------------------------------------
(* UnifiedEventSource: poll, and the read that follows when there is input. *)

Of(kind) == {chan[i][2] : i \in {j \in DOMAIN chan : chan[j][1] = kind}}

\* The keys of a queue, in its order.
Keys(s) ==
  LET F[i \in 0..Len(s)] == IF i = 0 THEN <<>>
                            ELSE IF s[i][1] = "key" THEN Append(F[i - 1], s[i][2]) ELSE F[i - 1]
  IN F[Len(s)]

\* Fault: the drain takes the wakeups for served.
DrainDropsWakeups ==
  /\ dirty' = dirty \cup Of("mode")
  /\ modes' = modes \cup Of("mode")
  /\ exited' = exited \cup Of("exited")
  /\ chan' = <<>> /\ console' = <<>>

\* drain_pending and drain_console, up to the moment they find nothing more.
Drain ==
  /\ dirty' = dirty \cup Of("wakeup") \cup Of("mode")
  /\ modes' = modes \cup Of("mode")
  /\ exited' = exited \cup Of("exited")
  /\ chan' = <<>> /\ console' = <<>>

\* Fault: what has just arrived goes ahead of what is buffered.
DrainedFreshFirst == Keys(chan) \o Keys(console) \o buffer

Drained == buffer \o Keys(chan) \o Keys(console)

NoInput ==
  buffer = <<>> /\ Of("key") = {} /\ \A i \in DOMAIN console : console[i][1] # "key"

\* poll gives up: Ok(false).
Idle == pc' = "handler" /\ sp' = "none" /\ Misses("source", FALSE) /\ UNCHANGED sleep

\* The head of the wait loop: try_expire, then the clamp to the deadline.
Wait(deadline, remaining) ==
  IF deadline = "due" THEN Idle
  ELSE /\ sp' \in Read(deadline) /\ Misses("source", sp' = "due")
       /\ sleep' = IF sp' = "armed" THEN "short" ELSE remaining
       /\ pc' = "block"

\* The same pair of tests comes once more before the loop is entered.
Enter(deadline) ==
  IF sleep = "zero" THEN Idle
  ELSE Wait(deadline, IF deadline = "armed" THEN "short" ELSE sleep)

\* Buffered input goes first; read pops it and makes its connection the owner.
PollBuffered ==
  /\ pc = "drain" /\ ~NoInput
  /\ Drain
  /\ handled' = Head(Drained) /\ buffer' = Tail(Drained)
  /\ owner' = Owner(Head(Drained)) /\ recent' = TRUE
  /\ pc' = "event"
  /\ UNCHANGED <<spent, local, typed, childVars, ptyVars, wmVars, drawVars, sp,
                 rp, sleep, missed>>

\* Fault: dirty windows found by the drain do not arm the pacer.
PollEmptyUnarmed ==
  /\ pc = "drain" /\ NoInput
  /\ Drain
  /\ Enter(sp)
  /\ UNCHANGED <<spent, local, typed, childVars, ptyVars, wmVars, eventVars,
                 drawVars, rp>>

\* No input: dirty windows found by the drain arm the pacer before poll blocks.
PollEmpty ==
  /\ pc = "drain" /\ NoInput
  /\ Drain
  /\ Enter(IF dirty' # {} THEN Armed(sp) ELSE sp)
  /\ UNCHANGED <<spent, local, typed, childVars, ptyVars, wmVars, eventVars,
                 drawVars, rp>>

\* A key ends the wait, whichever channel it came through, and read returns it
\* from pending_event; only an attributed one changes the owner.
Ready(e) ==
  /\ handled' = e /\ recent' = TRUE /\ sp' = "none" /\ pc' = "event"
  /\ Misses("source", FALSE)
  /\ owner' = IF local THEN owner ELSE Owner(e)
  /\ UNCHANGED sleep

\* A release is filtered out.
Filtered == recent' = TRUE /\ Wait(sp, sleep) /\ UNCHANGED <<handled, owner>>

ReceiveConsole ==
  /\ pc = "block" /\ console # <<>>
  /\ console' = Tail(console)
  /\ IF Head(console)[1] = "key" THEN Ready(Head(console)[2]) ELSE Filtered
  /\ UNCHANGED <<spent, chan, local, typed, childVars, ptyVars, wmVars, setVars,
                 buffer, drawVars, rp>>

\* handle_unified_poll.
Receive ==
  /\ pc = "block" /\ chan # <<>>
  /\ chan' = Tail(chan)
  /\ LET kind == Head(chan)[1]
         x    == Head(chan)[2]
     IN /\ dirty' = IF kind \in {"wakeup", "mode"} THEN dirty \cup {x} ELSE dirty
        /\ modes' = IF kind = "mode" THEN modes \cup {x} ELSE modes
        /\ exited' = IF kind = "exited" THEN exited \cup {x} ELSE exited
        /\ \/ kind = "key" /\ Ready(x)
           \/ kind = "release" /\ Filtered
           \/ kind \in {"wakeup", "exited"} /\ Wait(Armed(sp), sleep)
              /\ UNCHANGED <<owner, handled, recent>>
           \/ kind = "mode" /\ sp' = Armed(sp) /\ pc' = "handler" /\ Misses("source", FALSE)
              /\ UNCHANGED <<owner, handled, recent, sleep>>
  /\ UNCHANGED <<spent, inputVars, childVars, ptyVars, wmVars, buffer, drawVars,
                 rp>>

\* Nothing came in time.
TimeOut ==
  /\ pc = "block" /\ sleep = "short"
  /\ Idle
  /\ UNCHANGED <<spent, chan, inputVars, childVars, ptyVars, wmVars, setVars,
                 eventVars, drawVars, rp>>

\* ... not even within the hour.
HourPasses ==
  /\ pc = "block" /\ sleep = "long"
  /\ Idle
  /\ UNCHANGED <<spent, chan, inputVars, childVars, ptyVars, wmVars, setVars,
                 eventVars, drawVars, rp>>

-----------------------------------------------------------------------------
Reader(w) == ReaderParse(w) \/ ReaderRaise(w) \/ ReaderSend(w) \/ ReaderExit(w)

Loop ==
  \/ HandleNone \/ HandleEvent
  \/ DrawStart \/ DrawCells \/ DrawEnd
  \/ PollBuffered \/ PollEmpty \/ ReceiveConsole \/ Receive \/ TimeOut

Next ==
  \/ ViewerInput \/ ConsoleInput
  \/ \E w \in Windows : ReaderRead(w) \/ ReaderEnd(w) \/ Reader(w) \/ Die(w)
  \/ TimePasses
  \/ Loop \/ DrawPanic \/ HourPasses

\* Threads run and time passes; nobody has to type, write, exit or panic, and
\* nothing rests on the hour of PowerSaver.
Fairness ==
  /\ WF_vars(Loop)
  /\ WF_vars(Passes(SourceDue)) /\ WF_vars(Passes(RunnerDue))
  /\ WF_vars(Passes(TaskDue)) /\ WF_vars(Passes(InputAges))
  /\ \A w \in Windows : WF_vars(Reader(w))

Spec == Init /\ [][Next]_vars /\ Fairness

-----------------------------------------------------------------------------
LoopTypeOK ==
  /\ chan \in Seq({"wakeup", "mode", "exited", "key", "release"}
                   \X (Windows \cup 0..MaxEvents))
  /\ Len(chan) <= Cap /\ Len(console) <= Cap
  /\ typed \in 0..MaxEvents /\ handled \in 0..MaxEvents
  /\ buffer \in Seq(1..MaxEvents)
  /\ spent \in 0..MaxEvents
  /\ reader \in [Windows -> {"read", "mode", "parse", "raise", "wake", "lastwake",
                             "exit", "done"}]
  /\ UNION {dead, raised, latched, open, hidden, dirty, exited, modes, todo, copied, lost}
       \subseteq Windows
  /\ stale \subseteq open
  /\ {sp, rp, task} \subseteq {"none", "armed", "due"}
  /\ sleep \in {"zero", "short", "long"}
  /\ cur \in Windows \cup {NoWindow}

Asleep == pc = "block" /\ sleep = "long"

\* What the loop knows of, it does not sleep over: when it blocks for the hour, no
\* timer, mode change or input event is waiting; and it has dirty windows or a pacer
\* with a deadline only if, since the pass before, that deadline has passed in between
\* the two reads of the clock that asked for it, so that neither of them saw it.
NeverOversleeps ==
  Asleep =>
    /\ modes = {} /\ buffer = <<>> /\ task = "none"
    /\ dirty # {} \/ sp # "none" => sp = "due" /\ "source" \in missed
    /\ rp # "none" => rp = "due" /\ "runner" \in missed

\* No output is forgotten: while a displayed window shows less than its emulator
\* holds, its reader is about to report it, a wakeup is on its way, or a frame is
\* coming; unless it waits to be drawn since it was shown again, or for another
\* reason than its being dirty, and the frame that was to do it has panicked.
NothingForgotten ==
  \A w \in stale \ (hidden \cup lost) :
    \/ reader[w] \in {"raise", "wake"}
    \/ <<"wakeup", w>> \in {chan[i] : i \in DOMAIN chan}
    \/ w \in dirty
    \/ rp # "none" \/ pc \in {"handler", "event"}
    \/ pc = "draw" /\ w \in todo \cup {cur} \cup copied

\* Events are handled in the order in which they arrived, none of them twice, and
\* each with the connection it came from as the owner, whichever way it went
\* through the source.
InputKeepsOrder ==
  [][handled' # handled => handled' > handled /\ owner' = Owner(handled')]_<<handled, owner>>

\* What a child writes appears on the screen, without a key being pressed, as
\* long as its window stays there and is displayed; or the loop sleeps the hour, for
\* a deadline has passed between two reads of the clock.
OutputAppears ==
  \A w \in Windows :
    (w \in stale) ~> \/ w \notin stale \/ w \in hidden \cup lost
                     \/ Asleep /\ missed # {}

\* A window whose exit has been reported is closed.
ExitedWindowsClose == \A w \in Windows : (w \in latched) ~> (w \notin open)

\* The loop does not sleep the hour with a deadline before it or behind it.
DeadlinesAreSeen == Asleep => {sp, rp, task} = {"none"}

\* The loop's own report of an exit always finds room in the channel.
NeverStuck == pc = "draw" /\ todo \cap (dead \ latched) # {} => Room

=============================================================================
