----------------------------- MODULE PtyReader -----------------------------
(***************************************************************************)
(* The reader thread of the PTY engine and the owner of the Pty it reads   *)
(* for: crates/term-wm-pty-engine/src/pty.rs.                              *)
(*                                                                         *)
(* The reader moves chunks from the PTY into `pending` and the emulator,   *)
(* raises `dirty`, and parks once it has ingested a burst nobody has       *)
(* rendered.  The owner (a pane, or a session of the gateway) renders,     *)
(* drains `pending`, polls for the child's exit, resizes and, in the end,  *)
(* lets go.  The two share locks, atomics, a condition variable, a wake    *)
(* pipe and a callback.                                                    *)
(*                                                                         *)
(* A chunk is a number, its place in the output.  The guard of `pending`   *)
(* lives until the end of the match arm that took it, and is held while    *)
(* the reader parks: see Held.                                             *)
(***************************************************************************)
EXTENDS Naturals, Sequences

CONSTANTS
  MaxChunks,   \* bound on the chunks ever written
  PipeCap,     \* chunks the kernel's PTY buffer holds
  PendingCap,  \* PENDING_CAP
  Budget,      \* IO_BURST_BUDGET
  DrainBound,  \* MAX_DRAIN_BYTES
  Sizes,       \* sizes the owner asks for, all of them at least 2x2
  NoSize,      \* no resize requested
  Ops          \* what the owner does: "screen", "read", "final", "close"

ASSUME ReaderAssumption ==
  /\ MaxChunks \in Nat /\ PipeCap \in Nat \ {0}
  /\ PendingCap \in Nat \ {0} /\ Budget \in Nat \ {0} /\ DrainBound \in Nat \ {0}
  /\ NoSize \notin Sizes
  /\ Ops \subseteq {"screen", "read", "final", "close"}

VARIABLES
  written,    \* chunks written to the PTY
  closed,     \* nobody has the slave side open any more
  dead,       \* try_wait of the child reports its exit
  taken,      \* chunks the reader has read
  rpc,        \* where the reader thread is
  unrendered, \* bytes_since_render
  drained,    \* drain_bytes
  pending,    \* Pty::pending
  dirty,      \* Pty::dirty
  wake,       \* the resize self-pipe is readable
  request,    \* Pty::pending_resize
  overdue,    \* history: chunks read since the request was made
  callback,   \* Pty::status_cb: "unset", "set", or "fired" at registration
  latch,      \* Pty::exited_emitted
  exited,     \* Pty::exited
  told,       \* Exited events the callback has received
  permit,     \* the permit of the Notify the callback signals
  shutdown,   \* Pty::shutdown
  opc,        \* where the owner is
  op,         \* the operation it is in
  delivered   \* what drain_pending has returned so far

childVars  == <<written, closed, dead>>
threadVars == <<taken, rpc, unrendered, drained>>
sizeVars   == <<request, overdue>>
exitVars   == <<callback, latch, exited, told>>
ownerVars  == <<opc, op, delivered>>
vars == <<childVars, threadVars, pending, dirty, wake, sizeVars, exitVars, permit,
          shutdown, ownerVars>>

Init ==
  /\ written = 0 /\ closed = FALSE /\ dead = FALSE
  /\ taken = 0 /\ rpc = "top" /\ unrendered = 0 /\ drained = 0
  /\ pending = <<>> /\ dirty = FALSE /\ wake = FALSE
  /\ request = NoSize /\ overdue = 0
  /\ callback = "unset" /\ latch = FALSE /\ exited = FALSE /\ told = 0
  /\ permit = FALSE /\ shutdown = FALSE
  /\ opc = "idle" /\ op = "screen" /\ delivered = <<>>

\* The reader holds the lock of `pending`.
Held == rpc \in {"parse", "signal", "check", "wait"}

-----------------------------------------------------------------------------
(* The process group at the other end.                                     *)

Write ==
  /\ ~closed
  /\ written < MaxChunks
  /\ written - taken < PipeCap
  /\ written' = written + 1
  /\ UNCHANGED <<closed, dead, threadVars, pending, dirty, wake, sizeVars, exitVars,
                 permit, shutdown, ownerVars>>

\* The child exits; a background job may keep the PTY open.
Die ==
  /\ ~dead
  /\ dead' = TRUE
  /\ UNCHANGED <<written, closed, threadVars, pending, dirty, wake, sizeVars,
                 exitVars, permit, shutdown, ownerVars>>

\* The last of them closes the PTY, before the child has exited or after.
Close ==
  /\ ~closed
  /\ closed' = TRUE
  /\ UNCHANGED <<written, dead, threadVars, pending, dirty, wake, sizeVars, exitVars,
                 permit, shutdown, ownerVars>>

-----------------------------------------------------------------------------
(* parser_read_loop.                                                       *)

ReaderTop ==
  /\ rpc = "top"
  /\ rpc' = IF shutdown THEN "done" ELSE "poll"
  /\ UNCHANGED <<childVars, taken, unrendered, drained, pending, dirty, wake,
                 sizeVars, exitVars, permit, shutdown, ownerVars>>

\* poll(2) on the PTY and the wake pipe, without a timeout.
ReaderPoll ==
  /\ rpc = "poll"
  /\ written > taken \/ closed \/ wake
  /\ rpc' = "drain"
  /\ drained' = 0
  /\ wake' = FALSE
  /\ UNCHANGED <<childVars, taken, unrendered, pending, dirty, sizeVars, exitVars,
                 permit, shutdown, ownerVars>>

ReaderRead ==
  /\ rpc = "drain"
  /\ written > taken
  /\ taken' = taken + 1
  /\ overdue' = IF request = NoSize THEN 0 ELSE overdue + 1
  /\ rpc' = "append"
  /\ UNCHANGED <<childVars, unrendered, drained, pending, dirty, wake, request,
                 exitVars, permit, shutdown, ownerVars>>

\* The drain boundary: a pending resize is applied, and the loop starts over.
Boundary ==
  /\ rpc' = "top"
  /\ request' = NoSize
  /\ overdue' = 0

\* The pipe is empty.
ReaderDrained ==
  /\ rpc = "drain"
  /\ written = taken /\ ~closed
  /\ Boundary
  /\ UNCHANGED <<childVars, taken, unrendered, drained, pending, dirty, wake,
                 exitVars, permit, shutdown, ownerVars>>

\* Fault: the exit is reported without asking the latch.
TellExitTwice ==
  IF callback = "set"
  THEN told' = told + 1 /\ latch' = TRUE /\ permit' = TRUE
  ELSE UNCHANGED <<told, latch, permit>>

\* A registered callback hears Exited from whoever takes the latch first.
TellExit ==
  IF callback = "set" /\ ~latch
  THEN told' = told + 1 /\ latch' = TRUE /\ permit' = TRUE
  ELSE UNCHANGED <<told, latch, permit>>

\* End of file: the thread ends.
ReaderEof ==
  /\ rpc = "drain"
  /\ written = taken /\ closed
  /\ rpc' = "done"
  /\ TellExit
  /\ UNCHANGED <<childVars, taken, unrendered, drained, pending, dirty, wake,
                 sizeVars, callback, exited, shutdown, ownerVars>>

\* Fault: the pending bytes are cleared as soon as the cap is reached.
ReaderAppendEager ==
  /\ rpc = "append"
  /\ pending' = IF Len(pending) + 1 >= PendingCap THEN <<>> ELSE Append(pending, taken)
  /\ unrendered' = unrendered + 1
  /\ rpc' = "parse"
  /\ UNCHANGED <<childVars, taken, drained, dirty, wake, sizeVars, exitVars, permit,
                 shutdown, ownerVars>>

\* The chunk is appended to `pending`, which is cleared beyond its cap.  From
\* here on the lock is held.
ReaderAppend ==
  /\ rpc = "append"
  /\ pending' = IF Len(pending) + 1 > PendingCap THEN <<>> ELSE Append(pending, taken)
  /\ unrendered' = unrendered + 1
  /\ rpc' = "parse"
  /\ UNCHANGED <<childVars, taken, drained, dirty, wake, sizeVars, exitVars, permit,
                 shutdown, ownerVars>>

\* The tracker and the shared emulator process the chunk.
ReaderParse ==
  /\ rpc = "parse"
  /\ rpc' = "signal"
  /\ UNCHANGED <<childVars, taken, unrendered, drained, pending, dirty, wake,
                 sizeVars, exitVars, permit, shutdown, ownerVars>>

\* The edge-triggered wakeup.
ReaderSignal ==
  /\ rpc = "signal"
  /\ dirty' = TRUE
  /\ IF dirty THEN UNCHANGED <<unrendered, permit>>
     ELSE unrendered' = 0 /\ permit' = (permit \/ callback = "set")
  /\ rpc' = "check"
  /\ UNCHANGED <<childVars, taken, drained, pending, wake, sizeVars, exitVars,
                 shutdown, ownerVars>>

\* The burst budget is used up: wait on the condition variable while dirty.
ReaderPark ==
  /\ rpc = "check"
  /\ unrendered >= Budget /\ dirty
  /\ rpc' = "wait"
  /\ UNCHANGED <<childVars, taken, unrendered, drained, pending, dirty, wake,
                 sizeVars, exitVars, permit, shutdown, ownerVars>>

\* Fault: a continuous stream never reaches a drain boundary.
ReaderGoOnStarving ==
  /\ rpc = "check"
  /\ ~(unrendered >= Budget /\ dirty)
  /\ unrendered' = IF unrendered >= Budget THEN 0 ELSE unrendered
  /\ drained' = 0
  /\ rpc' = "drain"
  /\ UNCHANGED <<childVars, taken, pending, dirty, wake, sizeVars, exitVars, permit,
                 shutdown, ownerVars>>

\* Otherwise the lock is released; the starvation bound ends the drain.
ReaderGoOn ==
  /\ rpc = "check"
  /\ ~(unrendered >= Budget /\ dirty)
  /\ unrendered' = IF unrendered >= Budget THEN 0 ELSE unrendered
  /\ drained' = IF drained + 1 >= DrainBound THEN 0 ELSE drained + 1
  /\ IF drained + 1 >= DrainBound THEN Boundary
     ELSE rpc' = "drain" /\ UNCHANGED sizeVars
  /\ UNCHANGED <<childVars, taken, pending, dirty, wake, exitVars, permit, shutdown,
                 ownerVars>>

-----------------------------------------------------------------------------
(* The owner.                                                              *)

\* Where an operation goes on once screen() has returned.
AfterScreen(o) ==
  CASE o = "read" -> "take" [] o = "final" -> "join" [] OTHER -> "idle"

\* screen, read_output and drain_final_output begin alike: dirty is taken back.
OwnerScreen(o) ==
  /\ o \in Ops \cap {"screen", "read", "final"}
  /\ opc = "idle"
  /\ op' = o
  /\ opc' = IF dirty THEN "notify" ELSE AfterScreen(o)
  /\ dirty' = FALSE
  /\ permit' = FALSE
  /\ UNCHANGED <<childVars, threadVars, pending, wake, sizeVars, exitVars, shutdown,
                 delivered>>

\* Fault: the condition variable is not notified.
OwnerNotifyNobody ==
  /\ opc = "notify"
  /\ opc' = AfterScreen(op)
  /\ UNCHANGED <<childVars, threadVars, pending, dirty, wake, sizeVars, exitVars,
                 permit, shutdown, op, delivered>>

\* ... and, under the lock of the condition variable, the reader is woken.
OwnerNotify ==
  /\ opc = "notify"
  /\ opc' = AfterScreen(op)
  /\ rpc' = IF rpc = "wait" THEN "check" ELSE rpc
  /\ UNCHANGED <<childVars, taken, unrendered, drained, pending, dirty, wake,
                 sizeVars, exitVars, permit, shutdown, op, delivered>>

\* drain_final_output waits for the reader, but not beyond its grace.
OwnerWaited ==
  /\ opc = "join"
  /\ opc' = "take"
  /\ UNCHANGED <<childVars, threadVars, pending, dirty, wake, sizeVars, exitVars,
                 permit, shutdown, op, delivered>>

\* drain_pending.
OwnerTake ==
  /\ opc = "take"
  /\ ~Held
  /\ delivered' = delivered \o pending
  /\ pending' = <<>>
  /\ opc' = "idle"
  /\ UNCHANGED <<childVars, threadVars, dirty, wake, sizeVars, exitVars, permit,
                 shutdown, op>>

\* Fault: the exit is left to the reader's end of file.
OwnerSeesExitSilently ==
  /\ opc = "idle"
  /\ dead /\ ~exited
  /\ exited' = TRUE
  /\ UNCHANGED <<childVars, threadVars, pending, dirty, wake, sizeVars, callback,
                 latch, told, permit, shutdown, ownerVars>>

\* has_exited sees the exit for the first time.
OwnerSeesExit ==
  /\ opc = "idle"
  /\ dead /\ ~exited
  /\ exited' = TRUE
  /\ TellExit
  /\ UNCHANGED <<childVars, threadVars, pending, dirty, wake, sizeVars, callback,
                 shutdown, ownerVars>>

\* Fault: the owner does not look once by itself.
OwnerRegisterUnprimed ==
  /\ opc = "idle"
  /\ callback = "unset"
  /\ IF exited \/ dead
     THEN callback' = "fired" /\ exited' = TRUE /\ latch' = TRUE /\ told' = told + 1
     ELSE callback' = "set" /\ UNCHANGED <<exited, latch, told>>
  /\ UNCHANGED <<childVars, threadVars, pending, dirty, wake, sizeVars, permit,
                 shutdown, ownerVars>>

\* set_status_callback, once.  A child that is gone by now is reported on the
\* spot; whoever registers primes its Notify for output that was faster.
OwnerRegister ==
  /\ opc = "idle"
  /\ callback = "unset"
  /\ IF exited \/ dead
     THEN callback' = "fired" /\ exited' = TRUE /\ latch' = TRUE /\ told' = told + 1
     ELSE callback' = "set" /\ UNCHANGED <<exited, latch, told>>
  /\ permit' = TRUE
  /\ UNCHANGED <<childVars, threadVars, pending, dirty, wake, sizeVars, shutdown,
                 ownerVars>>

\* resize: the request is left for the reader, which is woken.
OwnerResize(s) ==
  /\ opc = "idle"
  /\ request # s
  /\ request' = s
  /\ overdue' = IF request = NoSize THEN 0 ELSE overdue
  /\ wake' = TRUE
  /\ UNCHANGED <<childVars, threadVars, pending, dirty, exitVars, permit, shutdown,
                 ownerVars>>

\* into_parts, and Drop: the reader is told to end, and woken.
OwnerLetsGo ==
  /\ "close" \in Ops
  /\ opc = "idle"
  /\ opc' = "gone"
  /\ shutdown' = TRUE
  /\ wake' = TRUE
  /\ UNCHANGED <<childVars, threadVars, pending, dirty, sizeVars, exitVars, permit,
                 op, delivered>>

-----------------------------------------------------------------------------

Child  == Write \/ Die \/ Close
Reader == \/ ReaderTop \/ ReaderPoll \/ ReaderRead \/ ReaderDrained \/ ReaderEof
          \/ ReaderAppend \/ ReaderParse \/ ReaderSignal \/ ReaderPark \/ ReaderGoOn
OwnerRenders == \E o \in Ops : OwnerScreen(o)
OwnerGoesOn  == OwnerNotify \/ OwnerWaited \/ OwnerTake
Owner  == \/ OwnerRenders \/ OwnerGoesOn \/ OwnerSeesExit \/ OwnerRegister
          \/ (\E s \in Sizes : OwnerResize(s)) \/ OwnerLetsGo

Next == Child \/ Reader \/ Owner

Spec == Init /\ [][Next]_vars

\* Both are threads.  The owner renders, and asks for the exit, every frame or
\* every poll interval; nothing is assumed of the child.
FairSpec ==
  /\ Spec
  /\ WF_vars(Reader) /\ WF_vars(OwnerGoesOn)
  /\ WF_vars(OwnerRenders) /\ WF_vars(OwnerSeesExit)

-----------------------------------------------------------------------------
(* What the engine promises.                                               *)

ReaderStates == {"top", "poll", "drain", "append", "parse", "signal", "check",
                 "wait", "done"}

\* Every variable has its type and no counter outgrows its bound.
ReaderTypeOK ==
  /\ written \in 0..MaxChunks /\ taken \in 0..written /\ written - taken <= PipeCap
  /\ closed \in BOOLEAN /\ dead \in BOOLEAN /\ dirty \in BOOLEAN /\ wake \in BOOLEAN
  /\ latch \in BOOLEAN /\ exited \in BOOLEAN /\ permit \in BOOLEAN
  /\ shutdown \in BOOLEAN
  /\ rpc \in ReaderStates
  /\ unrendered \in Nat /\ drained \in 0..(DrainBound - 1) /\ overdue \in Nat
  /\ pending \in Seq(1..MaxChunks) /\ Len(pending) <= PendingCap
  /\ delivered \in Seq(1..MaxChunks)
  /\ request \in Sizes \cup {NoSize}
  /\ callback \in {"unset", "set", "fired"} /\ told \in Nat
  /\ opc \in {"idle", "notify", "join", "take", "gone"}
  /\ op \in {"screen", "read", "final"}

\* The chunks the reader has appended so far.
Appended == IF rpc = "append" THEN taken - 1 ELSE taken

\* Between two chunks the owner gets one after the other nothing is missing, or
\* a burst longer than `pending` may hold; nothing comes twice or out of order.
\* (the lock of `pending` against its cap: pty.rs, parser_read_loop)
LossIsWholeBurst ==
  LET all == <<0>> \o delivered \o pending \o <<Appended + 1>> IN
  \A i \in 1..(Len(all) - 1) :
    all[i + 1] = all[i] + 1 \/ all[i + 1] > all[i] + PendingCap + 1

\* The callback hears of the exit at most once, though the reader, has_exited
\* and the registration race to tell it.
\* ("Use an atomic latch so the callback fires at most once")
ExitedOnce == told <= 1

\* A dirty screen has a wakeup coming, although only the first chunk after a
\* render sends one, and output may be faster than the registration.
\* ("only notify on false->true transition")
NoLostWakeup ==
  dirty /\ callback = "set" => permit

\* A stream without a pause delays a resize by no more than the drain bound.
\* ("a continuous stream ... still applies the pending resize")
ResizeNotStarved == overdue <= DrainBound

\* A burst that was parked goes on once it has been rendered, unless the owner
\* who would render it has let go.
\* (pty.rs, IO_BURST_BUDGET: "wait on the Condvar until the UI thread clears dirty")
BurstsGoOn == rpc = "wait" ~> rpc # "wait" \/ shutdown

\* A requested resize is applied, unless the output has ended or the owner has
\* let go.
\* ("applies it ... at the next pipe-drain boundary")
ResizesApplied == request # NoSize ~> request = NoSize \/ rpc = "done" \/ shutdown

\* A callback that is registered hears of the child's exit in the end, also if
\* the PTY never reports end of file, while its owner is there to look.
\* ("we manually synthesize the exit callback here")
ExitHeard == dead /\ callback # "unset" ~> told = 1 \/ shutdown

\* The reader ends once the owner has let go, or is parked on a burst nobody
\* will render: no other wait outlives the owner.
\* ("so a later join on the returned handle does not hang")
ReaderLetsGo == shutdown ~> rpc \in {"done", "wait"}

-----------------------------------------------------------------------------
(* What the documentation says and the code does not do.                   *)

\* drain_pending returns.
\* ("Read pending bytes from the PTY reader thread (non-blocking)")
DrainReturns == opc = "take" ~> opc # "take"

\* The reader ends once its owner has let go.
\* ("so a later join on the returned handle does not hang")
ReaderEnds == shutdown ~> rpc = "done"
=============================================================================
