------------------------------ MODULE Geometry ------------------------------
(***************************************************************************)
(* Who decides how large a session is: the connected viewers of a channel, *)
(* whose sizes the gateway keeps (crates/term-session-server/src/          *)
(* session_server.rs), the PTY, which the gateway resizes to the smallest, *)
(* and the emulators of the viewers (crates/term-session-client/src/       *)
(* lib.rs, remote_pane.rs), which the gateway notifies.                    *)
(*                                                                         *)
(* A handler is three steps, for it drops the lock of the channel between  *)
(* them: a section that changes the clients and recalculates the size, one *)
(* that sends the notifications, and the reply.  A notification is a task  *)
(* of the gateway and a handler of the viewer's runtime.  A viewer hangs   *)
(* up or is killed between two calls of its own (Gateway has the others),  *)
(* and its main loop is what touches its emulator's size.                  *)
(***************************************************************************)
EXTENDS Naturals, FiniteSets, Sequences, SequencesExt, FiniteSetsExt

CONSTANTS
  Viewers,     \* connections; each joins the channel once
  Relaxed,     \* those on whose machines relaxed stores may be seen in another order
  Sizes,       \* what terminals may be resized to: <<cols, rows>>
  MaxChanges   \* bound on joins, resizes, departures and exits

Unset == <<0, 0>>   \* a size nobody has set

ASSUME GeometryAssumption ==
  /\ Sizes \subseteq (Nat \ {0}) \X (Nat \ {0})
  /\ Relaxed \subseteq Viewers /\ MaxChanges \in Nat

VARIABLES
  spent,    \* what MaxChanges bounds
  clients,  \* ChannelState::clients
  entry,    \* the size a client has reported
  size,     \* session.cols, session.rows; Unset if there is no session
  pty,      \* size of the PTY, as its reader has set it
  pending,  \* Pty::pending_resize
  call,     \* the handler at work for a connection
  notes,    \* OnPtyResized calls under way to a viewer, each with its progress
  main,     \* where a viewer's main thread is
  regs,     \* server_cols, server_rows
  flag,     \* resize_pending
  screen,   \* size of the emulator a viewer renders
  teller,   \* for the properties: the handler that has last taken down to tell a
            \* viewer, as long as it has yet to do so
  overtaken \* for the properties: viewers for whom something new goes before something
            \* old, of all that has been taken down to tell them

gatewayVars == <<clients, entry, size, pty, pending>>
viewerVars  == <<main, regs, flag, screen>>
orderVars   == <<teller, overtaken>>
vars == <<spent, gatewayVars, call, notes, viewerVars, orderVars>>

Idle == [at |-> "idle", does |-> "nothing", size |-> Unset, to |-> {}]

Least(sizes)     == <<Min({s[1] : s \in sizes}), Min({s[2] : s \in sizes})>>
Live             == size # Unset
Reported         == {entry[v] : v \in clients}
Smallest         == Least(Reported)

\* run_session reports at least 2 x 2.
Clamped(s) == <<Max({2, s[1]}), Max({2, s[2]})>>

\* Some viewers are there, and all is settled.
Init ==
  /\ spent = 0
  /\ clients \in SUBSET Viewers
  /\ entry \in {e \in [Viewers -> {Clamped(s) : s \in Sizes} \cup {Unset}] :
                  clients = {v \in Viewers : e[v] # Unset}}
  /\ size \in IF clients # {} THEN {Smallest} ELSE {Unset} \cup {Clamped(s) : s \in Sizes}
  /\ pty = size /\ pending = Unset
  /\ call = [v \in Viewers |-> Idle] /\ notes = [v \in Viewers |-> <<>>]
  /\ main = [v \in Viewers |-> IF v \in clients THEN "loop" ELSE "out"]
  /\ regs = [v \in Viewers |-> IF v \in clients THEN size ELSE Unset]
  /\ screen = regs
  /\ flag = [v \in Viewers |-> FALSE]
  /\ teller = [v \in Viewers |-> {}] /\ overtaken = {}

Change == spent < MaxChanges /\ spent' = spent + 1

\* The request a connection makes of the gateway.
Calls(v, what, s) ==
  call' = [call EXCEPT ![v] = [at |-> "section", does |-> what, size |-> s, to |-> {}]]

-----------------------------------------------------------------------------
(* The gateway.                                                            *)

\* Pty::resize ignores what is too small for its emulator.
TooSmall(s) == s[1] < 2 \/ s[2] < 2

\* Fault: a resize that is still pending is not replaced.
RecalculateOnce ==
  IF clients' = {} \/ ~Live
  THEN UNCHANGED <<size, pending>>
  ELSE /\ size' = Smallest'
       /\ pending' = IF TooSmall(size') \/ pending # Unset THEN pending ELSE size'

\* recalculate_pty_size, once clients and entry are as they shall be.
Recalculate ==
  IF clients' = {} \/ ~Live
  THEN UNCHANGED <<size, pending>>
  ELSE /\ size' = Smallest'
       /\ pending' = IF TooSmall(size') THEN pending ELSE size'

\* A first section takes the lock of the channel; its end is where the size and
\* the clients to notify are copied.
Section(v, what) == call[v].at = "section" /\ call[v].does = what

Tell(v, s) ==
  /\ call' = [call EXCEPT ![v] = [at |-> "notify", does |-> @.does, size |-> s, to |-> clients']]
  /\ teller' = [u \in Viewers |-> IF u \in clients' THEN {v} ELSE teller[u]]
  /\ overtaken' = overtaken \ clients'

\* Who left a channel without a session tells nobody.
TellOthers(v) ==
  IF Live THEN Tell(v, size') ELSE call' = [call EXCEPT ![v] = Idle] /\ UNCHANGED orderVars

\* Fault: who joins a session leaves its size alone.
SpawnSectionUnfit(v) ==
  /\ Section(v, "spawn")
  /\ clients' = clients \cup {v} /\ entry' = [entry EXCEPT ![v] = call[v].size]
  /\ IF Live THEN UNCHANGED <<size, pending, pty>>
     ELSE pty' = call[v].size /\ size' = Smallest' /\ pending' = Unset
  /\ Tell(v, size')
  /\ UNCHANGED <<spent, notes, viewerVars>>

\* Spawn joins the session, or starts one of the size of this viewer's terminal.
SpawnSection(v) ==
  /\ Section(v, "spawn")
  /\ clients' = clients \cup {v} /\ entry' = [entry EXCEPT ![v] = call[v].size]
  /\ pty' = IF Live THEN pty ELSE call[v].size
  /\ IF Live THEN Recalculate
     ELSE size' = Smallest' /\ pending' = IF TooSmall(size') THEN Unset ELSE size'
  /\ Tell(v, size')
  /\ UNCHANGED <<spent, notes, viewerVars>>

\* ResizePty: of a connection that is no client any more it changes nothing.
\* Without a session all are told, and believe, what this one asked for.
ResizeSection(v) ==
  /\ Section(v, "resize")
  /\ entry' = IF v \in clients THEN [entry EXCEPT ![v] = call[v].size] ELSE entry
  /\ UNCHANGED <<spent, clients, pty, notes, viewerVars>>
  /\ Recalculate
  /\ Tell(v, IF Live THEN size' ELSE call[v].size)

\* evict_conn removes the client in one section and recalculates in the next.
EvictRemove(v) ==
  /\ call[v].at = "section" /\ call[v].does = "evict"
  /\ clients' = clients \ {v}
  /\ call' = [call EXCEPT ![v].at = "recalculate"]
  /\ UNCHANGED <<spent, entry, size, pty, pending, notes, viewerVars, orderVars>>

EvictRecalculate(v) ==
  /\ call[v].at = "recalculate"
  /\ UNCHANGED <<spent, clients, entry, pty, notes, viewerVars>>
  /\ Recalculate
  /\ TellOthers(v)

\* KillClient: both in one section.
KillSection(v) ==
  /\ Section(v, "kill")
  /\ clients' = clients \ {v}
  /\ UNCHANGED <<spent, entry, pty, notes, viewerVars>>
  /\ Recalculate
  /\ TellOthers(v)

\* notify_clients: a task for each client, if it is still connected.
Notify(v) ==
  /\ call[v].at = "notify"
  /\ notes' = [u \in Viewers |->
                 IF u \in call[v].to /\ main[u] # "left"
                 THEN Append(notes[u], [size |-> call[v].size, step |-> "sent"])
                 ELSE notes[u]]
  /\ call' = [call EXCEPT ![v] = IF @.does \in {"spawn", "resize"}
                                THEN [@ EXCEPT !.at = "reply"] ELSE Idle]
  /\ teller' = [u \in Viewers |-> teller[u] \ {v}]
  /\ overtaken' = overtaken \cup
       {u \in Viewers : /\ v \in teller[u]
                       /\ \E w \in Viewers \ {v} : call[w].at = "notify" /\ u \in call[w].to}
  /\ UNCHANGED <<spent, gatewayVars, viewerVars>>

\* The reader thread sets the size at its next drain boundary.
Apply ==
  /\ pending # Unset
  /\ pty' = pending /\ pending' = Unset
  /\ UNCHANGED <<spent, clients, entry, size, call, notes, viewerVars, orderVars>>

\* The polling task finds that the session has exited, and drops it.
Exit ==
  /\ Live /\ Change
  /\ size' = Unset /\ pty' = Unset /\ pending' = Unset
  /\ UNCHANGED <<clients, entry, call, notes, viewerVars, orderVars>>

-----------------------------------------------------------------------------
(* The viewer.                                                             *)

\* run_session: the size of the terminal, at least 2 x 2, goes with the Spawn.
Join(v) ==
  /\ main[v] = "out" /\ Change
  /\ \E s \in Sizes : /\ Calls(v, "spawn", Clamped(s))
                     /\ screen' = [screen EXCEPT ![v] = Clamped(s)]
  /\ main' = [main EXCEPT ![v] = "joining"]
  /\ UNCHANGED <<gatewayVars, notes, regs, flag, orderVars>>

\* Fault: a reply is taken for newer than what has been notified.
RepliedClears(v) ==
  /\ call[v].at = "reply"
  /\ screen' = [screen EXCEPT ![v] = call[v].size]
  /\ main' = [main EXCEPT ![v] = "loop"]
  /\ call' = [call EXCEPT ![v] = Idle]
  /\ flag' = [flag EXCEPT ![v] = FALSE]
  /\ UNCHANGED <<spent, gatewayVars, notes, regs, orderVars>>

\* The reply of Spawn and of ResizePty sets the size, whatever has been notified
\* in the meantime.
Replied(v) ==
  /\ call[v].at = "reply"
  /\ screen' = [screen EXCEPT ![v] = call[v].size]
  /\ main' = [main EXCEPT ![v] = "loop"]
  /\ call' = [call EXCEPT ![v] = Idle]
  /\ UNCHANGED <<spent, gatewayVars, notes, regs, flag, orderVars>>

\* Event::Resize: RemotePane::resize blocks the main thread until the reply.
TerminalResized(v) ==
  /\ main[v] = "loop" /\ call[v].at = "idle" /\ Change
  /\ \E s \in Sizes : Calls(v, "resize", s)
  /\ main' = [main EXCEPT ![v] = "asking"]
  /\ UNCHANGED <<gatewayVars, notes, regs, flag, screen, orderVars>>

\* The handler of OnPtyResized, a task of its own for each notification: two
\* registers, and then the flag, which goes with the second: who looks in between
\* has seen all, and will see it again.  But the stores are relaxed, so that the
\* flag may be seen before the registers.
Store(v, i) ==
  LET n == notes[v][i]
      Done == notes' = [notes EXCEPT ![v] = RemoveAt(@, i)]
      Goes(step) == notes' = [notes EXCEPT ![v][i].step = step]
  IN  /\ \/ /\ n.step = "sent" /\ Goes("half")
            /\ regs' = [regs EXCEPT ![v][1] = n.size[1]]
            /\ UNCHANGED flag
         \/ /\ n.step = "half" /\ Done
            /\ regs' = [regs EXCEPT ![v][2] = n.size[2]]
            /\ flag' = [flag EXCEPT ![v] = TRUE]
         \/ /\ v \in Relaxed /\ n.step = "sent" /\ Goes("seen")
            /\ flag' = [flag EXCEPT ![v] = TRUE]
            /\ UNCHANGED regs
         \/ /\ n.step = "seen" /\ Done
            /\ regs' = [regs EXCEPT ![v] = n.size]
            /\ UNCHANGED flag
      /\ overtaken' = overtaken \cup (IF i = 1 THEN {} ELSE {v})
      /\ UNCHANGED <<spent, gatewayVars, call, main, screen, teller>>

\* apply_pending_resize: the flag is swapped before the registers are read.
ApplySwap(v) ==
  /\ main[v] = "loop" /\ flag[v]
  /\ flag' = [flag EXCEPT ![v] = FALSE]
  /\ main' = [main EXCEPT ![v] = "reading"]
  /\ UNCHANGED <<spent, gatewayVars, call, notes, regs, screen, orderVars>>

\* The flag is gone, and what it was raised for has not been seen.
TooEarly(v) == ~flag[v] /\ notes[v] # <<>> /\ Last(notes[v]).step = "seen"

ApplyRead(v) ==
  /\ main[v] = "reading"
  /\ screen' = [screen EXCEPT ![v] = IF 0 \in {regs[v][1], regs[v][2]} THEN @ ELSE regs[v]]
  /\ main' = [main EXCEPT ![v] = "loop"]
  /\ overtaken' = overtaken \cup (IF TooEarly(v) THEN {v} ELSE {})
  /\ UNCHANGED <<spent, gatewayVars, call, notes, regs, flag, teller>>

\* The viewer goes, or is made to go; what is under way to it is lost.
Leave(v) ==
  /\ main[v] = "loop" /\ call[v].at = "idle" /\ Change
  /\ \E what \in {"evict", "kill"} : Calls(v, what, Unset)
  /\ main' = [main EXCEPT ![v] = "left"]
  /\ notes' = [notes EXCEPT ![v] = <<>>]
  /\ regs' = [regs EXCEPT ![v] = Unset] /\ flag' = [flag EXCEPT ![v] = FALSE]
  /\ screen' = [screen EXCEPT ![v] = Unset]
  /\ UNCHANGED <<gatewayVars, orderVars>>

-----------------------------------------------------------------------------
Handler(v) ==
  \/ SpawnSection(v) \/ ResizeSection(v) \/ EvictRemove(v) \/ EvictRecalculate(v)
  \/ KillSection(v) \/ Notify(v)

MainThread(v) == Replied(v) \/ ApplySwap(v) \/ ApplyRead(v)
Delivery(v)   == \E i \in DOMAIN notes[v] : Store(v, i)

Next ==
  \/ \E v \in Viewers :
       \/ Handler(v) \/ MainThread(v) \/ Delivery(v)
       \/ Join(v) \/ TerminalResized(v) \/ Leave(v)
  \/ Apply \/ Exit

\* Handlers, notifications and the reader are tasks and threads that run; the
\* viewer's loop wakes up every 100 ms.  Nobody has to come, resize, go or exit.
Fairness ==
  /\ WF_vars(Apply)
  /\ \A v \in Viewers : WF_vars(Handler(v)) /\ WF_vars(MainThread(v)) /\ WF_vars(Delivery(v))

Spec == Init /\ [][Next]_vars /\ Fairness

-----------------------------------------------------------------------------
Sides    == 0..Max(UNION {{2, s[1], s[2]} : s \in Sizes})
Geometries == Sides \X Sides

GeometryTypeOK ==
  /\ spent \in 0..MaxChanges
  /\ clients \subseteq Viewers /\ entry \in [Viewers -> Geometries]
  /\ {size, pty, pending} \subseteq Geometries
  /\ call \in [Viewers -> [at : {"idle", "section", "recalculate", "notify", "reply"},
                           does : {"nothing", "spawn", "resize", "evict", "kill"},
                           size : Geometries, to : SUBSET Viewers]]
  /\ \A v \in Viewers : \A i \in DOMAIN notes[v] :
       notes[v][i] \in [size : Geometries, step : {"sent", "half", "seen"}]
  /\ main \in [Viewers -> {"out", "joining", "loop", "asking", "reading", "left"}]
  /\ regs \in [Viewers -> Geometries] /\ screen \in [Viewers -> Geometries]
  /\ flag \in [Viewers -> BOOLEAN]
  /\ teller \in [Viewers -> SUBSET Viewers] /\ overtaken \subseteq Viewers

\* However they come, go and resize, the session is never larger than the
\* terminal of any of its viewers. (recalculate_pty_size)
FitsEveryone ==
  Live => \A v \in clients : size[1] <= entry[v][1] /\ size[2] <= entry[v][2]

\* When somebody comes, goes or resizes, the session ends up as large as its
\* viewers let it be, and its PTY with it, unless that is too small for one.
\* (recalculate_pty_size, Pty::resize and the drain boundary)
Settled == size = Smallest /\ (TooSmall(size) \/ pty = size)
PtyFollows ==
  (Live /\ clients # {} /\ ~Settled) ~> (~Live \/ clients = {} \/ Settled)

\* No resize is lost on its way to the PTY.  If the session is not as large as
\* its viewers let it be, a handler is at work that will recalculate; if its
\* PTY is not, and may be, the reader has been asked for that very size.
\* (recalculate_pty_size after the clients have changed, Pty::pending_resize)
ResizeOwed ==
  Live =>
    /\ clients = {} \/ size = Smallest \/ \E v \in Viewers : call[v].at = "recalculate"
    /\ TooSmall(size) \/ pending = size \/ (pending = Unset /\ pty = size)

\* All viewers end up rendering with the size the session has, whichever of
\* reply and notification comes last; but for those to whom the last of what
\* was under way has come before something older, or its flag before itself.
\* (OnPtyResized, apply_pending_resize, RemotePane::resize)
Agrees(v) == v \in clients /\ Live => main[v] \in {"out", "left"} \/ screen[v] = size
AllAgree == \A v \in Viewers : Agrees(v)
ScreensFollow == ~AllAgree ~> \A v \in Viewers : Agrees(v) \/ v \in overtaken

\* What was sent to a viewer last, what its handler has stored and its main loop
\* has yet to look at, or what it renders with already.
Latest(v) == IF notes[v] # <<>> THEN Last(notes[v]).size
             ELSE IF flag[v] \/ main[v] = "reading" THEN regs[v] ELSE screen[v]

\* The size it will render with once all that is under way to it has arrived.
Coming(v) ==
  IF teller[v] = {} THEN {Latest(v)} ELSE {call[u].size : u \in teller[v]}

\* Only who is overtaken is left behind.  However handlers, replies, notifications
\* and the main loop interleave, the last thing under way to any other viewer is
\* the size the session has.  And who has been overtaken is told anew as soon as
\* anybody comes, goes or resizes. (notify_clients, OnPtyResized,
\* apply_pending_resize, RemotePane::resize)
NobodyLeftBehind ==
  Live => \A v \in clients \ overtaken : main[v] # "left" => Coming(v) = {size}

\* Not kept by the code.
\* The same without the exception: handlers that overtake each other between their
\* sections, notifications that do on their way, and relaxed stores leave a viewer
\* with a size nobody has any more.
ScreensAlwaysFollow == ~AllAgree ~> AllAgree

\* "This guarantees the virtual buffer never exceeds any attached monitor": not
\* that of a viewer with a single column or row.
BufferFits ==
  (Live /\ clients # {} /\ pty # Smallest) ~> (~Live \/ clients = {} \/ pty = Smallest)
=============================================================================
