------------------------------ MODULE Gateway ------------------------------
(***************************************************************************)
(* The session gateway daemon: crates/term-session-server/src/             *)
(* session_server.rs.                                                      *)
(*                                                                         *)
(* One process hosts many channels.  A viewer connection attaches to a     *)
(* channel and spawns (or joins) its session; admin connections kill       *)
(* channels, kill clients and stop the gateway; one polling task per       *)
(* channel notices the end of the session and reaps the idle channel; one  *)
(* event loop prunes disconnected connections.  Every handler is an async  *)
(* task on a multi-threaded runtime: between two of its lock sections any  *)
(* other task may run.  Here one action is one lock section, so all of     *)
(* those interleavings are explored.                                       *)
(*                                                                         *)
(* This module keeps the state that decides which channels, sessions and   *)
(* clients exist.  The same handlers' effect on input routing is in        *)
(* GatewayInput, on output streams in GatewayOutput.                       *)
(***************************************************************************)
EXTENDS Naturals, FiniteSets

CONSTANTS
  Viewers,      \* connections of session viewers (run_session)
  Admins,       \* connections of one-shot CLI commands (with_gateway)
  Names,        \* channel names
  Ops,          \* the optional commands the clients of an instance issue
  MaxChannels,  \* bound on the ChannelState instances ever created
  MaxSessions,  \* bound on the PTY sessions ever spawned
  MidCallDrop,  \* may a viewer's socket drop while its own call is in flight?
  Absent,       \* no entry in the connection table
  Unattached    \* ConnState::Unattached

ASSUME GatewayAssumption ==
  /\ MaxChannels \in Nat
  /\ MaxSessions \in Nat
  /\ MidCallDrop \in BOOLEAN
  /\ Ops \subseteq {"close", "kill", "killforce", "killclient", "stop", "stopforce"}
  /\ Viewers \cap Admins = {}
  /\ Absent \notin Names /\ Unattached \notin Names /\ Absent # Unattached

Conns      == Viewers \cup Admins
ChannelIds == 1..MaxChannels    \* one id per Arc<Mutex<ChannelState>>
SessionIds == 1..MaxSessions
None       == 0                 \* Option::None for a channel or a session

VARIABLES
  stage,        \* how far each connection's own protocol has come
  call,         \* each connection's call in flight: next lock section, locals
  conns,        \* ServerState::conns, the routing table
  connQ, discQ, \* ClientConnected / ClientDisconnected events not yet handled
  ev,           \* the connection event loop: evict_conn in progress
  evicted,      \* history: connections removed from the routing table
  chanMap,      \* ServerState::channels: name -> current instance
  created,      \* ServerState::next_channel_seq: instances created so far
  chName,       \* the name an instance was created for
  reaped,       \* ChannelState::is_reaped
  session,      \* ChannelState::session
  clients,      \* ChannelState::clients
  killPending,  \* ChannelState::kill_pending
  poll,         \* each instance's output polling task
  esc,          \* kill escalation tasks sleeping through SIGKILL_GRACE
  spawned,      \* PTY sessions spawned so far
  procs,        \* the child process of each session, and the signals sent for it
  shutting,     \* ServerState::is_shutting_down
  up            \* the gateway process itself

connVars == <<stage, conns, connQ, discQ, ev, evicted>>
mapVars  == <<chanMap, created, chName, reaped>>
sessVars == <<session, clients, killPending, spawned, procs>>
taskVars == <<poll, esc>>
gateVars == <<shutting, up>>
vars == <<call, connVars, mapVars, sessVars, taskVars, gateVars>>

IdleEvent == [pc |-> "idle", conn |-> None, name |-> Absent, ch |-> None]

IdleCall == [pc |-> "idle", op |-> "none", name |-> Absent, ch |-> None,
             targets |-> {}, todo |-> {}, force |-> FALSE]

Init ==
  /\ stage = [c \in Conns |-> "new"]
  /\ call = [c \in Conns |-> IdleCall]
  /\ conns = [c \in Viewers |-> Absent]
  /\ connQ = {} /\ discQ = {} /\ evicted = {}
  /\ ev = IdleEvent
  /\ chanMap = [n \in Names |-> None]
  /\ created = 0
  /\ chName = [x \in ChannelIds |-> Absent]
  /\ reaped = [x \in ChannelIds |-> FALSE]
  /\ session = [x \in ChannelIds |-> None]
  /\ clients = [x \in ChannelIds |-> {}]
  /\ killPending = [x \in ChannelIds |-> FALSE]
  /\ poll = [x \in ChannelIds |-> "none"]
  /\ esc = {}
  /\ spawned = 0
  /\ procs = [s \in SessionIds |-> "unborn"]
  /\ shutting = FALSE
  /\ up = TRUE

-----------------------------------------------------------------------------
(* Connections: accepted by the transport, dropped by their peer.          *)

\* The transport accepts a socket and queues ClientConnected.
Connect(c) ==
  /\ stage[c] = "new"
  /\ stage' = [stage EXCEPT ![c] = "open"]
  /\ connQ' = IF c \in Viewers THEN connQ \cup {c} ELSE connQ
  /\ UNCHANGED <<call, conns, discQ, ev, evicted, mapVars, sessVars, taskVars,
                 gateVars>>

\* A viewer's socket closes and ClientDisconnected is queued.  Nothing in
\* the gateway cancels a call of that connection that is still running.
Drop(c) ==
  /\ stage[c] \in {"open", "attached", "joined"}
  /\ call[c].pc = "idle" \/ MidCallDrop
  /\ stage' = [stage EXCEPT ![c] = "closed"]
  /\ discQ' = discQ \cup {c}
  /\ UNCHANGED <<call, conns, connQ, ev, evicted, mapVars, sessVars, taskVars,
                 gateVars>>

-----------------------------------------------------------------------------
(* get_or_create_channel: the double-checked lookup Attach and Spawn share.*)

\* The next lock section of a call; the same with the instance it has found;
\* the end of the call, its locals gone.
Goto(c, l)       == call' = [call EXCEPT ![c].pc = l]
GotoWith(c, l, x) == call' = [call EXCEPT ![c].pc = l, ![c].ch = x]
Return(c)        == call' = [call EXCEPT ![c] = IdleCall]

\* Where the call goes on once it holds a channel instance.
AfterLookup(c) == IF call[c].op = "attach" THEN "bind" ELSE "session"

\* channels.write() cannot be taken while a stop scans under channels.read().
ChannelsWritable == \A a \in Admins : call[a].pc # "stop_scan"

\* What the channel table says about the call's name.
Resolved(c) == chanMap[call[c].name]

\* A table entry that a lookup may return.
Usable(x) == x # None /\ ~reaped[x]

\* First look, under channels.read().
Lookup(c) ==
  /\ call[c].pc = "lookup"
  /\ GotoWith(c, IF Resolved(c) = None THEN "create" ELSE "check", Resolved(c))
  /\ UNCHANGED <<connVars, mapVars, sessVars, taskVars, gateVars>>

\* The read guard is gone: lock the instance and see whether it was reaped.
Check(c) ==
  /\ call[c].pc = "check"
  /\ Goto(c, IF reaped[call[c].ch] THEN "create" ELSE AfterLookup(c))
  /\ UNCHANGED <<connVars, mapVars, sessVars, taskVars, gateVars>>

\* A fresh instance of the call's name, its polling task started.
NewChannel(c) ==
  /\ created < MaxChannels
  /\ created' = created + 1
  /\ GotoWith(c, AfterLookup(c), created')
  /\ chanMap' = [chanMap EXCEPT ![call[c].name] = created']
  /\ chName' = [chName EXCEPT ![created'] = call[c].name]
  /\ poll' = [poll EXCEPT ![created'] = "wait"]
  /\ UNCHANGED reaped

\* Fault: insert without looking again under channels.write().
CreateBlind(c) ==
  /\ call[c].pc = "create"
  /\ ChannelsWritable
  /\ NewChannel(c)
  /\ UNCHANGED <<connVars, sessVars, esc, gateVars>>

\* Second look, under channels.write(): take a racing insert that is not
\* reaped, otherwise insert a fresh instance.
Create(c) ==
  /\ call[c].pc = "create"
  /\ ChannelsWritable
  /\ \/ /\ Usable(Resolved(c))
        /\ GotoWith(c, AfterLookup(c), Resolved(c))
        /\ UNCHANGED <<mapVars, poll>>
     \/ /\ ~Usable(Resolved(c))
        /\ NewChannel(c)
  /\ UNCHANGED <<connVars, sessVars, esc, gateVars>>

-----------------------------------------------------------------------------
(* The viewer's calls: Attach, then Spawn, then perhaps CloseSession.      *)

\* A call that the seal does not reject; it reads is_shutting_down once.
Accepted(c) == call[c].pc = "idle" /\ ~shutting

\* Attach.
AttachCall(c, n) ==
  /\ stage[c] = "open"
  /\ Accepted(c)
  /\ call' = [call EXCEPT ![c] =
                [IdleCall EXCEPT !.pc = "lookup", !.op = "attach", !.name = n]]
  /\ UNCHANGED <<connVars, mapVars, sessVars, taskVars, gateVars>>

\* Attach, last section: the connection is bound to the name, whatever has
\* become of the instance in between; an absent entry is inserted.
Bind(c) ==
  /\ call[c].pc = "bind"
  /\ conns' = [conns EXCEPT ![c] = call[c].name]
  /\ stage' = [stage EXCEPT ![c] = IF @ = "closed" THEN @ ELSE "attached"]
  /\ Return(c)
  /\ UNCHANGED <<connQ, discQ, ev, evicted, mapVars, sessVars, taskVars,
                 gateVars>>

\* Spawn: bound_channel.
SpawnCall(c) ==
  /\ stage[c] = "attached"
  /\ Accepted(c)
  /\ conns[c] \in Names
  /\ call' = [call EXCEPT ![c] =
          [IdleCall EXCEPT !.pc = "lookup", !.op = "spawn", !.name = conns[c]]]
  /\ UNCHANGED <<connVars, mapVars, sessVars, taskVars, gateVars>>

\* The client entry goes in first; then a session that is there is joined,
\* otherwise Session::spawn starts one (kill_pending is not reset).
Joined(c, x) ==
  /\ clients' = [clients EXCEPT ![x] = @ \cup {c}]
  /\ \/ /\ session[x] # None
        /\ UNCHANGED <<session, spawned, procs>>
     \/ /\ session[x] = None
        /\ spawned < MaxSessions
        /\ spawned' = spawned + 1
        /\ session' = [session EXCEPT ![x] = spawned']
        /\ procs' = [procs EXCEPT ![spawned'] = "running"]

\* Spawn, last section.  The instance is not asked again whether it was
\* reaped.  When Session::spawn fails the client entry stays behind.
SpawnSession(c) ==
  /\ call[c].pc = "session"
  /\ \/ /\ Joined(c, call[c].ch)
        /\ stage' = [stage EXCEPT ![c] = IF @ = "closed" THEN @ ELSE "joined"]
     \/ /\ session[call[c].ch] = None
        /\ clients' = [clients EXCEPT ![call[c].ch] = @ \cup {c}]
        /\ UNCHANGED <<stage, session, spawned, procs>>
  /\ Return(c)
  /\ UNCHANGED <<conns, connQ, discQ, ev, evicted, mapVars, killPending,
                 taskVars, gateVars>>

\* The child runs; was sent SIGTERM and no SIGKILL since; or is alive though
\* its escalation is over.
Alive == {"running", "terminating", "outlived"}
Dead  == {"exited", "killed"}

\* request_session_kill: SIGTERM to whoever has the terminal of the session, if
\* there is one, and arm the escalation either way.
RequestKill(x) ==
  /\ killPending' = [killPending EXCEPT ![x] = TRUE]
  /\ procs' = IF session[x] # None /\ procs[session[x]] \in Alive
              THEN [procs EXCEPT ![session[x]] = "terminating"]
              ELSE procs

\* spawn_kill_escalation: a task that sleeps through the grace.
SpawnEscalation(c, n) == esc' = esc \cup {[by |-> c, name |-> n, ch |-> None]}

\* CloseSession: bound_channel; then resolve_channel; then the kill.
CloseCall(c) ==
  /\ "close" \in Ops
  /\ stage[c] = "joined"
  /\ Accepted(c)
  /\ conns[c] \in Names
  /\ call' = [call EXCEPT ![c] =
                [IdleCall EXCEPT !.pc = "close_lookup", !.name = conns[c]]]
  /\ UNCHANGED <<connVars, mapVars, sessVars, taskVars, gateVars>>

CloseLookup(c) ==
  /\ call[c].pc = "close_lookup"
  /\ IF Resolved(c) = None THEN Return(c)
                           ELSE GotoWith(c, "close_kill", Resolved(c))
  /\ UNCHANGED <<connVars, mapVars, sessVars, taskVars, gateVars>>

CloseKill(c) ==
  /\ call[c].pc = "close_kill"
  /\ RequestKill(call[c].ch)
  /\ SpawnEscalation(c, call[c].name)
  /\ Return(c)
  /\ UNCHANGED <<connVars, mapVars, session, clients, spawned, poll, gateVars>>

-----------------------------------------------------------------------------
(* The connection event loop: one event at a time, evict_conn inline.      *)

\* Fault: insert instead of or_insert, clobbering an early Attach.
EvConnectClobber(c) ==
  /\ ev.pc = "idle"
  /\ c \in connQ
  /\ connQ' = connQ \ {c}
  /\ conns' = [conns EXCEPT ![c] = Unattached]
  /\ UNCHANGED <<call, stage, discQ, ev, evicted, mapVars, sessVars, taskVars,
                 gateVars>>

\* ClientConnected may be handled after the connection's own Attach.
EvConnect(c) ==
  /\ ev.pc = "idle"
  /\ c \in connQ
  /\ connQ' = connQ \ {c}
  /\ conns' = [conns EXCEPT ![c] = IF @ = Absent THEN Unattached ELSE @]
  /\ UNCHANGED <<call, stage, discQ, ev, evicted, mapVars, sessVars, taskVars,
                 gateVars>>

\* ClientDisconnected: drop the table entry; only an attached one goes on.
EvEvict(c) ==
  /\ ev.pc = "idle"
  /\ c \in discQ \ connQ
  /\ discQ' = discQ \ {c}
  /\ conns' = [conns EXCEPT ![c] = Absent]
  /\ evicted' = evicted \cup {c}
  /\ ev' = IF conns[c] \in Names
           THEN [pc |-> "resolve", conn |-> c, name |-> conns[c], ch |-> None]
           ELSE ev
  /\ UNCHANGED <<call, stage, connQ, mapVars, sessVars, taskVars, gateVars>>

EvResolve ==
  /\ ev.pc = "resolve"
  /\ ev' = IF chanMap[ev.name] = None
           THEN IdleEvent
           ELSE [ev EXCEPT !.pc = "prune", !.ch = chanMap[ev.name]]
  /\ UNCHANGED <<call, stage, conns, connQ, discQ, evicted, mapVars, sessVars,
                 taskVars, gateVars>>

EvPrune ==
  /\ ev.pc = "prune"
  /\ clients' = [clients EXCEPT ![ev.ch] = @ \ {ev.conn}]
  /\ ev' = IdleEvent
  /\ UNCHANGED <<call, stage, conns, connQ, discQ, evicted, mapVars, session,
                 killPending, spawned, procs, taskVars, gateVars>>

-----------------------------------------------------------------------------
(* The output polling task of each channel instance, and its GC.           *)

\* check_exited: the session's child is gone.
Over(x) == session[x] # None /\ procs[session[x]] \in Dead

\* The end of a session is cleared away together with kill_pending.
ClearSession(x) ==
  /\ session' = [session EXCEPT ![x] = None]
  /\ killPending' = [killPending EXCEPT ![x] = FALSE]
  /\ poll' = [poll EXCEPT ![x] = IF clients[x] = {} THEN "reap" ELSE @]

\* Fault: a session that is being killed is taken for gone.
PollHasty(x) ==
  /\ poll[x] = "wait"
  /\ ~reaped[x]
  /\ session[x] # None
  /\ killPending[x] \/ Over(x)
  /\ ClearSession(x)
  /\ UNCHANGED <<call, connVars, mapVars, clients, spawned, procs, esc, gateVars>>

\* One wake-up.  The task of a reaped instance ends; an instance without
\* session and clients goes on to the GC.
Poll(x) ==
  /\ poll[x] = "wait"
  /\ \/ /\ reaped[x]
        /\ poll' = [poll EXCEPT ![x] = "done"]
        /\ UNCHANGED <<session, killPending>>
     \/ /\ ~reaped[x]
        /\ Over(x)
        /\ ClearSession(x)
     \/ /\ ~reaped[x]
        /\ session[x] = None
        /\ clients[x] = {}
        /\ poll' = [poll EXCEPT ![x] = "reap"]
        /\ UNCHANGED <<session, killPending>>
  /\ UNCHANGED <<call, connVars, mapVars, clients, spawned, procs, esc, gateVars>>

\* The tombstone and the removal from the table.
Collect(x) ==
  /\ reaped' = [reaped EXCEPT ![x] = TRUE]
  /\ chanMap' = [chanMap EXCEPT ![chName[x]] = None]

\* Fault: reap on the strength of the earlier look.
ReapStale(x) ==
  /\ poll[x] = "reap"
  /\ ChannelsWritable
  /\ poll' = [poll EXCEPT ![x] = "wait"]
  /\ LET cur == chanMap[chName[x]] IN
     IF cur # None THEN Collect(cur) ELSE UNCHANGED <<reaped, chanMap>>
  /\ UNCHANGED <<call, connVars, created, chName, sessVars, esc, gateVars>>

\* Under channels.write(): look the name up again and re-verify whatever
\* instance it now names before collecting it.
Reap(x) ==
  /\ poll[x] = "reap"
  /\ ChannelsWritable
  /\ poll' = [poll EXCEPT ![x] = "wait"]
  /\ LET cur == chanMap[chName[x]] IN
     IF cur # None /\ session[cur] = None /\ clients[cur] = {}
     THEN Collect(cur)
     ELSE UNCHANGED <<reaped, chanMap>>
  /\ UNCHANGED <<call, connVars, created, chName, sessVars, esc, gateVars>>

-----------------------------------------------------------------------------
(* Processes and the kill escalation.                                      *)

\* A child may exit at any time, of its own accord or on a signal.
ProcExit(s) ==
  /\ procs[s] \in Alive
  /\ procs' = [procs EXCEPT ![s] = "exited"]
  /\ UNCHANGED <<call, connVars, mapVars, session, clients, killPending,
                 spawned, taskVars, gateVars>>

\* Fault: a task that does not find the name any more never ends.
EscalateWakeStuck(e) ==
  /\ e \in esc
  /\ e.ch = None
  /\ chanMap[e.name] # None
  /\ esc' = (esc \ {e}) \cup {[e EXCEPT !.ch = chanMap[e.name]]}
  /\ UNCHANGED <<call, connVars, mapVars, sessVars, poll, gateVars>>

\* The grace is over: the task resolves the name it was given.
EscalateWake(e) ==
  /\ e \in esc
  /\ e.ch = None
  /\ LET x == chanMap[e.name] IN
     esc' = (esc \ {e}) \cup IF x = None THEN {} ELSE {[e EXCEPT !.ch = x]}
  /\ UNCHANGED <<call, connVars, mapVars, sessVars, poll, gateVars>>

\* Fault: the pending kill is consumed and nobody gets SIGKILL.
EscalateSilent(e) ==
  /\ e \in esc
  /\ e.ch # None
  /\ esc' = esc \ {e}
  /\ killPending' = [killPending EXCEPT ![e.ch] = FALSE]
  /\ UNCHANGED <<call, connVars, mapVars, session, clients, spawned, procs, poll,
                 gateVars>>

\* signal_process_group: SIGKILL goes to the foreground process group of the
\* terminal.  That is the child's, or a job's of a child that lives on, or
\* there is none.
SigKill(s) == \E end \in {"killed", "outlived"} : procs' = [procs EXCEPT ![s] = end]

\* Then it locks that instance: a kill that is still pending is consumed, and
\* a session that is still alive is sent SIGKILL, this once.
Escalate(e) ==
  /\ e \in esc
  /\ e.ch # None
  /\ esc' = esc \ {e}
  /\ killPending' = [killPending EXCEPT ![e.ch] = FALSE]
  /\ LET s == session[e.ch] IN
     IF killPending[e.ch] /\ s # None /\ procs[s] \in Alive
     THEN SigKill(s)
     ELSE UNCHANGED procs
  /\ UNCHANGED <<call, connVars, mapVars, session, clients, spawned, poll,
                 gateVars>>

-----------------------------------------------------------------------------
(* The admin's calls.  Each admin connection carries one call.             *)

\* A CLI command (with_gateway): connect, one call, disconnect.
AdminCall(a, opts, start) ==
  /\ stage[a] = "open"
  /\ stage' = [stage EXCEPT ![a] = "closed"]
  /\ Ops \cap opts # {}
  /\ call' = [call EXCEPT ![a] = start]
  /\ UNCHANGED <<conns, connQ, discQ, ev, evicted, mapVars, sessVars, taskVars,
                 gateVars>>

\* KillChannel: the target connections, under conns.read().
KillChannelCall(a, n, force) ==
  /\ ~shutting
  /\ AdminCall(a, IF force THEN {"killforce"} ELSE {"kill"},
               [IdleCall EXCEPT !.pc = "kill_lookup", !.name = n, !.force = force,
                                !.targets = {c \in Viewers : conns[c] = n}])

KillLookup(a) ==
  /\ call[a].pc = "kill_lookup"
  /\ GotoWith(a, IF Resolved(a) = None THEN "kill_evict" ELSE "kill_kill",
              Resolved(a))
  /\ UNCHANGED <<connVars, mapVars, sessVars, taskVars, gateVars>>

\* One lock section: refuse, or signal the session and drop the targets.
KillKill(a) ==
  LET k == call[a] IN
  /\ k.pc = "kill_kill"
  /\ \/ /\ ~k.force /\ clients[k.ch] # {}
        /\ Return(a)
        /\ UNCHANGED <<clients, killPending, procs, esc>>
     \/ /\ k.force \/ clients[k.ch] = {}
        /\ RequestKill(k.ch)
        /\ clients' = [clients EXCEPT ![k.ch] = @ \ k.targets]
        /\ SpawnEscalation(a, k.name)
        /\ Goto(a, "kill_evict")
  /\ UNCHANGED <<connVars, mapVars, session, spawned, poll, gateVars>>

\* conns.write(): the targets' entries go, whatever they are bound to now.
Unroute(cs) ==
  /\ conns' = [c \in Viewers |-> IF c \in cs THEN Absent ELSE conns[c]]
  /\ evicted' = evicted \cup cs

KillEvict(a) ==
  /\ call[a].pc = "kill_evict"
  /\ Unroute(call[a].targets)
  /\ Return(a)
  /\ UNCHANGED <<stage, connQ, discQ, ev, mapVars, sessVars, taskVars, gateVars>>

\* KillClient: the connection must be attached to the named channel.
KillClientCall(a, c) ==
  /\ ~shutting
  /\ conns[c] \in Names
  /\ AdminCall(a, {"killclient"},
               [IdleCall EXCEPT !.pc = "client_evict", !.name = conns[c],
                                !.targets = {c}])

ClientEvict(a) ==
  /\ call[a].pc = "client_evict"
  /\ Unroute(call[a].targets)
  /\ Goto(a, "client_lookup")
  /\ UNCHANGED <<stage, connQ, discQ, ev, mapVars, sessVars, taskVars, gateVars>>

ClientLookup(a) ==
  /\ call[a].pc = "client_lookup"
  /\ IF Resolved(a) = None THEN Return(a)
                           ELSE GotoWith(a, "client_prune", Resolved(a))
  /\ UNCHANGED <<connVars, mapVars, sessVars, taskVars, gateVars>>

ClientPrune(a) ==
  /\ call[a].pc = "client_prune"
  /\ clients' = [clients EXCEPT ![call[a].ch] = @ \ call[a].targets]
  /\ Return(a)
  /\ UNCHANGED <<connVars, mapVars, session, killPending, spawned, procs,
                 taskVars, gateVars>>

\* The instances the channel table holds now.
Mapped == {chanMap[n] : n \in Names} \ {None}

\* ShutdownGateway does not look at the seal; unless forced it first scans
\* every channel for a live session, holding channels.read() throughout.
StopCall(a, force) ==
  AdminCall(a, IF force THEN {"stopforce"} ELSE {"stop"},
            [IdleCall EXCEPT !.pc = IF force THEN "stop_seal" ELSE "stop_scan",
                             !.todo = Mapped, !.force = force])

\* One channel of a scan or of a teardown is dealt with.
Done(a, x) == call' = [call EXCEPT ![a].todo = @ \ {x}]

StopScan(a) ==
  /\ call[a].pc = "stop_scan"
  /\ \/ /\ call[a].todo = {}
        /\ Goto(a, "stop_seal")
     \/ \E x \in call[a].todo : session[x] = None /\ Done(a, x)
     \/ \E x \in call[a].todo : session[x] # None /\ Return(a)
  /\ UNCHANGED <<connVars, mapVars, sessVars, taskVars, gateVars>>

\* The seal, then the snapshot of the channels to tear down.
StopSeal(a) ==
  /\ call[a].pc = "stop_seal"
  /\ shutting' = TRUE
  /\ call' = [call EXCEPT ![a].pc = "stop_kill", ![a].todo = Mapped]
  /\ UNCHANGED <<connVars, mapVars, sessVars, taskVars, up>>

StopKill(a) ==
  /\ call[a].pc = "stop_kill"
  /\ \/ /\ call[a].todo = {}
        /\ Goto(a, "stop_wait")
        /\ UNCHANGED <<killPending, procs, esc>>
     \/ \E x \in call[a].todo :
          /\ RequestKill(x)
          /\ SpawnEscalation(a, chName[x])
          /\ Done(a, x)
  /\ UNCHANGED <<connVars, mapVars, session, clients, spawned, poll, gateVars>>

\* Once its own escalations have ended, the stop lets run_gateway return.
StopExit(a) ==
  /\ call[a].pc = "stop_wait"
  /\ \A e \in esc : e.by # a
  /\ up' = FALSE
  /\ Return(a)
  /\ UNCHANGED <<connVars, mapVars, sessVars, taskVars, shutting>>

-----------------------------------------------------------------------------

ViewerStep(c) ==
  \/ Lookup(c) \/ Check(c) \/ Create(c) \/ Bind(c) \/ SpawnSession(c)
  \/ CloseLookup(c) \/ CloseKill(c)

AdminStep(a) ==
  \/ KillLookup(a) \/ KillKill(a) \/ KillEvict(a)
  \/ ClientEvict(a) \/ ClientLookup(a) \/ ClientPrune(a)
  \/ StopScan(a) \/ StopSeal(a) \/ StopKill(a) \/ StopExit(a)

EventStep ==
  \/ \E c \in Viewers : EvConnect(c) \/ EvEvict(c)
  \/ EvResolve
  \/ EvPrune

Environment ==
  \/ \E c \in Conns : Connect(c)
  \/ \E c \in Viewers : Drop(c) \/ SpawnCall(c) \/ CloseCall(c)
  \/ \E c \in Viewers, n \in Names : AttachCall(c, n)
  \/ \E a \in Admins, n \in Names, f \in BOOLEAN : KillChannelCall(a, n, f)
  \/ \E a \in Admins, c \in Viewers : KillClientCall(a, c)
  \/ \E a \in Admins, f \in BOOLEAN : StopCall(a, f)
  \/ \E s \in SessionIds : ProcExit(s)

\* Nothing runs once the gateway process is gone.
Next ==
  /\ up
  /\ \/ \E c \in Viewers : ViewerStep(c)
     \/ \E a \in Admins : AdminStep(a)
     \/ EventStep
     \/ \E x \in ChannelIds : Poll(x) \/ Reap(x)
     \/ \E e \in esc : EscalateWake(e) \/ Escalate(e)
     \/ Environment

Spec == Init /\ [][Next]_vars

Escalations == [by : Conns, name : Names, ch : ChannelIds \cup {None}]

\* Each handler, task and loop that has started goes on: the runtime polls
\* every ready task.  This takes for granted that nobody keeps a channel's lock
\* for ever, which an owner that PtyReader!DrainReturns fails would.  Nothing is
\* assumed of the clients, of the transport or of the processes.
Fairness ==
  /\ \A c \in Viewers : WF_vars(up /\ ViewerStep(c))
  /\ \A a \in Admins : WF_vars(up /\ AdminStep(a))
  /\ WF_vars(up /\ EventStep)
  /\ \A x \in ChannelIds : WF_vars(up /\ Poll(x)) /\ WF_vars(up /\ Reap(x))
  /\ \A e \in Escalations : WF_vars(up /\ (EscalateWake(e) \/ Escalate(e)))

FairSpec == Spec /\ Fairness

-----------------------------------------------------------------------------
(* What the gateway promises.                                              *)

CallPCs == {"idle", "lookup", "check", "create", "bind", "session",
            "close_lookup", "close_kill", "kill_lookup", "kill_kill",
            "kill_evict", "client_evict", "client_lookup", "client_prune",
            "stop_scan", "stop_seal", "stop_kill", "stop_wait"}

CallType == [pc : CallPCs, op : {"none", "attach", "spawn"},
             name : Names \cup {Absent}, ch : 0..created,
             targets : SUBSET Viewers, todo : SUBSET (1..created),
             force : BOOLEAN]

\* Types of all the state: every call holds an existing instance, every
\* session is one that was spawned.
GatewayTypeOK ==
  /\ stage \in [Conns -> {"new", "open", "attached", "joined", "closed"}]
  /\ call \in [Conns -> CallType]
  /\ conns \in [Viewers -> Names \cup {Absent, Unattached}]
  /\ connQ \subseteq Viewers /\ discQ \subseteq Viewers /\ evicted \subseteq Viewers
  /\ ev \in [pc : {"idle", "resolve", "prune"}, conn : Viewers \cup {None},
             name : Names \cup {Absent}, ch : 0..created]
  /\ chanMap \in [Names -> 0..created]
  /\ created \in 0..MaxChannels
  /\ chName \in [ChannelIds -> Names \cup {Absent}]
  /\ reaped \in [ChannelIds -> BOOLEAN]
  /\ session \in [ChannelIds -> 0..spawned]
  /\ clients \in [ChannelIds -> SUBSET Viewers]
  /\ killPending \in [ChannelIds -> BOOLEAN]
  /\ poll \in [ChannelIds -> {"none", "wait", "reap", "done"}]
  /\ esc \subseteq [by : Conns, name : Names, ch : 0..created]
  /\ spawned \in 0..MaxSessions
  /\ procs \in [SessionIds -> {"unborn"} \cup Alive \cup Dead]
  /\ shutting \in BOOLEAN /\ up \in BOOLEAN

\* The tombstone is exact: an instance is either the one its name maps to or
\* it is reaped, never both and never neither, whatever order concurrent
\* lookups, creations and collections of the same name come in.
\* (get_or_create_channel and the GC of the polling task)
OneCanonicalChannel ==
  \A x \in 1..created : ~reaped[x] <=> chanMap[chName[x]] = x

\* The GC takes only an instance that has neither a session nor a client at
\* that very moment: the re-check under channels.write, not the earlier look.
ReapOnlyIdle ==
  [][\A x \in ChannelIds :
       reaped'[x] /\ ~reaped[x] => session[x] = None /\ clients[x] = {}]_vars

\* A live session is never detached from its channel or replaced in it,
\* however attaches, spawns, kills and evictions interleave: only the polling
\* task takes a session away, and only once its child has exited.
SessionSurvives ==
  [][\A x \in ChannelIds :
       session[x] # None /\ session'[x] # session[x]
         => procs[session[x]] \in Dead]_vars

\* A connection whose Attach was answered stays bound until something evicts
\* it: the late ClientConnected event must not undo the binding.
\* (or_insert_with in the connection event loop)
AttachSticks ==
  \A c \in Viewers :
    stage[c] \in {"attached", "joined"} /\ conns[c] \notin Names => c \in evicted

\* A live session of the table that was sent SIGTERM, and for which no
\* escalation has come since, has its kill pending and an escalation task that
\* will reach it, however many kills of the channel overlap, are outrun by an
\* exit or find it empty: no kill is lost between them.
\* (kill_pending against the detached tasks of spawn_kill_escalation)
EscalationArmed ==
  \A x \in Mapped :
    session[x] # None /\ procs[session[x]] = "terminating"
      => /\ killPending[x]
         /\ \E e \in esc : e.name = chName[x] /\ e.ch \in {None, x}

\* The gateway keeps the book of its channels: a name gets a new instance only
\* when those it had are collected, only what nobody uses is collected, a
\* client enters or leaves without touching anybody's session, and a session
\* ends only in an open channel; however the handlers and tasks interleave.
Book == INSTANCE ChannelBook WITH
  Channels  <- ChannelIds,
  Clients   <- Viewers,
  title     <- chName,
  collected <- {x \in ChannelIds : reaped[x]},
  guests    <- clients,
  running   <- {x \in ChannelIds : session[x] # None}

IsBook == Book!Spec

Idle(x) == x <= created /\ session[x] = None /\ clients[x] = {}

\* An idle instance is collected unless somebody takes it into use first.
IdleChannelsAreReaped ==
  \A x \in ChannelIds : Idle(x) /\ ~reaped[x] ~> reaped[x] \/ ~Idle(x) \/ ~up

\* A session of a channel in the table that was sent SIGTERM either exits or
\* is sent SIGKILL in the end: no kill is forgotten, though kills of a channel
\* share one flag and a task may consume the flag of another.  What SIGKILL
\* hits is another matter: see SignalledSessionsDie.
\* (request_session_kill and the escalation tasks)
KillsEscalate ==
  \A x \in ChannelIds, s \in SessionIds :
    ~reaped[x] /\ session[x] = s /\ procs[s] = "terminating"
      ~> procs[s] # "terminating" \/ ~up

\* A client whose binding evict_conn has taken out of the routing table leaves
\* the channel it had joined, though the channel is killed, collected or created
\* again before the eviction gets to it.  (A kill that takes the binding first
\* may leave the client behind.)
\* (evict_conn, "authoritative teardown on disconnect")
DisconnectedClientsLeave ==
  \A c \in Viewers :
    ev.conn = c ~> (\A x \in ChannelIds : c \in clients[x] => reaped[x]) \/ ~up

\* A sealed gateway gets to its exit: every kill it is waiting for ends, also
\* when the channel is collected during the grace.  (ShutdownGateway)
ShutdownCompletes == shutting ~> ~up

-----------------------------------------------------------------------------
(* What the documentation says and the code does not do.                   *)

\* "tombstone double-checked locking so concurrent attaches never split a
\* channel": two sessions of one name never run at once.
NeverSplit ==
  \A x, y \in ChannelIds :
    /\ session[x] # None /\ session[y] # None
    /\ chName[x] = chName[y]
    /\ procs[session[x]] \in Alive /\ procs[session[y]] \in Alive
    => x = y

\* "True between a SIGTERM request and the process group's actual exit": a
\* session is sent SIGKILL only after a SIGTERM of its own.
NoBlindKill ==
  [][\A s \in SessionIds :
       procs'[s] # procs[s] /\ procs'[s] \in {"killed", "outlived"}
         => procs[s] = "terminating"]_vars

\* "Send a signal to the child's entire process group, not just the leader"
\* (pty.rs): a session that was sent SIGTERM is gone in the end, even if it
\* ignores the signal.
SignalledSessionsDie ==
  \A x \in ChannelIds, s \in SessionIds :
    ~reaped[x] /\ session[x] = s /\ procs[s] = "terminating"
      ~> procs[s] \in Dead \/ ~up

\* "a participant cannot slip in between the verification and the eviction"
\* of a kill that is not forced.
NobodySlipsIn ==
  \A a \in Admins :
    call[a].pc = "kill_evict" /\ ~call[a].force
      => \A x \in Mapped : clients[x] \cap call[a].targets = {}

\* "tears down every session's process tree before exiting".
ExitLeavesNoSession == up \/ \A s \in SessionIds : procs[s] \notin Alive

\* "refuses while any live session is running": a stop that is not forced
\* has no live session to tear down.
UnforcedStopIsHarmless ==
  \A a \in Admins :
    call[a].pc = "stop_kill" /\ ~call[a].force
      => \A x \in call[a].todo : session[x] = None \/ Over(x)

\* "authoritative teardown on disconnect": once every handler and event has
\* been dealt with, no client of a closed connection is left in the table.
NoGhostClients ==
  (/\ \A c \in Conns : call[c].pc = "idle"
   /\ ev.pc = "idle" /\ connQ = {} /\ discQ = {})
  => \A c \in Viewers, x \in Mapped : stage[c] = "closed" => c \notin clients[x]
=============================================================================
