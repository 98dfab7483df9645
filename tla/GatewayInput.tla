---------------------------- MODULE GatewayInput ----------------------------
(***************************************************************************)
(* Input routing in the session gateway: crates/term-session-server/src/   *)
(* session_server.rs.                                                      *)
(*                                                                         *)
(* A viewer's keystrokes travel as chunks of one stream: the stream        *)
(* handler puts a chunk into the connection's forwarder queue, a drain     *)
(* task forwards what is queued to the bound channel's input queue, and    *)
(* the channel's writer task writes that to the PTY of the session.  Every *)
(* stage coalesces what it finds queued.  In a workspace an internal       *)
(* window manager subscribes to the channel: structured events then go to  *)
(* it by RPC and raw chunks are suppressed.                                *)
(*                                                                         *)
(* The life cycle of channels and sessions is that of Gateway, coarser: a  *)
(* lookup that creates a channel is one step here.                         *)
(***************************************************************************)
EXTENDS Naturals, Sequences, FiniteSets, SequencesExt

CONSTANTS
  Viewers,      \* connections of session viewers
  Wms,          \* connections of internal window managers
  Names,        \* channel names
  MaxChannels,  \* bound on the channel instances ever created
  MaxSessions,  \* bound on the sessions ever spawned
  MaxChunks,    \* bound on the chunks each viewer sends
  MaxTasks,     \* bound on the drain tasks ever started
  QueueCap,     \* INPUT_CHANNEL_CAPACITY
  Reattach,     \* may a connection Attach again, to another channel?
  Attributed,   \* do viewers send structured events, too?
  Absent        \* no channel name, and no connection

ASSUME InputAssumption ==
  /\ MaxChannels \in Nat /\ MaxSessions \in Nat /\ MaxChunks \in Nat
  /\ MaxTasks \in Nat /\ QueueCap \in Nat \ {0}
  /\ Reattach \in BOOLEAN /\ Attributed \in BOOLEAN
  /\ Viewers \cap Wms = {} /\ Absent \notin Names \cup Viewers \cup Wms

Conns      == Viewers \cup Wms
ChannelIds == 1..MaxChannels
SessionIds == 1..MaxSessions
TaskIds    == 1..MaxTasks
None       == 0

VARIABLES
  online,     \* connections whose socket is open
  attaching,  \* an Attach in flight: the name it will bind
  bound,      \* ConnState::Attached in ServerState::conns
  route,      \* ServerState::conn_to_channel
  leaving,    \* evict_conn before the channel lock: the name that was bound
  unmarking,  \* evict_conn after it: the name to take out of internal_channels
  killed,     \* history: connections KillClient has evicted
  wasBound,   \* history: the name a connection was bound to when it went
  chanMap,    \* ServerState::channels
  created,    \* channel instances created so far
  clients,    \* ChannelState::clients
  session,    \* ChannelState::session
  spawned,    \* sessions spawned so far
  mode,       \* ChannelState::input_mode and internal_wm_conn_id
  internal,   \* ServerState::internal_channels
  sent,       \* chunks each viewer's stream has carried
  hand,       \* the chunk the stream handler of a connection is dealing with
  fwd,        \* ServerState::input_forwarders: connection -> drain task
  task,       \* drain_input_forwarder tasks
  started,    \* drain tasks started so far
  inputQ,     \* each channel's input queue, fed by input_tx: the batches in it,
              \* counted, and their chunks
  writer,     \* each channel's writer task: its batch and the PTY it holds
  pty,        \* what each session's PTY has been given
  calls,      \* OnAttributedInput calls in flight, each a task of its own
  wmGot       \* what each window manager has received

connVars == <<online, attaching, bound, route, leaving, unmarking, killed,
              wasBound>>
chanVars == <<chanMap, created, clients, session, spawned, mode, internal>>
pipeVars == <<hand, fwd, task, started, inputQ, writer, pty>>
attrVars == <<calls, wmGot>>
vars == <<connVars, chanVars, sent, pipeVars, attrVars>>

NoBatch == <<>>
NoInput == [batches |-> 0, chunks |-> <<>>]
NoTask  == [conn |-> Absent, queue |-> <<>>, batch |-> NoBatch, pc |-> "none",
            name |-> Absent, cached |-> None]

Init ==
  /\ online = Conns
  /\ attaching = [c \in Conns |-> Absent]
  /\ bound = [c \in Conns |-> Absent]
  /\ route = [c \in Conns |-> Absent]
  /\ leaving = [c \in Conns |-> Absent]
  /\ unmarking = [c \in Conns |-> Absent]
  /\ killed = {}
  /\ wasBound = [c \in Conns |-> Absent]
  /\ chanMap = [n \in Names |-> None]
  /\ created = 0
  /\ clients = [x \in ChannelIds |-> {}]
  /\ session = [x \in ChannelIds |-> None]
  /\ spawned = 0
  /\ mode = [x \in ChannelIds |-> Absent]
  /\ internal = {}
  /\ sent = [c \in Viewers |-> 0]
  /\ hand = [c \in Viewers |-> NoBatch]
  /\ fwd = [c \in Conns |-> None]
  /\ task = [t \in TaskIds |-> NoTask]
  /\ started = 0
  /\ inputQ = [x \in ChannelIds |-> NoInput]
  /\ writer = [x \in ChannelIds |-> [batch |-> NoBatch, to |-> None]]
  /\ pty = [s \in SessionIds |-> <<>>]
  /\ calls = {}
  /\ wmGot = [w \in Wms |-> <<>>]

-----------------------------------------------------------------------------
(* Binding a connection to a channel.                                      *)

\* get_or_create_channel, atomically: afterwards channel n is instance x.
LookupOrCreate(n, x) ==
  \/ /\ x = chanMap[n] /\ x # None
     /\ UNCHANGED <<chanMap, created>>
  \/ /\ chanMap[n] = None
     /\ x = created + 1 /\ x \in ChannelIds
     /\ created' = x
     /\ chanMap' = [chanMap EXCEPT ![n] = x]

\* Attach, first part: the channel is looked up or created, and the
\* connection's forwarder is purged.
AttachCall(c, n) ==
  /\ c \in online
  /\ attaching[c] = Absent
  /\ IF Reattach THEN bound[c] # n ELSE bound[c] = Absent /\ route[c] = Absent
  /\ \E x \in ChannelIds : LookupOrCreate(n, x)
  /\ attaching' = [attaching EXCEPT ![c] = n]
  /\ fwd' = [fwd EXCEPT ![c] = None]
  /\ UNCHANGED <<online, bound, route, leaving, unmarking, killed, wasBound,
                 clients, session, spawned, mode, internal, sent, hand, task, started,
                 inputQ, writer, pty, attrVars>>

\* Attach, second part, all of it under conns.write: both routing tables, and
\* the name of a channel that a window manager has subscribed to.
AttachBind(c) ==
  LET n == attaching[c] IN
  /\ n # Absent
  /\ attaching' = [attaching EXCEPT ![c] = Absent]
  /\ bound' = [bound EXCEPT ![c] = n]
  /\ route' = [route EXCEPT ![c] = n]
  /\ internal' = IF chanMap[n] # None /\ mode[chanMap[n]] # Absent
                 THEN internal \cup {n} ELSE internal
  /\ UNCHANGED <<online, leaving, unmarking, killed, wasBound, chanMap, created, clients,
                 session, spawned, mode, sent, pipeVars, attrVars>>

\* Spawn: the connection becomes a client, and a session starts if the
\* channel has none.
Spawn(c) ==
  /\ c \in online
  /\ bound[c] # Absent
  /\ \E x \in ChannelIds :
       /\ LookupOrCreate(bound[c], x)
       /\ clients' = [clients EXCEPT ![x] = @ \cup {c}]
       /\ \/ /\ session[x] # None
             /\ c \notin clients[x]
             /\ UNCHANGED <<session, spawned>>
          \/ /\ session[x] = None
             /\ spawned < MaxSessions
             /\ spawned' = spawned + 1
             /\ session' = [session EXCEPT ![x] = spawned']
  /\ UNCHANGED <<connVars, mode, internal, sent, pipeVars, attrVars>>

\* A session is over and the polling task has cleared it away.
SessionEnd(x) ==
  /\ session[x] # None
  /\ session' = [session EXCEPT ![x] = None]
  /\ UNCHANGED <<connVars, chanMap, created, clients, spawned, mode, internal,
                 sent, pipeVars, attrVars>>

\* The GC removes an idle channel.  Its name stays in internal_channels.
Reap(n) ==
  /\ chanMap[n] # None
  /\ session[chanMap[n]] = None /\ clients[chanMap[n]] = {}
  /\ chanMap' = [chanMap EXCEPT ![n] = None]
  /\ UNCHANGED <<connVars, created, clients, session, spawned, mode, internal,
                 sent, pipeVars, attrVars>>

-----------------------------------------------------------------------------
(* A connection goes away.                                                 *)

\* evict_conn, first part, once the socket has closed: the forwarder is
\* purged and the routing entry goes; an unattached connection is done.
EvictConn(c) ==
  /\ c \in online
  /\ attaching[c] = Absent
  /\ c \in Viewers => hand[c] = NoBatch
  /\ online' = online \ {c}
  /\ fwd' = [fwd EXCEPT ![c] = None]
  /\ leaving' = [leaving EXCEPT ![c] = bound[c]]
  /\ wasBound' = [wasBound EXCEPT ![c] = bound[c]]
  /\ bound' = [bound EXCEPT ![c] = Absent]
  /\ UNCHANGED <<attaching, route, unmarking, killed, chanVars, sent, hand, task,
                 started, inputQ, writer, pty, attrVars>>

\* Fault: the mode of the channel outlives its window manager.
EvictChannelForgets(c) ==
  /\ leaving[c] # Absent
  /\ leaving' = [leaving EXCEPT ![c] = Absent]
  /\ route' = [route EXCEPT ![c] = Absent]
  /\ UNCHANGED <<online, attaching, bound, unmarking, killed, wasBound, chanVars,
                 sent, pipeVars, attrVars>>

\* evict_conn, second part, under the channel lock: the client is pruned and
\* the mode of a departing window manager is reverted.  A channel that is not
\* found leaves the raw route behind.
EvictChannel(c) ==
  LET x == chanMap[leaving[c]] IN
  /\ leaving[c] # Absent
  /\ leaving' = [leaving EXCEPT ![c] = Absent]
  /\ \/ /\ x = None
        /\ UNCHANGED <<clients, mode, route, unmarking>>
     \/ /\ x # None
        /\ clients' = [clients EXCEPT ![x] = @ \ {c}]
        /\ route' = [route EXCEPT ![c] = Absent]
        /\ IF mode[x] = c
           THEN /\ mode' = [mode EXCEPT ![x] = Absent]
                /\ unmarking' = [unmarking EXCEPT ![c] = leaving[c]]
           ELSE UNCHANGED <<mode, unmarking>>
  /\ UNCHANGED <<online, attaching, bound, killed, wasBound, chanMap, created,
                 session, spawned, internal, sent, pipeVars, attrVars>>

\* evict_conn, third part, the channel lock released: the name goes.
EvictUnmark(c) ==
  /\ unmarking[c] # Absent
  /\ unmarking' = [unmarking EXCEPT ![c] = Absent]
  /\ internal' = internal \ {unmarking[c]}
  /\ UNCHANGED <<online, attaching, bound, route, leaving, killed, wasBound,
                 chanMap, created, clients, session, spawned, mode, sent, pipeVars, attrVars>>

\* KillClient: the routing entry and the client entry go; the socket stays
\* open, and neither the raw route nor the forwarder is touched.
KillClient(c) ==
  /\ c \in online \cap Viewers
  /\ bound[c] # Absent
  /\ killed' = killed \cup {c}
  /\ bound' = [bound EXCEPT ![c] = Absent]
  /\ LET x == chanMap[bound[c]] IN
     clients' = IF x = None THEN clients ELSE [clients EXCEPT ![x] = @ \ {c}]
  /\ UNCHANGED <<online, attaching, route, leaving, unmarking, wasBound, chanMap,
                 created, session, spawned, mode, internal, sent, pipeVars, attrVars>>

-----------------------------------------------------------------------------
(* The stream of raw input.                                                *)

\* Number n of viewer c; the name it was typed for; after c was killed?
Chunk(c) == [from |-> c, n |-> sent[c] + 1, to |-> route[c], late |-> c \in killed]

\* StreamInput, a chunk: dropped without a route, suppressed for an internal
\* channel, otherwise on its way to the forwarder.
StreamChunk(c) ==
  /\ c \in online
  /\ hand[c] = NoBatch
  /\ sent[c] < MaxChunks
  /\ sent' = [sent EXCEPT ![c] = @ + 1]
  /\ hand' = [hand EXCEPT ![c] =
                IF route[c] = Absent \/ route[c] \in internal THEN NoBatch
                ELSE <<Chunk(c)>>]
  /\ UNCHANGED <<connVars, chanVars, fwd, task, started, inputQ, writer, pty,
                 attrVars>>

\* Fault: a task per chunk, as before the ordered forwarder queues.
StreamForwardSpawns(c) ==
  /\ hand[c] # NoBatch
  /\ hand' = [hand EXCEPT ![c] = NoBatch]
  /\ started < MaxTasks
  /\ started' = started + 1
  /\ task' = [task EXCEPT ![started'] =
                [NoTask EXCEPT !.conn = c, !.pc = "recv", !.queue = hand[c]]]
  /\ UNCHANGED <<connVars, chanVars, sent, fwd, inputQ, writer, pty, attrVars>>

\* Then the forwarder: a chunk that finds the queue full is dropped; a
\* connection without a forwarder gets one, with a drain task of its own.
StreamForward(c) ==
  /\ hand[c] # NoBatch
  /\ hand' = [hand EXCEPT ![c] = NoBatch]
  /\ \/ /\ fwd[c] # None
        /\ Len(task[fwd[c]].queue) < QueueCap
        /\ task' = [task EXCEPT ![fwd[c]].queue = @ \o hand[c]]
        /\ UNCHANGED <<fwd, started>>
     \/ /\ fwd[c] # None
        /\ Len(task[fwd[c]].queue) = QueueCap
        /\ UNCHANGED <<fwd, started, task>>
     \/ /\ fwd[c] = None
        /\ started < MaxTasks
        /\ started' = started + 1
        /\ fwd' = [fwd EXCEPT ![c] = started']
        /\ task' = [task EXCEPT ![started'] =
                [NoTask EXCEPT !.conn = c, !.pc = "recv", !.queue = hand[c]]]
  /\ UNCHANGED <<connVars, chanVars, sent, inputQ, writer, pty, attrVars>>

\* Some stages of drain_input_forwarder change their own task only.
TaskOnly == UNCHANGED <<connVars, chanVars, sent, hand, fwd, started, writer, pty,
                        attrVars>>

\* Everything that is queued makes one batch.
DrainRecv(t) ==
  /\ task[t].pc = "recv"
  /\ task[t].queue # <<>>
  /\ task' = [task EXCEPT ![t].batch = task[t].queue, ![t].queue = <<>>,
                          ![t].pc = IF task[t].cached = None THEN "bound" ELSE "send"]
  /\ TaskOnly /\ UNCHANGED inputQ

\* bound_channel of the connection; nothing bound, nothing to send to.
DrainBound(t) ==
  /\ task[t].pc = "bound"
  /\ task' = [task EXCEPT ![t].name = bound[task[t].conn],
                          ![t].pc = IF bound[task[t].conn] = Absent THEN "send"
                                    ELSE "resolve"]
  /\ TaskOnly /\ UNCHANGED inputQ

\* resolve_channel: its input_tx is kept for the batches to come.
DrainResolve(t) ==
  /\ task[t].pc = "resolve"
  /\ task' = [task EXCEPT ![t].cached = chanMap[task[t].name], ![t].pc = "send"]
  /\ TaskOnly /\ UNCHANGED inputQ

\* A full input queue parks the task.  The input queue of a channel is never
\* closed: its writer task holds the channel, and the channel holds input_tx.
DrainSend(t) ==
  /\ task[t].pc = "send"
  /\ task' = [task EXCEPT ![t].batch = NoBatch, ![t].pc = "recv"]
  /\ LET x == task[t].cached IN
     \/ /\ x # None
        /\ inputQ[x].batches < QueueCap
        /\ inputQ' = [inputQ EXCEPT ![x] = [batches |-> @.batches + 1,
                                            chunks |-> @.chunks \o task[t].batch]]
     \/ /\ x = None
        /\ UNCHANGED inputQ
  /\ TaskOnly

\* The sender is gone and the queue drained: the task ends.
DrainEnd(t) ==
  /\ task[t].pc = "recv"
  /\ task[t].queue = <<>>
  /\ \A c \in Conns : fwd[c] # t
  /\ task' = [task EXCEPT ![t] = NoTask]
  /\ TaskOnly /\ UNCHANGED inputQ

\* StreamInput, End: the forwarder's sender is dropped.
StreamEnd(c) ==
  /\ c \in online
  /\ hand[c] = NoBatch
  /\ sent[c] = MaxChunks
  /\ fwd[c] # None
  /\ fwd' = [fwd EXCEPT ![c] = None]
  /\ UNCHANGED <<connVars, chanVars, sent, hand, task, started, inputQ, writer,
                 pty, attrVars>>

\* The channel's writer task takes all that is queued and the PTY's writer.
WriterTake(x) ==
  /\ writer[x].batch = NoBatch
  /\ inputQ[x].batches > 0
  /\ inputQ' = [inputQ EXCEPT ![x] = NoInput]
  /\ writer' = [writer EXCEPT ![x] =
        IF session[x] = None THEN @
        ELSE [batch |-> inputQ[x].chunks, to |-> session[x]]]
  /\ UNCHANGED <<connVars, chanVars, sent, hand, fwd, task, started, pty, attrVars>>

\* One blocking write, on another thread.
WriterWrite(x) ==
  /\ writer[x].batch # NoBatch
  /\ pty' = [pty EXCEPT ![writer[x].to] = @ \o writer[x].batch]
  /\ writer' = [writer EXCEPT ![x] = [batch |-> NoBatch, to |-> None]]
  /\ UNCHANGED <<connVars, chanVars, sent, hand, fwd, task, started, inputQ,
                 attrVars>>

-----------------------------------------------------------------------------
(* Structured input.                                                       *)

\* SubscribeInternalInput: the last subscriber owns the channel, bound to it or
\* not (the window manager of the repository, src/main.rs, never attaches).
Subscribe(w, n) ==
  /\ w \in online
  /\ LET x == chanMap[n] IN
     /\ x # None
     /\ mode[x] # w
     /\ mode' = [mode EXCEPT ![x] = w]
     /\ internal' = internal \cup {n}
  /\ UNCHANGED <<connVars, chanMap, created, clients, session, spawned, sent,
                 pipeVars, attrVars>>

\* SendAttributedInput: the viewer sends one event after the other; each is
\* passed on by a task of its own, which the handler does not wait for.
SendAttributed(c, n) ==
  /\ Attributed
  /\ c \in online
  /\ sent[c] < MaxChunks
  /\ sent' = [sent EXCEPT ![c] = @ + 1]
  /\ calls' = IF chanMap[n] # None /\ mode[chanMap[n]] # Absent
              THEN calls \cup {[from |-> c, n |-> sent[c] + 1, to |-> mode[chanMap[n]]]}
              ELSE calls
  /\ UNCHANGED <<connVars, chanVars, pipeVars, wmGot>>

\* OnAttributedInput reaches the window manager, or fails.
Deliver(e) ==
  /\ e \in calls
  /\ calls' = calls \ {e}
  /\ wmGot' = IF e.to \in online THEN [wmGot EXCEPT ![e.to] = Append(@, e)] ELSE wmGot
  /\ UNCHANGED <<connVars, chanVars, sent, pipeVars>>

-----------------------------------------------------------------------------

Next ==
  \/ \E c \in Conns, n \in Names : AttachCall(c, n)
  \/ \E c \in Conns : \/ AttachBind(c)
                      \/ EvictConn(c) \/ EvictChannel(c) \/ EvictUnmark(c)
  \/ \E c \in Viewers : \/ Spawn(c) \/ KillClient(c)
                        \/ StreamChunk(c) \/ StreamForward(c) \/ StreamEnd(c)
  \/ \E c \in Viewers, n \in Names : SendAttributed(c, n)
  \/ \E t \in TaskIds : \/ DrainRecv(t) \/ DrainBound(t) \/ DrainResolve(t)
                        \/ DrainSend(t) \/ DrainEnd(t)
  \/ \E x \in ChannelIds : SessionEnd(x) \/ WriterTake(x) \/ WriterWrite(x)
  \/ \E n \in Names : Reap(n)
  \/ \E w \in Wms, n \in Names : Subscribe(w, n)
  \/ \E e \in calls : Deliver(e)

Spec == Init /\ [][Next]_vars

-----------------------------------------------------------------------------
(* What the gateway promises.                                              *)

Chunks == [from : Viewers, n : 1..MaxChunks, to : Names, late : BOOLEAN]

\* Every queue, batch and table holds what the code's types allow, and no queue
\* outgrows its capacity.
InputTypeOK ==
  /\ online \subseteq Conns /\ killed \subseteq Viewers /\ internal \subseteq Names
  /\ \A f \in {attaching, bound, route, leaving, unmarking, wasBound} :
       f \in [Conns -> Names \cup {Absent}]
  /\ chanMap \in [Names -> 0..created] /\ created \in 0..MaxChannels
  /\ clients \in [ChannelIds -> SUBSET Viewers]
  /\ session \in [ChannelIds -> 0..spawned] /\ spawned \in 0..MaxSessions
  /\ mode \in [ChannelIds -> Wms \cup {Absent}]
  /\ sent \in [Viewers -> 0..MaxChunks]
  /\ fwd \in [Conns -> 0..started] /\ started \in 0..MaxTasks
  /\ \A c \in Viewers : Len(hand[c]) <= 1 /\ ToSet(hand[c]) \subseteq Chunks
  /\ \A t \in TaskIds :
       /\ task[t].cached \in 0..created /\ task[t].name \in Names \cup {Absent}
       /\ task[t].pc \in {"none", "recv", "bound", "resolve", "send"}
       /\ Len(task[t].queue) <= QueueCap
       /\ ToSet(task[t].queue \o task[t].batch) \subseteq Chunks
  /\ \A x \in ChannelIds :
       /\ inputQ[x].batches \in 0..QueueCap
       /\ ToSet(inputQ[x].chunks \o writer[x].batch) \subseteq Chunks
       /\ writer[x].batch # NoBatch => writer[x].to \in SessionIds
  /\ \A s \in SessionIds : ToSet(pty[s]) \subseteq Chunks
  /\ calls \subseteq [from : Viewers, n : 1..MaxChunks, to : Wms]
  /\ \A w \in Wms : ToSet(wmGot[w]) \subseteq [from : Viewers, n : 1..MaxChunks, to : {w}]

\* What q holds of each viewer is in the order it was sent.
InSentOrder(q) ==
  \A i, j \in 1..Len(q) : i < j /\ q[i].from = q[j].from => q[i].n < q[j].n

\* Chunks of one viewer reach a PTY in the order its stream carried them, none
\* twice, through two queues, three tasks and their coalescing.
\* ("reaches the PTY in the exact order it was sent")
InputInOrder == \A s \in SessionIds : InSentOrder(pty[s])

\* A channel of the table is left to a window manager that has gone, its
\* eviction over, only if that window manager was not bound to the channel when
\* it went: subscriptions, collections and creations of the name in between, and
\* other window managers, do not get in the way of the revert.
\* (evict_conn, past the early return for an unbound connection)
RawAfterBoundWm ==
  \A n \in Names :
    LET x == chanMap[n] IN
    x # None /\ mode[x] # Absent
      => LET w == mode[x] IN
         w \in online \/ leaving[w] # Absent \/ wasBound[w] # n

-----------------------------------------------------------------------------
(* What the documentation says and the code does not do.                   *)

\* A channel of the table takes raw input again once its window manager has
\* gone and its eviction is over.
\* ("If the disconnected client was the internal WM, revert to RawPty mode")
RawAfterWm ==
  \A n \in Names :
    LET x == chanMap[n] IN
    x # None /\ mode[x] # Absent
      => mode[x] \in online \/ leaving[mode[x]] # Absent

\* The raw input of a channel that has a window manager is suppressed.
\* ("structured events go to IPC subscriber, raw PTY bytes suppressed")
SuppressedForWm ==
  \A n \in Names :
    chanMap[n] # None /\ mode[chanMap[n]] # Absent => n \in internal

\* A channel that takes raw input is not deaf to it: its name is suppressed at
\* most until the eviction of its window manager is over.
\* ("Channel names with active internal WMs. Checked by StreamInput.")
NeverDeaf ==
  \A n \in internal :
    LET x == chanMap[n] IN
    x # None /\ mode[x] = Absent => \E w \in Wms : unmarking[w] = n

\* A forwarder of a connection whose Attach is over does not feed the channel
\* of another name.
\* ("a re-attach to a different channel invalidates cached_tx and forces
\* fresh target resolution")
ForwarderFollowsBinding ==
  \A c \in Viewers :
    /\ attaching[c] = Absent /\ bound[c] # Absent
    /\ fwd[c] # None /\ task[fwd[c]].cached # None
    => \A n \in Names \ {bound[c]} : chanMap[n] # task[fwd[c]].cached

\* Nothing a client types after KillClient evicted it reaches a session.
\* ("authoritatively evict connections and cancel their tasks")
EvictedAreMute ==
  \A s \in SessionIds : \A i \in 1..Len(pty[s]) : ~pty[s][i].late

\* A window manager receives one viewer's events in the order they were sent.
\* ("preserving discrete-event ordering")
AttributedInOrder == \A w \in Wms : InSentOrder(wmGot[w])
=============================================================================
