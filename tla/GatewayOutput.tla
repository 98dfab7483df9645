---------------------------- MODULE GatewayOutput ---------------------------
(***************************************************************************)
(* Output streams of one channel of the session gateway:                   *)
(* crates/term-session-server/src/session_server.rs and session.rs.        *)
(*                                                                         *)
(* The PTY's reader thread appends chunks to `pending`, which it clears    *)
(* beyond a cap, feeds them to the emulator and parks after a burst that   *)
(* nobody has rendered, with `pending` still locked.  The channel's polling *)
(* task drains `pending` to its subscribers, or leaves it alone when there *)
(* are none; a new subscriber gets a snapshot of the emulator and what is  *)
(* pending; the end of the session ends every stream.  All of them but the *)
(* reader hold the channel lock, in steps where the reader may come in     *)
(* between: whoever reads takes `dirty` back first, and then waits for the *)
(* lock of `pending`.                                                      *)
(*                                                                         *)
(* Chunk n of session s is [of |-> s, n |-> n].  The channel is that of    *)
(* Gateway between two collections; the reader is that of PtyReader, whose *)
(* condition variable is here the guard of ReaderGoOn.                     *)
(***************************************************************************)
EXTENDS Naturals, Sequences, SequencesExt

CONSTANTS
  Viewers,      \* connections that subscribe, each once
  MaxSessions,  \* bound on the sessions ever spawned
  MaxChunks,    \* bound on the chunks the first session writes; each later one, two less
  PendingCap,   \* PENDING_CAP
  Budget,       \* IO_BURST_BUDGET
  RetainCap,    \* MAX_RETAINED_OUTPUT_BYTES
  GraceEnough,  \* does the reader always finish within READER_DRAIN_GRACE?
  Leavers       \* connections that may close or be killed; KillChannel, if there are any

ASSUME OutputAssumption ==
  /\ MaxSessions \in Nat /\ MaxChunks \in Nat /\ RetainCap \in Nat
  /\ PendingCap \in Nat \ {0} /\ Budget \in Nat \ {0}
  /\ GraceEnough \in BOOLEAN /\ Leavers \subseteq Viewers

VARIABLES
  session,     \* ChannelState::session, 0 for None
  spawned,     \* sessions spawned so far
  dead,        \* the child of the session has exited
  written,     \* chunks the latest session has written
  appended,    \* chunks its reader thread has appended to pending
  rpc,         \* where its reader thread is
  unrendered,  \* bytes_since_render
  dirty,       \* Pty::dirty
  pending,     \* Pty::pending
  cache,       \* ChannelState::output_cache
  bound,       \* connections of the routing table
  subscribers, \* ChannelState::subscribers
  sub,         \* where the SubscribeOutput task of a connection is
  early,       \* what that task has drained for its connection
  stream,      \* what a connection's output stream has carried
  poll,        \* where the polling task is
  raw,         \* what it has drained for the subscribers
  evicting,    \* KillClient between the routing table and the channel
  killing,     \* KillChannel is reading the last output
  handed,      \* history: chunks of the latest session that were drained while it lived
  dropped,     \* history: chunks of the latest session that the cap of pending has cleared
  quiet        \* history: the latest session ended without subscribers

lifeVars  == <<session, spawned, dead, written>>
ptyVars   == <<lifeVars, appended, rpc, unrendered, pending, dropped>>
subVars   == <<sub, early>>
pollVars  == <<poll, raw, quiet>>
otherVars == <<bound, evicting, killing>>
vars == <<ptyVars, dirty, cache, subscribers, subVars, stream, pollVars, otherVars,
          handed>>

Init ==
  /\ session = 0 /\ spawned = 0 /\ dead = FALSE
  /\ written = 0 /\ appended = 0 /\ rpc = "read" /\ unrendered = 0
  /\ pending = <<>> /\ dropped = {} /\ dirty = FALSE
  /\ cache = <<>>
  /\ bound = Viewers
  /\ subscribers = {}
  /\ sub = [v \in Viewers |-> "none"]
  /\ early = [v \in Viewers |-> <<>>]
  /\ stream = [v \in Viewers |-> <<>>]
  /\ poll = "idle" /\ raw = <<>>
  /\ evicting = {} /\ killing = FALSE
  /\ handed = {}
  /\ quiet = FALSE

\* The reader holds the lock of `pending`, to the end of its turn.
Held == rpc # "read"

\* It has had a burst that nobody has rendered, and waits until somebody does.
Parked == rpc = "check" /\ unrendered >= Budget /\ dirty

\* The chunks the emulator has processed.
Screened == IF rpc = "parse" THEN appended - 1 ELSE appended

\* Nobody holds the channel lock.
Unlocked ==
  /\ poll = "idle" /\ ~killing
  /\ \A v \in Viewers : sub[v] \notin {"take", "look", "snap"}

Data(q) == [i \in 1..Len(q) |-> [kind |-> "data", of |-> q[i].of, n |-> q[i].n]]
Eof     == <<[kind |-> "eof", of |-> spawned, n |-> 0]>>

\* Every subscriber gets items q.
Broadcast(q) ==
  stream' = [v \in Viewers |->
               IF v \in subscribers THEN stream[v] \o q ELSE stream[v]]

-----------------------------------------------------------------------------
(* The child and the reader thread.                                        *)

Write ==
  /\ session # 0 /\ ~dead
  /\ 2 * (spawned - 1) + written < MaxChunks
  /\ written' = written + 1
  /\ UNCHANGED <<session, spawned, dead, appended, rpc, unrendered, pending, dropped,
                 dirty, cache, subscribers, subVars, stream, pollVars, otherVars,
                 handed>>

Die ==
  /\ session # 0 /\ ~dead
  /\ dead' = TRUE
  /\ UNCHANGED <<session, spawned, written, appended, rpc, unrendered, pending,
                 dropped, dirty, cache, subscribers, subVars, stream, pollVars,
                 otherVars, handed>>

\* A chunk is read and appended; beyond the cap everything pending is dropped, the
\* chunk included.
ReaderAppend ==
  /\ session # 0
  /\ rpc = "read"
  /\ appended < written
  /\ appended' = appended + 1
  /\ rpc' = "parse"
  /\ unrendered' = unrendered + 1
  /\ LET all == Append(pending, [of |-> session, n |-> appended + 1]) IN
     IF Len(all) > PendingCap
     THEN pending' = <<>> /\ dropped' = dropped \cup ToSet(all)
     ELSE pending' = all /\ dropped' = dropped
  /\ UNCHANGED <<lifeVars, dirty, cache, subscribers, subVars, stream, pollVars,
                 otherVars, handed>>

\* The emulator processes it; the first chunk after a rendering starts a new burst.
ReaderParse ==
  /\ session # 0
  /\ rpc = "parse"
  /\ rpc' = "check"
  /\ dirty' = TRUE
  /\ unrendered' = IF dirty THEN unrendered ELSE 0
  /\ UNCHANGED <<lifeVars, appended, pending, dropped, cache, subscribers, subVars,
                 stream, pollVars, otherVars, handed>>

\* The turn ends, and the lock is released, unless the burst is over the budget.
ReaderGoOn ==
  /\ session # 0
  /\ rpc = "check" /\ ~Parked
  /\ rpc' = "read"
  /\ unrendered' = IF unrendered >= Budget THEN 0 ELSE unrendered
  /\ UNCHANGED <<lifeVars, appended, pending, dropped, dirty, cache, subscribers,
                 subVars, stream, pollVars, otherVars, handed>>

-----------------------------------------------------------------------------
(* Handlers.                                                               *)

\* Spawn of a session where there is none: the retained output is cleared.
Spawn(v) ==
  /\ v \in bound
  /\ Unlocked
  /\ session = 0
  /\ spawned < MaxSessions
  /\ spawned' = spawned + 1
  /\ session' = spawned + 1
  /\ dead' = FALSE
  /\ written' = 0 /\ appended' = 0 /\ rpc' = "read" /\ unrendered' = 0
  /\ pending' = <<>> /\ dirty' = FALSE
  /\ cache' = <<>>
  /\ quiet' = FALSE
  /\ dropped' = {} /\ handed' = {}
  /\ UNCHANGED <<subscribers, subVars, stream, poll, raw, otherVars>>

\* SubscribeOutput: the header of the stream starts a task ...
SubOpen(v) ==
  /\ v \in bound
  /\ sub[v] = "none"
  /\ sub' = [sub EXCEPT ![v] = "lookup"]
  /\ UNCHANGED <<ptyVars, dirty, cache, subscribers, early, stream, pollVars,
                 otherVars, handed>>

\* ... which looks for the channel of the connection and may find none ...
SubLookup(v) ==
  /\ sub[v] = "lookup"
  /\ sub' = [sub EXCEPT ![v] = IF v \in bound THEN "lock" ELSE "lost"]
  /\ UNCHANGED <<ptyVars, dirty, cache, subscribers, early, stream, pollVars,
                 otherVars, handed>>

\* ... takes what is retained and, of a session that lives, begins to read ...
SubLock(v) ==
  /\ sub[v] = "lock"
  /\ Unlocked
  /\ sub' = [sub EXCEPT ![v] = IF session = 0 THEN "snap" ELSE "take"]
  /\ early' = [early EXCEPT ![v] = cache]
  /\ dirty' = FALSE
  /\ UNCHANGED <<ptyVars, cache, subscribers, stream, pollVars, otherVars,
                 handed>>

\* ... what is pending ...
SubTake(v) ==
  /\ sub[v] = "take"
  /\ ~Held
  /\ sub' = [sub EXCEPT ![v] = "look"]
  /\ early' = [early EXCEPT ![v] = @ \o pending]
  /\ pending' = <<>>
  /\ handed' = handed \cup ToSet(pending)
  /\ UNCHANGED <<lifeVars, appended, rpc, unrendered, dropped, dirty, cache,
                 subscribers, stream, pollVars, otherVars>>

\* ... renders once more, for the snapshot ...
SubLook(v) ==
  /\ sub[v] = "look"
  /\ sub' = [sub EXCEPT ![v] = "snap"]
  /\ dirty' = FALSE
  /\ UNCHANGED <<ptyVars, cache, subscribers, early, stream, pollVars,
                 otherVars, handed>>

\* Fault: the end of a dead session goes out first.
SubSnapEofFirst(v) ==
  /\ sub[v] = "snap"
  /\ sub' = [sub EXCEPT ![v] = "on"]
  /\ early' = [early EXCEPT ![v] = <<>>]
  /\ subscribers' = subscribers \cup {v}
  /\ stream' = [stream EXCEPT ![v] = IF session = 0 THEN Eof \o Data(early[v])
                                     ELSE @ \o Data(early[v])]
  /\ UNCHANGED <<ptyVars, dirty, cache, pollVars, otherVars, handed>>

\* ... and sends it all after a snapshot of the emulator; a dead session ends the
\* stream at once, though its subscriber stays until the polling task looks.
SubSnap(v) ==
  /\ sub[v] = "snap"
  /\ sub' = [sub EXCEPT ![v] = "on"]
  /\ early' = [early EXCEPT ![v] = <<>>]
  /\ subscribers' = subscribers \cup {v}
  /\ LET snap == <<[kind |-> "snap", of |-> session, n |-> Screened]>>
         all  == Data(early[v]) IN
     stream' = [stream EXCEPT ![v] =
                  @ \o IF session = 0 THEN all \o Eof ELSE snap \o all]
  /\ UNCHANGED <<ptyVars, dirty, cache, pollVars, otherVars, handed>>

\* KillClient, first part: the connection leaves the routing table ...
KillClient(v) ==
  /\ v \in Leavers \cap bound
  /\ bound' = bound \ {v}
  /\ evicting' = evicting \cup {v}
  /\ UNCHANGED <<ptyVars, dirty, cache, subscribers, subVars, stream, pollVars, killing,
                 handed>>

\* ... and then the channel; its stream is ended.
KillPrune(v) ==
  /\ v \in evicting
  /\ Unlocked
  /\ evicting' = evicting \ {v}
  /\ subscribers' = subscribers \ {v}
  /\ stream' = [stream EXCEPT ![v] = IF v \in subscribers THEN @ \o Eof ELSE @]
  /\ UNCHANGED <<ptyVars, dirty, cache, subVars, pollVars, bound, killing, handed>>

\* KillChannel: finalize_subscribers begins to read, even for nobody ...
KillChannel ==
  /\ Leavers # {}
  /\ Unlocked
  /\ session # 0
  /\ killing' = TRUE
  /\ dirty' = FALSE
  /\ UNCHANGED <<ptyVars, cache, subscribers, subVars, stream, pollVars, bound, evicting,
                 handed>>

\* ... drains what is pending and ends the streams; the session dies in its own time.
KillTake ==
  /\ killing
  /\ ~Held
  /\ killing' = FALSE
  /\ Broadcast(Data(pending) \o Eof)
  /\ pending' = <<>>
  /\ handed' = handed \cup ToSet(pending)
  /\ subscribers' = {}
  /\ UNCHANGED <<lifeVars, appended, rpc, unrendered, dropped, dirty, cache, subVars,
                 pollVars, bound, evicting>>

\* Without a session there are only streams to end.
KillDead ==
  /\ Leavers # {}
  /\ Unlocked
  /\ session = 0
  /\ Broadcast(Eof)
  /\ subscribers' = {}
  /\ UNCHANGED <<ptyVars, dirty, cache, subVars, pollVars, otherVars, handed>>

\* evict_conn of a connection that closed: no end of stream is sent.
Disconnect(v) ==
  /\ v \in Leavers \cap bound
  /\ Unlocked
  /\ bound' = bound \ {v}
  /\ subscribers' = subscribers \ {v}
  /\ UNCHANGED <<ptyVars, dirty, cache, subVars, stream, pollVars, evicting, killing,
                 handed>>

-----------------------------------------------------------------------------
(* The polling task.                                                       *)

\* The Pty goes with its session, and takes the reader and what is pending with it.
SessionOver ==
  /\ session' = 0
  /\ pending' = <<>> /\ rpc' = "read" /\ unrendered' = 0 /\ dirty' = FALSE
  /\ UNCHANGED <<spawned, dead, written, appended, dropped>>

\* Subscribers, and no session: what lingers is finalized.
PollDead ==
  /\ Unlocked
  /\ subscribers # {} /\ session = 0
  /\ Broadcast(Eof)
  /\ subscribers' = {}
  /\ UNCHANGED <<ptyVars, dirty, cache, subVars, pollVars, otherVars, handed>>

\* Subscribers, and a session: read_output renders, and wakes the reader ...
PollRead ==
  /\ Unlocked
  /\ subscribers # {} /\ session # 0
  /\ poll' = "take"
  /\ dirty' = FALSE
  /\ UNCHANGED <<ptyVars, cache, subscribers, subVars, stream, raw, quiet, otherVars,
                 handed>>

\* ... and drains, once the lock of `pending` is free.
PollTake ==
  /\ poll = "take"
  /\ ~Held
  /\ poll' = "send"
  /\ raw' = pending
  /\ pending' = <<>>
  /\ handed' = handed \cup ToSet(pending)
  /\ UNCHANGED <<lifeVars, appended, rpc, unrendered, dropped, dirty, cache,
                 subscribers, subVars, stream, quiet, otherVars>>

\* Fault: the streams of a session that is over are left open.
PollSendOpen ==
  /\ poll = "send"
  /\ poll' = "idle"
  /\ raw' = <<>>
  /\ Broadcast(Data(raw))
  /\ IF dead THEN SessionOver /\ subscribers' = {}
     ELSE UNCHANGED <<ptyVars, dirty, subscribers>>
  /\ UNCHANGED <<cache, subVars, quiet, otherVars, handed>>

\* Then check_exited; the output goes out and, if the child is gone, the end.
PollSend ==
  /\ poll = "send"
  /\ poll' = "idle"
  /\ raw' = <<>>
  /\ Broadcast(Data(raw) \o IF dead THEN Eof ELSE <<>>)
  /\ IF dead THEN SessionOver /\ subscribers' = {}
     ELSE UNCHANGED <<ptyVars, dirty, subscribers>>
  /\ UNCHANGED <<cache, subVars, quiet, otherVars, handed>>

\* No subscribers: sync_screen renders, and what is pending stays where it is, until
\* the child is gone.
PollUnheard ==
  /\ Unlocked
  /\ subscribers = {} /\ session # 0
  /\ poll' = IF dead THEN "final" ELSE "idle"
  /\ dirty' = FALSE
  /\ UNCHANGED <<ptyVars, cache, subscribers, subVars, stream, raw, quiet, otherVars,
                 handed>>

\* Then read_final_output renders once more ...
PollJoin ==
  /\ poll = "final"
  /\ poll' = "join"
  /\ dirty' = FALSE
  /\ UNCHANGED <<ptyVars, cache, subscribers, subVars, stream, raw, quiet, otherVars,
                 handed>>

\* Fault: everything is retained.
RetainedAll(q) == q

\* The tail of q that the cap allows.
Retained(q) ==
  IF Len(q) > RetainCap THEN SubSeq(q, Len(q) - RetainCap + 1, Len(q)) ELSE q

\* Fault: the final output is drained without waiting for the reader.
PollFinalHasty ==
  /\ poll = "join"
  /\ ~Held
  /\ poll' = "idle"
  /\ cache' = Retained(cache \o pending)
  /\ SessionOver
  /\ quiet' = TRUE
  /\ UNCHANGED <<subscribers, subVars, stream, raw, otherVars, handed>>

\* ... waits for the reader, within its grace, and drains; the last of it is retained.
PollFinal ==
  /\ poll = "join"
  /\ ~Held
  /\ appended = written \/ ~GraceEnough
  /\ poll' = "idle"
  /\ cache' = Retained(cache \o pending)
  /\ SessionOver
  /\ quiet' = TRUE
  /\ UNCHANGED <<subscribers, subVars, stream, raw, otherVars, handed>>

-----------------------------------------------------------------------------

Reader == ReaderAppend \/ ReaderParse \/ ReaderGoOn
Poll ==
  \/ PollDead \/ PollRead \/ PollTake \/ PollSend
  \/ PollUnheard \/ PollJoin \/ PollFinal
Task(v) ==
  \/ SubLookup(v) \/ SubLock(v) \/ SubTake(v) \/ SubLook(v) \/ SubSnap(v)
  \/ KillPrune(v)

Next ==
  \/ Write \/ Die \/ Reader \/ Poll \/ KillChannel \/ KillTake \/ KillDead
  \/ \E v \in Viewers : \/ Spawn(v) \/ SubOpen(v) \/ Task(v)
                        \/ KillClient(v) \/ Disconnect(v)

Spec == Init /\ [][Next]_vars

\* The reader is a thread, the polling task wakes up by itself every 100 ms at
\* the least, and the tasks of the handlers are run; a child may run for ever.
\* The channel lock is fair, so the polling task gets it, however often others
\* take it ...
FairSpec ==
  /\ Spec
  /\ WF_vars(Reader) /\ SF_vars(Poll) /\ WF_vars(KillTake)
  /\ \A v \in Viewers : WF_vars(Task(v))

\* ... and so do the tasks of the handlers.
FairLockSpec == FairSpec /\ \A v \in Viewers : SF_vars(Task(v))

-----------------------------------------------------------------------------
(* What the streams promise.                                               *)

ChunkIds == [of : 1..MaxSessions, n : 1..MaxChunks]
Items    == [kind : {"snap", "data", "eof"}, of : 0..MaxSessions, n : 0..MaxChunks]

\* Every variable has its type; what is pending and what is retained have their caps,
\* a burst has its budget.
OutputTypeOK ==
  /\ session \in {0, spawned} /\ spawned \in 0..MaxSessions /\ dead \in BOOLEAN
  /\ written \in 0..MaxChunks /\ appended \in 0..written /\ Screened \in 0..appended
  /\ rpc \in {"read", "parse", "check"} /\ unrendered \in 0..Budget /\ dirty \in BOOLEAN
  /\ ToSet(pending \o cache \o raw) \subseteq ChunkIds
  /\ Len(pending) <= PendingCap /\ Len(cache) <= RetainCap
  /\ bound \subseteq Viewers /\ evicting \subseteq Viewers \ bound
  /\ subscribers \subseteq Viewers
  /\ sub \in [Viewers -> {"none", "lookup", "lost", "lock", "take", "look", "snap",
                      "on"}]
  /\ \A v \in Viewers : ToSet(early[v]) \subseteq ChunkIds /\ ToSet(stream[v]) \subseteq Items
  /\ poll \in {"idle", "take", "send", "final", "join"}
  /\ quiet \in BOOLEAN /\ killing \in BOOLEAN
  /\ handed \subseteq ChunkIds /\ dropped \subseteq ChunkIds

Before(a, b) == a.of < b.of \/ (a.of = b.of /\ a.n < b.n)

\* The output in a stream is in order and without repetition, whatever part of
\* it came from the retained output, from the subscription or from the poll; none of
\* it is of an earlier session than the snapshot before it, and no output of a session
\* follows the end of its stream.  (Of the snapshot's own session a chunk that the
\* snapshot shows already may follow it.)
\* ("A respawned session must not replay the previous session's retained final
\* output to new subscribers", "cannot interleave an EOF ahead of this
\* subscriber's data")
StreamsOrdered ==
  \A v \in Viewers : \A i, j \in 1..Len(stream[v]) :
    LET a == stream[v][i]
        b == stream[v][j]
    IN i < j /\ b.kind # "eof" => /\ a.kind = "data" => Before(a, b)
                                  /\ a.kind = "eof"  => a.of < b.of
                                  /\ a.kind = "snap" => a.of <= b.of

\* One of more chunks in a row than may be pending, which went all at once.
Overrun(n) ==
  \E m \in 1..MaxChunks :
    /\ m - PendingCap <= n /\ n <= m
    /\ \A i \in (m - PendingCap)..m : [of |-> spawned, n |-> i] \in dropped

\* Of a session that ended without subscribers every chunk was drained while it lived
\* or is retained, but for those older than what the cap of the retained output keeps,
\* and for a full buffer that the reader dropped in one piece.
\* ("must still receive the session's final output")
LateSubscribersGetTheTail ==
  quiet /\ session = 0 =>
    \A n \in 1..written :
      LET c == [of |-> spawned, n |-> n] IN
      \/ c \in handed \/ Contains(cache, c)
      \/ Len(cache) = RetainCap /\ (cache = <<>> \/ n < Head(cache).n)
      \/ Overrun(n)

Ended(v) == \E i \in 1..Len(stream[v]) : stream[v][i].kind = "eof"

\* Whoever holds the channel lock waits for that of `pending`, which the parked reader
\* holds; only the one who waits could wake it.
Stuck ==
  /\ Parked
  /\ poll \in {"take", "join"} \/ killing \/ \E v \in Viewers : sub[v] = "take"

\* A child that is gone ends the stream of everyone who is subscribed, unless the
\* channel is stuck.
\* ("finalizes every subscriber's output stream when the PTY child exits")
StreamsEnd ==
  \A v \in Viewers :
    sub[v] = "on" /\ session # 0 /\ dead ~> Ended(v) \/ v \notin bound \/ Stuck

-----------------------------------------------------------------------------
(* What the documentation says and the code does not do.                   *)

\* A child that is gone ends the stream of everyone who is subscribed.
\* ("finalizes every subscriber's output stream when the PTY child exits")
ExitEndsStreams ==
  \A v \in Viewers :
    sub[v] = "on" /\ session # 0 /\ dead ~> Ended(v) \/ v \notin bound

\* Of a session that ended without subscribers the newest output is retained, up to
\* the cap, except what was drained while it lived.
\* ("Only the last `MAX_RETAINED_OUTPUT_BYTES` of the session's final output are kept")
NewestRetained ==
  quiet /\ session = 0 =>
    \A n \in 1..written :
      LET c == [of |-> spawned, n |-> n] IN
      n + RetainCap > written => c \in handed \/ Contains(cache, c)

\* The stream of v begins with a snapshot of session s; chunks after it.
SinceSnapshot(v, s, last) ==
  IF stream[v] # <<>> /\ Head(stream[v]).kind = "snap" /\ Head(stream[v]).of = s
  THEN (Head(stream[v]).n + 1)..last ELSE {}

Carries(v, s, n) ==
  \E j \in 1..Len(stream[v]) : stream[v][j] = [kind |-> "data", of |-> s, n |-> n]

\* While its session lives a subscriber has had, or will have, every chunk that
\* was appended since its snapshot.
\* ("broadcasts each chunk of PTY output to all subscribed clients")
NothingMissed ==
  \A v \in subscribers : session # 0 =>
    \A n \in SinceSnapshot(v, session, appended) :
      LET c == [of |-> session, n |-> n] IN
      Contains(pending, c) \/ Contains(raw, c) \/ Carries(v, session, n)

\* A stream that its session's exit has ended carries the last chunk of it.
\* ("broadcasts each chunk of PTY output to all subscribed clients")
NothingTruncated ==
  \A v \in Viewers :
    session = 0 /\ ~quiet /\ spawned > 0 /\ Ended(v)
      => \A n \in SinceSnapshot(v, spawned, written) : Carries(v, spawned, n)

\* Only connections that are still there, or are being evicted, are subscribed.
\* A subscriber that is not there makes the poll drain output that would be
\* retained otherwise.
\* ("prune it from its bound channel's client/subscriber maps (authoritative
\* teardown on disconnect)")
OnlyBoundAreSubscribed == subscribers \subseteq bound \cup evicting

\* The stream of a client that was killed ends.
\* ("killed socket stream should end")
KilledStreamsEnd ==
  \A v \in Viewers : sub[v] # "none" /\ v \in evicting ~> Ended(v)
=============================================================================
