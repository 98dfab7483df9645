# term-wm in TLA+

term-wm is a terminal window manager whose sessions outlive the terminals that
show them. A daemon, the *session gateway*, hosts every session; viewers attach
to it, locally or over SSH; an application in a session may itself be the
window manager of a workspace. This directory holds TLA+ modules of the parts
where the order of steps decides what is right, TLC configurations that check
them on small instances, and proofs about them for all instances.

Paths below are relative to the repository's root.

## 1. Inventory

### Modelled

**Session gateway, life cycle** (`crates/term-session-server/src/session_server.rs`,
`session.rs`). *State*: the routing table `conns`, the channel table `channels`,
per channel an `Arc<Mutex<ChannelState>>` with its session, clients,
`kill_pending` and the tombstone `is_reaped`; the seal `is_shutting_down`.
*Operations*: `Attach`, `Spawn`, `CloseSession`, `KillChannel`, `KillClient`,
`ShutdownGateway`, connection and disconnection events, the polling task of each
channel with its GC, and the detached kill escalation. *Hard*: every handler is
a task that takes and drops locks several times; what it looked up in one
section may be gone in the next. *Correct when*: one instance per name, no live
session lost, kills end, idle channels go, clients that left are forgotten.

**Session gateway, input routing** (same file). *State*: `input_forwarders`,
`conn_to_channel`, `internal_channels`, the channel's `input_mode` and input
queue. *Operations*: `StreamInput`, the drain task of a connection, the writer
task of a channel, `SubscribeInternalInput`, `SendAttributedInput`, and the parts
of `Attach`, `KillClient`, `evict_conn` and the GC that touch that state. *Hard*:
two bounded queues and three tasks between the socket and the PTY, each with its
own idea of the current target. *Correct when*: input arrives in order and once,
at the channel that is bound, in the mode the channel is in.

**Session gateway, output streams** (same file). *State*: `subscribers`,
`output_cache`, and the `pending` bytes and emulator of the session. *Operations*:
`SubscribeOutput`, the polling task, retention of the last output, end of stream,
eviction. *Hard*: the reader thread appends while the polling task drains and a
new subscriber takes a snapshot. *Correct when*: a stream is in order, complete
from its snapshot on, and ends exactly once its session has.

**Session gateway, geometry** (same file; the viewer's half in
`crates/term-session-client/src/lib.rs`, `remote_pane.rs`). *State*: the size each
client has reported, the session's size, `Pty::pending_resize`, the three atomics
and the emulator of a viewer. *Operations*: the sections of `Spawn`, `ResizePty`,
`KillClient` and `evict_conn` that recalculate, `notify_clients`, the
`OnPtyResized` handler, `apply_pending_resize`, `RemotePane::resize`. *Hard*: the
decision is made under the lock, the viewers are told after it; reply and
notification reach a viewer by different ways. *Correct when*: the session fits
every viewer, and PTY and emulators end up with the session's size.

**PTY engine: reader thread and owner** (`crates/term-wm-pty-engine/src/pty.rs`).
*State*: `pending`, the emulator, `dirty` with its condition variable, the wake
pipe, the pending resize, the exit latch and the callback. *Operations*: the
reader's loop; `screen`, `drain_pending`, `drain_final_output`, `has_exited`,
`set_status_callback`, `resize`, `into_parts`. *Hard*: two threads, a lock, atomics, a
condition variable and an edge-triggered callback. *Correct when*: no wakeup is
lost, the exit is told once, a resize is not starved, nobody waits for ever.

**Event loop and frame pacing** (`crates/term-wm-core/src/runner.rs`,
`event_loop.rs`, `io/frame_pacer.rs`, `src/unified_event_source.rs`). *State*: the
unified channel, the console's channel, the source's sets of dirty, exited and
mode-changed windows, its input buffer, two pacers, the next sleep. *Operations*:
`poll`, `read` and `drain_pending` of the source, the handler's phases, the
draw of each window, the readers' wakeups. *Hard*: wakeups are edge-triggered, deadlines may pass
between two reads of the clock, a frame may panic half way. *Correct when*: what
is written appears, the loop never sleeps over work, input keeps its order.

**Task scheduler and debouncers** (`crates/term-wm-core/src/task_scheduler.rs`,
`utils/debounce`, the `SystemTask`s of `window/window_manager/mod.rs` and
`runner.rs`). *State*: the timer heap, cancelled identifiers; per window the armed toast, the
notification queue, the drag timer, the outline. *Operations*: `schedule`, `cancel`,
`drain_expired`, `time_until_next`, and every place that arms, disarms or handles a
system task. *Hard*: cancellation is lazy, a drain runs while time goes on, what
fired may be cancelled before it is handled. *Correct when*: a cancelled task
never fires, what is shown for a time goes away, only a resting drag snaps.

**Windows, focus and z-order** (`crates/term-wm-core/src/window`). *State*: window states,
the tiling tree, floating rectangles, remembered Voids, stacking order, draw order,
focus ring, regions, the mouse drag. *Operations*: opening, closing, minimizing, maximizing,
restoring, tiling, floating, focusing, dragging with snap previews, child exits, frames.
*Hard*: the same windows are kept in several lists, and any sequence of legal commands
must keep them in step. *Correct when*: no mapped window loses its place, its layer or its turn
at Tab, and no two windows wait for the same placeholder.

**Layout engine** (`crates/term-wm-layout-engine/src/tiling.rs`, `split.rs`,
`crates/term-wm-core/src/layout/tiling.rs`). *State*: the tree of leaves, Voids and weighted splits; a held
split handle. *Operations*: insertions at a leaf, at a side, in a corner and balanced, removal with its
clean-up, Voids, dragging. *Hard*: one removal collapses several levels and re-weights the rest; integer
shares round. *Correct when*: the parts cover the area without overlap, edits touch nothing
else, and the tree is the plain store its users take it for.

### Not modelled

| component | state and operations | why not |
|---|---|---|
| gateway locks (`session_server.rs` 160-184) | eight locks, several held at once in `Attach` and the GC | `Gateway` gives each lock section as one action; which lock is waited for with which in hand is planned (`GatewayLocks`) |
| reaper (`term-wm-core/src/reaper.rs`) | zombies, a bounded channel, one thread that joins readers | planned (`Reaper`); its worst case, a parked reader that never ends, is in `PtyReader` (`ReaderEnds` under `PtyLetsGo.cfg`) |
| session client but for its geometry (`term-session-client`) | raw mode, input coalescing, rebinding, rendering | planned (`SessionClient`) |
| auto-start (`term-session/src/auto_spawn.rs`) | probe, spawn, poll for death, time out | planned (`AutoSpawn`); the one-shot commands are the admin connections of `Gateway` |
| clipboard, wire definitions, escape parsers and encoders | sequential functions of bytes | covered by the repository's table tests; the modules take decoded requests |
| console backend, crossterm adapter, descriptor redirection | terminal I/O | the console reader's channel is in `EventLoop`; the rest only writes to the terminal |
| widgets, views, palette, configuration, `main` | sequential state and drawing | covered by snapshot tests; palette commands are the operations of `WindowManager` |
| benchmark, demo, test doubles | - | not part of the program |

Inside the modelled components: the `note` of each in `PROJECT.json` says what is left
out. The larger omissions: `WriteInput`, which no client of the repository calls; the Windows half of the reader
loop; monocle and shaded windows, tap swap, resizing and the previews of `WindowManager`;
`from_rects`, `swap_leaves`, the fixed-size plans of `node.rs` and snap geometry of the layout
engine; quitting and a panicking handler of `EventLoop`; viewers that hang up in the middle
of a call in `Geometry` (they are in `Gateway`, without sizes).

### How the parts interact

Viewers and one-shot commands call the gateway over a socket (RPC and streams);
the gateway calls them back (`OnPtyResized`, `OnAttributedInput`, output chunks).
The gateway owns PTYs: it renders and drains them from its polling tasks and
handlers, under the channel lock, and a PTY's reader thread wakes the polling task
through a callback. The window manager owns PTYs the same way from its event
loop, whose channel the readers wake; the loop drains the scheduler, hands events to
the window manager, and draws. The window manager keeps the tree of the layout engine, and
hands the PTYs of closed windows to the reaper.

## 2. Modules

| module | models | composed with |
|---|---|---|
| `ChannelBook` | what the gateway promises about its channels | - |
| `Gateway` | life cycle of channels, sessions, clients, connections | implements `ChannelBook` under `Book` |
| `GatewayInput` | input routing, over a coarser life cycle | the life cycle is `Gateway`'s, with lookup and creation in one step |
| `GatewayOutput` | output streams of one channel between two collections | the reader is `PtyReader`'s, with its budget and cap, for owners that hold the channel lock |
| `Geometry` | sizes of one channel, its PTY and its viewers' emulators | sections as in `Gateway`; the drain boundary is `PtyReader`'s |
| `PtyReader` | reader thread and owner of a PTY | - |
| `EventLoop` | the loop, the unified source, the pacers, the readers' wakeups | the readers are `PtyReader`'s, seen from the renderer |
| `Timers` | what the scheduler promises: a set of timers | - |
| `Scheduler` | the heap with lazy cancellation | implements `Timers` under `TimerSet` |
| `SystemTasks` | toasts, notifications, drags and outlines on the scheduler | extends `Scheduler` |
| `Tiling` | the tiling tree reduced to what it holds, as operators | - |
| `TilingStore` | a state machine of those operators | uses `Tiling` |
| `Splits` | the arithmetic of splits: sizes, gaps, the places in a whole tree, a dragged pair | - |
| `LayoutTree` | the tree itself and its edits | uses `Splits`, implements `TilingStore` under `Store` |
| `WindowManager` | windows, orders, focus, drags | built from `Tiling` |
| `*Proofs` | theorems about `Gateway`, `GatewayInput`, `GatewayOutput`, `PtyReader`, `EventLoop`, `SystemTasks`, `Geometry` with `Splits`, `WindowManager` | extend them |
| `MC*` | model values, symmetry sets and a view for TLC | extend the above |

**One action is one lock section, or one step between two places where another thread may
come in.** In `Gateway` a call in flight is a record `call[c]` with the next lock section
(`pc`) and what the handler keeps in locals (`ch` the instance it holds an `Arc` of,
`targets`, `todo`). A channel instance is a number; `chanMap` says which instance a name
has now, so that a handler may hold one that has been collected, as the code may. An early
return is a disjunct that ends the call. `killPending`, `esc` and `procs` are the kill
protocol: `SIGTERM` (`terminating`), the grace of the escalation task, `SIGKILL`. A signal goes to
the group that is in the foreground of the terminal at that moment, while the exit is watched on the child: `SIGTERM`
may or may not end the session, and the one `SIGKILL` ends it (`killed`) or hits a job in the foreground and lets the session
live on (`outlived`), with nothing armed any more.
`GatewayInput` keeps each task's locals (`cached`, `batch`) the same way. `GatewayOutput`
has the subscription task (`sub`), the poll (`poll`), a kill (`killing`) and the reader (`rpc`), which holds the lock of
`pending` from its append to the end of its burst (`Held`) and may park with it (`Parked`). Those who hold the channel lock take
several steps, between which the reader may come in: `dirty` is taken back first and `pending` is drained after that
(`PollRead` and `PollTake`, `SubLock` and `SubTake`, `KillChannel` and `KillTake`, `PollUnheard` and `PollJoin`), and the drain
waits for `~Held`; the condition variable is the guard of `ReaderGoOn`. `Geometry` has the section, the notifications and the reply of a call (`call[v].at`). In
`PtyReader` the reader's program counter names the places where another thread may come
in; the owner's (`opc`) the places inside `screen` and the drains. In `EventLoop` `pc` is
the phase of the loop and `reader[w]` that of a reader thread.

**The window manager is one thread**, so a command is one action. `WindowManager` keeps the
struct as one record `wm`, and a handler is an operator from it to the set of records it
may leave; frames, child exits and the drag timer are actions of their own between any two commands.
Commands act on the focused window (menu) or on the hitboxes that the last frame registered (`chrome`), as the
code dispatches them: a window that was closed since can still be pressed until the next frame. `drag` is the mouse drag with what
goes with it, the two previews (`snap`, the edge; `top`, maximizing) and the timer (`armed`), which survive a press that replaces
the capture. How far the pointer has moved, and so what it hints at, is chosen (`Hints`). `SystemTasks` runs between drains of the scheduler as the loop does.

**Three refinements.** `Gateway!Book` maps the gateway to what a client can know of it: which names were opened, who is in each
channel, which have a session, which are gone (`collected <- {x : reaped[x]}`). Table, calls, tasks and processes have
disappeared, and each lock section is one step of the book or none; `IsBook` says so. The book lets a client enter a channel that has
been collected, because Spawn does not look again (`NeverSplit`). `Scheduler!TimerSet` maps the heap to the entries that are not cancelled
(`timers <- Live`, `issued <- nextId`); `IsTimers` says the scheduler, under all that the window manager does with
it, is then a set of timers of which the first due goes first. `LayoutTree!Store` maps a
tree to its leaves, its Voids and whether its root is bare; `IsStore` says that every edit of the tree is an operation of
`Tiling`, from which `WindowManager` is built: so what is shown of windows with
the abstract tree holds with the real one. (`Tiling`'s `Removed` and `Detached` are sets of results, because
a Void that is left alone may keep its id or be a fresh one.)

**What is abstract.** Bytes are chunks, numbered; names and connections are model values; a
request is decoded; replies that do not change state are not kept. The emulator is the
number of chunks it has processed. Wall-clock bounds of the gateway (`SIGKILL_GRACE`,
`READER_DRAIN_GRACE`, poll intervals) are steps that come some time; `GraceEnough` says
whether the reader makes it within its grace. `EventLoop` is untimed: a deadline is `none`,
`armed` or `due`, a sleep `zero`, `short` or `long` (the 3600 s of the power saver); `drain_pending` is one step, and so
are `poll` and the `read` that follows it. `Scheduler` has a clock. `WindowManager` has no rectangles, only
whether a window has one. In `Geometry`
handlers, notifications and replies come in any order, and the machines of `Relaxed` may show the relaxed stores of a notification's
handler in another order than it makes them (x86 does not): the main thread sees the flag before the registers.
Nothing restricts these orders. `overtaken`, which no step of the code reads, holds the viewers to whom it happened: two handlers that
are to tell a viewer do so in the other order than they took it down (`Notify`, with `teller`), a notification is stored before an
older one (`Store`), or the flag is taken before the registers (`ApplyRead`, `TooEarly`); the next section that tells the viewer takes it out again.
The properties of the viewers except only those in `overtaken`, and each of the three marks is needed: without it TLC finds a viewer left behind.

A definition named after a fault (`ReapStale`, `SpawnKeepsCache`, ...) is the same
step with a plausible mistake in it. No specification uses it: putting it in the
place of the real one must break the property it is meant for.

## 3. What TLC checks

Runs that hold:

| run | shows | instance |
|---|---|---|
| `gateway_lifecycle` | `OneCanonicalChannel`: the tombstone is exact; `IsBook`, of which `ReapOnlyIdle` is a part; `SessionSurvives`, `EscalationArmed` | two viewers, one name, two instances, two sessions: 1.2 million states |
| `gateway_kills` | `AttachSticks`: a late connection event does not undo a binding; `KillsEscalate` (who was sent `SIGTERM` exits or is sent `SIGKILL`), `ShutdownCompletes` under fairness | one viewer that closes its session as often as it likes, one command, every kill and stop: 351 thousand states |
| `input_safety` | `InputInOrder`: no chunk overtakes another; `RawAfterBoundWm`: a channel is left to a window manager that has gone only if that was not bound to it | one viewer, two window managers, attached or not, two chunks, queues of one: 3.6 million states |
| `output_streams` | `StreamsOrdered`: in order, and nothing after the end; `LateSubscribersGetTheTail`, but for a full buffer that was dropped in one piece; `StreamsEnd` under fairness, unless the channel is stuck behind a parked reader | two viewers, of whom one leaves or is killed, sessions of three chunks and of one, a pending buffer of two, a burst of one, one retained: 698 thousand states |
| `geometry` | `FitsEveryone`; `ResizeOwed`: no resize is lost between clients, session and PTY; `NobodyLeftBehind`: the last thing under way to a viewer that is not `overtaken` is the size of the session; `PtyFollows`, and `ScreensFollow` with the same exception, under fairness | two viewers, sizes 1x4 and 3x3, two changes on top of any joined state, in any order, the stores of one viewer relaxed: 936 thousand states |
| `pty_safety` | `LossIsWholeBurst`: what the cap drops is a whole burst, nothing is repeated; `ExitedOnce`, `NoLostWakeup`, `ResizeNotStarved` | five chunks, cap 2, budget 3, drain bound 2, two sizes: 2.2 million states |
| `pty_progress` | `BurstsGoOn`, `ExitHeard` under fairness | the same with one size and an owner that renders: 130 thousand states |
| `event_loop` | `NeverOversleeps`, `NothingForgotten`, `InputKeepsOrder`; `OutputAppears` under fairness | one terminal, with a console or with viewers, any three events, deadlines that pass at any time: 614 thousand states |
| `system_tasks` | `IsTimers`; `TransientsEnd`: whatever is shown for a time has the timer that ends it; `SnapsAfterRest` | two windows, four ticks, three timers, one notification shown at a time: 1.2 million states |
| `window_manager` | `StackingOrder`, `PlaceKept`, `RingKept`; no two windows wait for one Void (in `WindowTypeOK`) | a terminal and a panel, two Voids, a terminal to drag: 517 thousand states |
| `layout_tree` | `Covers`, `DragIsLocal`, `EqualShares`, `IsStore` | three windows, trees of five nodes, areas of 8x3, 3x2 and 0x4: 84 thousand states up to symmetry |

Each module has one type invariant. `OutputTypeOK`, `WindowTypeOK` and `TreeTypeOK`, which say more than types, are
among the runs; `GatewayTypeOK`, `ReaderTypeOK`, `InputTypeOK`, `LoopTypeOK` and `GeometryTypeOK` hold under the
configurations of their runs too, and are in `GatewayLeave.cfg`, `PtyLetsGo.cfg`, `GatewayInputMode.cfg`,
`EventLoopFull.cfg` and `GeometryStale.cfg`; the first two are proved (`GatewayTyped`, `ReaderTyped`).

One run ends in a counterexample, because a comment promises what the code does not do:

| run | the promise | what happens |
|---|---|---|
| `pty_drain` | `drain_pending` does not block (comment) | the reader parks with the lock of `pending` in its hand, and its owner waits for that lock instead of rendering |

Two more configurations, not part of the standard runs, hold: `GatewayLeave` (`IdleChannelsAreReaped`,
`DisconnectedClientsLeave`) and `PtyLetsGo` (`ResizesApplied`, `ReaderLetsGo`). All the others end in a
counterexample to the property they check, and so does `GatewayLeave` for a third property; where a line names a second property, put it in the place of the first
(the comment at the head of the file says so).

| configuration | property | what happens |
|---|---|---|
| `GatewayAdmin` with two viewers | `NeverSplit`: concurrent attaches never split a channel (server README) | Spawn looks its channel up, the GC collects it, Spawn starts its session in the collected instance; the next Spawn of the name starts another beside it |
| `GatewayAdmin` | `NobodySlipsIn` | a connection becomes a participant between the check of an unforced kill and its eviction |
| `GatewayAdmin` | `ExitLeavesNoSession`: a shutdown tears down every session before exiting (server README) | a Spawn that passed the seal starts its session after the snapshot of the channels |
| `GatewayAdmin` | `UnforcedStopIsHarmless` | a session spawned between the scan and the seal is torn down by a stop that was not forced |
| `GatewayAdmin` | `NoBlindKill` | a kill of a channel without a session is left armed for the next one, which gets SIGKILL without SIGTERM |
| `GatewayAdmin` | `NoGhostClients` | a kill-client that overtakes the client's own Spawn leaves a client entry for good |
| `GatewayLeave` | `SignalledSessionsDie`: signals go to "the child's entire process group, not just the leader" (comment, `pty.rs`) | `SIGKILL` goes once, to the group in the foreground: a session that ignores `SIGTERM` and runs a job lives on, and nothing is armed |
| `GatewayInputMode` | `RawAfterWm`: input goes back to raw when the window manager disconnects (comment) | the window manager never attaches, as the one of `src/main.rs` never does, and `evict_conn` returns before it reverts the mode |
| `GatewayInputMode` | `NeverDeaf` | a name left behind in `internal_channels` makes the next channel of that name deaf |
| `GatewayInputMode` | `AttributedInOrder` | structured events overtake each other |
| `GatewayInputRemark` | `SuppressedForWm` | a subscription between the two locks of an eviction loses its suppression |
| `GatewayInputStale` | `ForwarderFollowsBinding` | a chunk between the purge and the bind starts a forwarder that stays with the old channel |
| `GatewayInputStale` | `InputInOrder`, with three tasks and one session | a viewer that attaches to A, to B and to A again has two drain tasks for one channel |
| `GatewayInputStale` | `EvictedAreMute` | a client that was evicted by a kill still reaches the session |
| `GatewayOutputStolen` | `NothingMissed`: every chunk goes to all subscribed clients (server README) | a new subscriber drains what was pending for the others |
| `GatewayOutputLost` | `KilledStreamsEnd` | a subscription that comes too late is dropped without an end of stream |
| `GatewayOutputLost` | `ExitEndsStreams`: the exit finalizes every subscriber's stream (comment) | the poll holds the channel lock and waits for a parked reader, as the owner does in `pty_drain` |
| `GatewayOutputLost` | `OnlyBoundAreSubscribed` | a subscription that waits for the lock is registered after its connection has gone |
| `GatewayOutputLost` | `NothingTruncated` | with a subscriber the exit is checked without waiting for the reader: the tail is lost |
| `GatewayOutputLost` | `NewestRetained`: the last `MAX_RETAINED_OUTPUT_BYTES` are kept (comment) | the reader's cap drops the whole of `pending` just before the exit, and less than the newest is left to retain |
| `GeometryStale` | `ScreensAlwaysFollow` | two handlers notify in the other order than they recalculated, or two notifications are handled out of order; or, with `Relaxed = {v1}`, the main thread sees the relaxed flag before the registers, takes it, reads the old size and never looks again: a viewer keeps a size the session no longer has |
| `GeometryStale` | `BufferFits`: "never exceeds any attached monitor" (comment, `session_server.rs` 297-298) | `Pty::resize` ignores a size below two, which the session records and tells everybody all the same |
| `PtyLetsGo` | `ReaderEnds` | a parked reader does not look at `shutdown`, and whoever joins it waits for ever |
| `EventLoopTardy` | `ExitedWindowsClose` | an exit that `drain_pending` consumes arms no deadline: the dead window stays until something else happens |
| `EventLoopTardy` | `DeadlinesAreSeen` | `time_until_deadline` says `None`, not zero as its comment has it, of a deadline that has just passed: the loop sleeps the hour |
| `EventLoopFull` | `NeverStuck` | the loop's own thread sends an exit to the full channel that only it drains |
| `WindowManagerTransitions` | `LegalTransitions` (an assertion of debug builds), `NoGhostLeaf`, `NothingLost` | windows are closed and destroyed from states for which `is_valid_transition` says no; a leaf stays of a window that is no longer mapped; a window whose header is let go without a preview is drawn nowhere |
| `LayoutTreeHollow` | `NoHollowSplit`: empty parents are cleaned up (comment, `tiling.rs` 662-663) | the last Void of a split is removed and the empty split stays |
| `SystemTasksStray` | `OnlyDragsTimeOut` | a second button's resize takes over the capture of a drag, and the drag's timer ends it |

Seen on the way, and in no configuration: cancelling a timer that has fired leaves its id in `cancelled` for
good; a viewer sets its own emulator to one column without the clamp that `Pty::resize` has against a panic of the
emulator (`remote_pane.rs` 88); a viewer's terminal that is resized before the input thread starts is not noticed; the
input thread of a viewer that has been rebound to another workspace notices its end only with the next key, and
takes it (`term-session-client/src/lib.rs` 646-665: `Ok(false) => continue`).

### Bounds

Every bound is a constant and a guard of the action it bounds. Two channel
instances are one to be collected and one to take its place, which is all that
`chanMap` can confuse; two sessions are the one that dies and the one that follows.
Two viewers are needed wherever one takes something the other was to have. Queues
of one entry are full at the second chunk, and coalescing still happens, in the
batches of the tasks. In `pty_safety` the budget exceeds the cap and the drain bound, as it
does not in the code, so that a burst may overflow and a resize fall due in five chunks.
`MidCallDrop`, sockets that go while a call of theirs is served, is off in all of them, and the theorems hold with it; it lets a
client that has gone join after its eviction, which is the case of `NoGhostClients` again. In `gateway_kills` the viewer's closes and the
command's kills overlap and share a channel's flag. `Leavers` of `GatewayOutput` are the viewers that may leave or be
killed: one of the two, so that one stream ends while the other goes on. There a buffer of two, bursts of one and a
retained chunk are what three chunks can overrun, park behind and push out; later sessions write two chunks fewer than the first. In `input_safety` a connection attaches once, as
the clients of this repository do, who open a new one to go elsewhere (`term-session-client/src/lib.rs` 438). Sessions are
cut off with the instance, so every liveness property is stated with the states in
which the process it speaks of is still there.

In `geometry` any set of viewers of any sizes may have joined before, so two changes are two
handlers at work at once, which is what may go wrong; one size is narrow and one low, so that the
smallest is nobody's own, and one is too small for a PTY. The stores of one viewer are seen in another order, those of the other are not. In `event_loop` three events are a chunk of output
with a second one or a panic or a hiding behind it; eight places never fill the channel
(`EventLoopFull` is about that). In `system_tasks` one notification of two is evicted, a
debounce is one tick and the other times are longer, so that a deadline may fall before, on and
after the clock of a drain. In `window_manager` a panel does all that a terminal does except to die, and comes back; two Void ids
are one that is remembered and one that is not; `Dragged` are the windows whose header is pressed. In `layout_tree` five nodes are two splits within each
other, and the areas are one that divides unevenly, one smaller than the tree and one without a cell.

Symmetry is used where no property is temporal but `[][..]`: over viewers, over window managers, over
windows. `layout_tree` and `system_tasks` check their refinements, which have no fairness, under it; the mapped
state machines treat windows alike too. `window_manager` has a view that forgets the names of Voids, which no
operator compares but for equality, and keeps what they tell: whether one is remembered, whether
it is in the tree, how many there are, and whether two are alike. It forgets as well what cannot be read again: the
rectangle remembered by a window that is not maximized, and the timer of a drag that is over and has left no preview.

`CHECK_DEADLOCK FALSE` is set where all may come to rest: a gateway whose clients have gone, a child that has ended,
a clock at its bound.

### Fairness

`Gateway!Fairness` gives weak fairness to every handler that has started, to the event
loop, the polling tasks and the escalations: they are tokio tasks, no section
waits for anything but locks. That no channel lock is kept for ever is an assumption: the deadlock of `pty_drain` keeps one, and
`ShutdownCompletes` and `KillsEscalate` are about channels it does not happen to. Nothing is assumed of clients,
of sockets or of processes: a session may ignore `SIGTERM` and run for ever, and outlive `SIGKILL`.
`Geometry` is fair to handlers, notifications, the reader and the viewer's main
loop, which wakes up every 100 ms; nobody has to come, resize or leave.
`PtyReader!FairSpec` is fair to the two threads, and to the owner's rendering and its
looking for the exit, which the poll interval of the gateway and the frames of the window manager
bring about; nothing is assumed of the child. `BurstsGoOn` speaks of an owner that has not let go: a reader that is parked when
its owner shuts down is `ReaderEnds`, which fails. In `GatewayOutput` the polling task and the
subscription tasks compete for the channel lock, which tokio hands out in the order it was
asked for: the polling task has strong fairness, as the lock is free again and again. A kill that is draining goes on as soon as the
reader lets it (`KillTake`). `StreamsEnd` needs no more than weak fairness of the subscriptions; `FairLockSpec` gives them their turn at the lock too. `EventLoop` is fair to the loop, to each reader and to the
passing of each armed deadline; not to the end of the hour's sleep, so `OutputAppears` may not
lean on it. A deadline may pass at any time; `missed` are the pacers whose deadline has passed between the
two reads of the clock of one pass, so that neither read saw it, and `NeverOversleeps` and `OutputAppears` except what only they know of (see
`EventLoopTardy`). A window is in `lost`, and excused from `OutputAppears`, when its wakeup was consumed by a frame while it was hidden and the
frame that was to draw it after it was shown again has panicked.

## 4. What TLAPS proves

Every theorem holds for all values of the constants that satisfy the module's assumptions.

**`GatewayProofs`**, for any number of viewers, admins, names, instances and sessions, from
`GatewayAssumption`:

* `GatewayTyped`: `GatewayTypeOK`. Not inductive as it stands: an instance a call is about
  to use must exist in the table's range also after a step of another call, and a call
  that names a channel must name one that can be in the table. `TypeInv` adds both.
* `CanonicalChannels`: `OneCanonicalChannel`. `TableInv` adds to it that a name's
  instance was created under that name and that instances never created are blank; creation and collection
  happen under `channels.write`, so the two sides of the equivalence change together.
* `OnlyIdleReaped`, `SessionsSurvive`: action properties. The first follows from the
  second look of the GC, the second from the polling task being the only step that takes a
  session away.
* `KillsAreArmed`: `EscalationArmed`, about every live session of the table that was sent `SIGTERM` and for which no escalation has come
  since. `KillInv` says that its channel has `kill_pending` set, and that an escalation exists that has either
  found this instance or has yet to look its name up; overlapping kills share the flag, so the step
  to watch is an escalation that ends while another one counts on it. A session that has outlived its one `SIGKILL` is armed for
  nothing, and the theorem does not say that a signalled session dies, which is false (`SignalledSessionsDie`).
* `BindingsStick`: `AttachSticks`. `StickInv` adds that whoever spawns has been attached: then only `Bind` makes a
  connection attached, and there the routing table gets its name; every other step that takes a name away evicts, and the
  late event of a connection finds the entry.

* `KeepsTheBook`: `IsBook`, the refinement. A new instance is opened only when the table has none that is not reaped, and by
  `OneCanonicalChannel` that is all the name ever had; that is why the book may ask it of every earlier channel. `BookInv` adds to
  `TableInv` that what was not created has no name, and that a call about to lock an instance holds one (`HoldingStep`).
  One lemma for each step of the book (`BookOpens`, `BookCollects`, `BookEnters`, `BookLeaves`, `BookEnds`) says which sections take it.

**`PtyReaderProofs`**, for any bounds, cap, budget and sizes, from `ReaderAssumption`:

* `ReaderInvariant`: `ReaderInv`, the conjunction of types (`Flags`, `Counts`), of what a resize
  has waited against the progress of the drain (`Waits`), and of latch, callback and permit
  (`Signals`).
* `ReaderTyped`, `ExitToldOnce`, `WakeupsArrive`, `ResizesInTime`: `ReaderTypeOK`,
  `ExitedOnce`, `NoLostWakeup` and `ResizeNotStarved` follow from it.
* `LossesAreBursts`: `LossIsWholeBurst`. `LossInv` says that `pending` holds the last chunks appended, one after the other,
  and that the first of them follows what was delivered last: directly, or with a gap wider than the cap. The gap only
  grows, because the cap drops all of `pending` or nothing, so the property follows for whatever is drained next.

**`GatewayInputProofs`**, for any connections, names, queues and bounds, from `InputAssumption`:

* `InputKeepsItsOrder`: `InputInOrder`, provided `~Reattach`. `PipeInv` looks at the six stages a chunk goes through,
  from the handler's hand to the PTY: what has got further was sent before what has not (`StagesInv`), and each
  queue and batch is in order (`SeqsInv`). That holds only while a viewer's chunks go one way: a connection has one drain task
  (`TaskInv`), which feeds one channel, the one it resolved first, in whichever session that has now (`HomeInv`); and
  who has no task and still has something to send has never had one (`FreshInv`). Here `~Reattach` is
  needed: with it on, a second drain task may overtake the first, and TLC finds the case
  (`GatewayInputStale`).
* `BoundWmGivesBack`: `RawAfterBoundWm`, without an assumption: window managers attach or do not, in any order with their subscriptions.
  `WmInv` says that the window manager that has the channel of a name is online, or is being evicted from that name, or was not
  bound to it when it went; that no two names share a channel; and that one not
  yet created has none. That the exception is not empty is `RawAfterWm`, which fails (`GatewayInputMode`).

**`GatewayOutputProofs`**, for any viewers, sessions, chunks and caps, from `OutputAssumption`:

* `OutputTyped`: `OutputTypeOK`, with the cap on what is retained.
* `StreamsInOrder`: `StreamsOrdered`. Output is in order and without repetition, none is of an earlier session than the snapshot before
  it, and none follows the end of its session; a chunk that the snapshot of its own session shows already may follow it, and does.
  `OutInv` says where each chunk of the session is: what is pending ends at `Base`, and what the
  poll has drained is a run that begins after `RawBase` and ends no later than `Base` (`ChunksInv`); so is what a new
  subscriber has taken for itself (`EarlyInv`), and every stream that is subscribed ends before the run that will be
  sent to it next (`StreamInv`). `LockInv`, that a subscriber, the poll or a kill between its steps keeps the others out, is what makes
  the last one inductive.
* `TailKept`: `LateSubscribersGetTheTail`, provided `GraceEnough`: that a reader has appended all before its session is finalized is the
  whole of the code's grace period; without it the tail may come too late. What the reader's cap has dropped is excepted only as what it
  is, a full buffer in one piece (`Overrun`): up to `Base` every chunk was handed out or is `Gone` with such a piece. That newer
  output is retained in spite of the cap is false (`NewestRetained`).

**`EventLoopProofs`**, for any windows, capacity and number of events, from `LoopAssumption`:

* `OutputIsTold`: `NothingForgotten`. `LoopInv` adds to it that a raised flag is worth a wakeup:
  a reader that finds it raised sends none, so somebody must still be going to look at the window.
* `SleepsSafely`: `NeverOversleeps`, for deadlines that pass at any time, also between two reads of the clock: what the loop sleeps over is then
  a deadline in `missed`, and nothing else. `SleepInv` follows the phases of the loop: while it draws no render
  deadline is left, before it blocks for the hour the scheduler has none and the runner's pacer none that was not missed, and when it has blocked the
  sets of the source are empty but for what a missed deadline of its own was to flush.
* `InputHandledInOrder`: `InputKeepsOrder`. `OrderInv` says that only one of the two channels carries keys, in the order they were typed,
  that what is buffered came before them, and that nothing is buffered while poll blocks, where a key is taken past the buffer.
  That filtering a channel keeps the order of its keys (`KeysFilter`) is an induction, which the prover can do over a
  set of numbers (`Induction`, from the well-foundedness of the naturals).

**`SystemTasksProofs`**, for any windows, payloads, durations and bounds, from the two assumptions of
`Scheduler` and `SystemTasks`:

* `HeapIsTimers`: `IsTimers`, the refinement. `HeapInv` says that identifiers are unique and only issued ones cancelled, so nothing is born
  cancelled and a popped entry takes its mark with it; every call of the window manager is then a change of
  the set of timers, every pop of a cancelled entry a stutter.
* `ShownEnds`: `TransientsEnd`. `TransInv` adds what tells the timers of different kinds apart (`Remembered`, `FiredInv`,
  `DragKind`, `NotesInv`): a timer that has fired and waits to be handled still counts.
* `SnapsDragsAtRest`: `SnapsAfterRest`. `RestInv` says that the timer that is remembered is due no earlier than
  the timeout after the last movement, and that stray ones are harmless.

**`GeometryProofs`**, for any viewers and sizes, from `GeometryAssumption`:

* `SessionFits`: `FitsEveryone`. `FitsInv` adds that what is on its way into the table of clients is a size; that the least of a set of
  numbers exists is taken from the well-foundedness of the naturals.
* `ResizesAreOwed`: `ResizeOwed`. Whatever runs between two sections of a handler, the session is as large as its viewers let it be or
  somebody is on the way to make it so, and the PTY has that size or is to get it. `UnderWay` adds that a session that is there has a
  size without a zero, and that a handler at work has its viewer waiting or gone (`AtWork`), so that no new request takes a handler
  from the recalculation it owes.
* `NoViewerLeftBehind`: `NobodyLeftBehind`, the safety half of `ScreensFollow`, for any order of handlers, notifications, replies and
  relaxed stores: only who is marked `overtaken` may be left behind. Not inductive as it stands. `InOrder` adds that the one who has last taken down to tell
  a viewer is still to do so, with the size of the session (`TellersTell`, `TellersNew`); that who asks is among those told and is
  told before its reply, which keeps a late reply harmless (`AskersTold`, `ReplyIsLast`); and of a viewer that is not overtaken and has been told the last, that nobody
  is to tell it anything older (`NoneOlder`), that nothing is stored ahead of what was sent last (`LastIsLast`), and that this is the size of the session
  (`LastIsNew`). One lemma per kind of step (`SectionsInOrder`, `NotifyInOrder`, `StoreInOrder`, `RepliedInOrder`, `ApplyInOrder`,
  `RequestInOrder`).

The second half of the module is about `Splits`, and so about whole numbers only: any number of children and any weights,
trees of any depth, areas of any size.

* `SizesAddUp`: the sizes of the children and the gaps add up to the length of the split, none below zero (`saturating_sub` never
  saturates). Rounding down hands out no more than there is because a sum of quotients times the divisor is at most the sum of
  what was divided (`SharesFit`, by induction over the children), and the gap is dropped before it takes the last cell
  (`ContentLeft`).
* `LayoutTiles`: the windows, Voids and gaps of a whole tree tile its area: each cell of it is in exactly one of them, and
  none reaches out of it. That is `Covers` for every tree, where the run has trees of five nodes. Along one split the children and the
  gaps are bands between borders that never decrease (`Bands`, `SidesFill`), which gives a tiling by one level (`DividedTiles`);
  tiling each part again keeps the tiling, level by level. The hypotheses say what a `LayoutNode` can be: the children of a split
  are nodes again, weights are numbers, and there are two directions; the number of weights need not be right.
* `DragKeepsOthers`: sizes that fill a split and become its weights come back as its sizes (`SizesAsWeights`), and the pair beside
  the handle keeps its sum, so nothing else moves: the step that `DragIsLocal` takes in a whole tree, under the same two
  conditions (room for two minimal windows, no child without a cell). That the rest of the tree is laid out as before
  stays with TLC, because `AtPath` and `PutAt` are recursive operators.

The code computes in fixed widths. Products of a length and a weight of 16 bits fit the 32 bits of `split_rects_weighted`;
`apply_drag` goes through `i16`, so that the last theorem is about areas below 32768 cells a side.

Sums and layouts are recursive functions. That they exist, and what they are at each place, is proved first (`SumsAdd`,
`Levels`), by an induction over a set of numbers (`Induction`) that the prover can instantiate.

**`WindowManagerProofs`**, for any number of terminals, panels and Voids, from `NoTreeAssumption` and
`WindowAssumption`:

* `WindowsTyped`, `Stacked`: `WindowTypeOK` and `StackingOrder`. `Good` is what holds of the manager between two commands: `Lists`
  (nothing twice; mapped, drawn, stacked and shown windows within each other in this order), `Apart` (no Void is remembered twice),
  `Early` (before the first frame there is no tree and nothing is maximized) and `Born` (a panel is there from the start).
* `PlacesKept`, `TabReaches`: the action properties `PlaceKept` and `RingKept`. A command is a chain of operators, and each has a
  lemma `...Keeps`: from a good manager it leaves a good one in which every mapped window has a place and a turn at Tab, or
  had none before. `KeepsChain` composes them. Where a window is without a place between two operators (restored from a
  maximized state, just mapped, pulled out of the tree to be snapped) the lemma names it as an exception until it is placed
  again (`SettledPlaced`, `KeepsPlaced`). The exceptions left at the end are two: a window opened before the screen is measured,
  which the first frame places (`BuiltKeeps`), and the one whose header is let go with nothing previewed or applied (`LetGoKeeps`, `Unaimed`).
* The lemmas under them: filtering a list (`KeptIs`, by the same induction as `KeysFilter`), every operation of `Tiling`
  (`RemovedIs`, `SplitIs`, ...: which leaves it keeps), and that the windows of a frame, in whatever order
  `SetToSeqs` picks, are all there once (`InSomeOrder`, from their being stacked already and hence finitely many). In `ApplySnap` the
  second Void may find no identifier left in a small `VoidId`; it is then not drawn (`SplitIs`).

The proofs go by one step per action: lemmas say what a group of actions leaves alone, and each
conjunct of the invariant is looked at where it can be disturbed.

Only model-checked:

* everything under fairness: liveness and `ENABLED` are beyond the prover;
* the edits of `LayoutTree`, whose operators are recursive over trees: `TreeTypeOK`, `EqualShares` and the refinement `IsStore`,
  and that `Covers` and `DragIsLocal` hold of the trees the edits make (what they say of one tree is proved of `Splits`). The theorems
  about `WindowManager` rest on what `Tiling` says of an edit, and that `LayoutTree` does the same is checked on small trees.

## 5. Plan

1. `SessionClient`: main loop, coalescing, the worker for structured input, rebinding, exit. Promise: nothing discrete is lost or reordered,
   what was received is rendered before the exit, a rebind is obeyed.
2. `Reaper`, composed with `PtyReader`: zombies, the bounded channel, the join. Promise: every
   closed window's child is reaped. Two zombies, a channel of one.
3. `GatewayLocks`, on top of `Gateway`: no cycle of waits.
4. Proofs: `IsStore` for every tree, and the liveness properties, stay with TLC.
5. `AutoSpawn`; monocle and shaded windows in `WindowManager`.
