# Quil: TLA+ models, model checks and proofs

Quil is a terminal multiplexer. A daemon (`quild`) owns the shells' PTYs, the
workspace and its persistence; any number of clients (the TUI `quil`, the MCP
bridge, the web gateway) attach to it over length-prefixed JSON frames on a unix
socket, TCP or ssh stdio. Almost everything hard is in the daemon: goroutines
per connection, per pane and per timer share a few structs under small mutexes,
and what a client sees is the merge of a replay, a hold and a live stream over
two queues.

This directory holds the models of that core, the configurations that check
them with TLC, and the proofs TLAPS checks.

## Files

| module | what it is | configurations |
| --- | --- | --- |
| `IpcConn` | one server-side connection: two bounded queues, `sendLoop`, `Flush` | `IpcConn.cfg`, `IpcConnFlushOpen.cfg` |
| `AttachHold` | one client attaching while panes write | `AttachHold.cfg`, `AttachHoldExited.cfg` |
| `ClientRegistry` | attached clients and the size-master election | `ClientRegistry.cfg` |
| `TaskFuture` | what a delegated task promises, in the abstract | |
| `TaskLedger` | tasks delegated to a pane, the work ledger and the settle window; implements `TaskFuture` | `TaskLedger.cfg`, `TaskLedgerStranded.cfg` |
| `SnapshotStore` | workspace.json, a ghost buffer and a note, across failed writes and kills | `SnapshotStore.cfg` |
| `LayoutSync` | several TUIs editing one tab's layout tree | `LayoutSync.cfg`, `LayoutSyncDeferred.cfg` |
| `PaneSize` | one pane's size between clients, PTY and state frames | `PaneSize.cfg`, `PaneSizeFollower.cfg`, `PaneSizeKicks.cfg`, `PaneSizeStale.cfg`, `PaneSizeTakenBack.cfg`, `PaneSizeRecord.cfg` |
| `ServerStop` | accept loops, handlers and the stop of the daemon | `ServerStop.cfg`, `ServerStopAck.cfg`, `ServerStopWait.cfg` |
| `TcpLogin` | TCP logins, token revoke and expiry, the token file | `TcpLogin.cfg`, `TcpLoginLate.cfg` |
| `WatchEvents` | the notification queue and its one-shot watchers | `WatchEvents.cfg`, `WatchEventsWindow.cfg` |
| `ClientRegistry_proofs`, `PaneSize_proofs`, `SnapshotStore_proofs`, `TaskLedger_proofs`, `TcpLogin_proofs`, `WatchEvents_proofs` | theorems about the module of that name | |
| `IpcConn_LayoutSync_proofs` | theorems about `IpcConn`, then about `LayoutSync`, which share no variable | |
| `ServerStop_AttachHold_proofs` | theorems about `ServerStop`, then about `AttachHold`, which share no variable | |

`MCX.tla` instantiates `X` for TLC. `PROJECT.json` has the components, runs,
mutants, source map, hazards, findings and theorems.

In each specification a definition `X_Fault` beside `X` (for instance
`HasRoom_OffByOne`) is `X` with a plausible bug. It is used by no action. The
mutants in `PROJECT.json`, one per property, put it in the place of `X` and name
the property that must then fail; the other faults are there to be tried the
same way.

## Inventory

What each part keeps, what it does, how it meets the others, and what makes it
correct.

**Connection** (`internal/ipc/server.go`, `Conn`). State: `critCh` and `outCh`
(64 slots each), `closed`/`done`, `overflow`, `pending`, the per-conn flag
`holdPaneOutput`. Operations: `Send`, `SendDroppable`, `SendBlocking`, `Flush`,
`Close`, and the goroutine `sendLoop`. Every other part calls `Send`. Correct
when: must-deliver frames keep their order and are lost only with the
connection, live output can neither starve nor reorder them at will, a replay
does not close the connection it fills, a connection without a drainer lets its
senders go, and `Flush` tells the truth. *IpcConn; its safety is proved.*

**Server** (`ipc/server.go`, `ipc/auth.go`, `Daemon.Stop`). State: the list of
connections, the count of handlers, the places for pending TCP logins, two
listeners. Operations: accept, admit or refuse, handle, `StartTCP`, `Stop`,
`WaitConns`; around them the final snapshot and the audit log. Correct when
places add up, nobody is left served or listening, and what a client was told
is done is in the final snapshot. *ServerStop; its safety is proved.*

**Login and tokens** (`daemon/auth.go`, `tokens.go`, `clientauth/store.go`).
State: a session per connection with a step timer, the token store and its file,
the index of connections by token. Correct when a login has one verdict, ends
however its peer stalls, and a revoke that was answered holds against logins
under way, writes in flight and restarts. *TcpLogin; its safety is proved.*

**Attach and output hold** (`daemon/outputhold.go`, `handleAttach`,
`flushPaneOutputGeneration`). State: `d.holds` under `holdMu`, hold changes and
flushes exclude each other through `holdGate`, each pane's `OutputBuf` and
`outPos` under its `PluginMu`. Correct when a client that attaches while panes
write gets each byte once, replay before held output before live, misses
nothing without a repaint being asked for of whatever still runs, and is always
let back on live output. *AttachHold; its safety is proved.*

**Client registry** (`daemon/clients.go`). State: records per connection, the
master slot (an id), one reservation with one timer. Operations: attach, lose,
detach, setGeometry, takeControl, expire, reserveAfterRestart. Callers
broadcast the workspace state when a method reports a change, and
`applyResizes` asks it who may size PTYs. Correct when at most one fit client
sizes panes, a kept slot is neither stolen nor leaked, and every client is told.
*ClientRegistry; its safety is proved.*

**Resizes** (`applyResizes`, `sendPaneSizes`, `tui/pane.go`). Sizes are
announced to followers before the PTY changes, numbered by `sizeSeq`, recorded
after it, and taken back when the PTY refuses. `resizeKick` resizes the same PTY
to the recorded size to make a program repaint. Correct when a follower's size
is the recorded one or a state frame can still correct it, and the PTY's too.
*PaneSize; its safety is proved.*

**Layout and state frames** (`session.go`, `layout_tree.go`,
`broadcast_coalesce.go`, `tui/layoutsync.go`, `tui/staterev.go`,
`rebuildTabs`). A tab's split tree is stored by compare-and-store on its
revision; full states are numbered per daemon run, coalesced, and fanned out by
several goroutines. Correct when the stored tree names its tab's live panes, a
user's drag is lost only to another user's, clients do not answer each other for
ever, and all come to show the stored tree. *LayoutSync; its safety is proved.*

**Persistence** (`Wait`, `snapshot`, `restoreWorkspace`, `internal/persist`,
`notes.go`). A ticker and a debounce lead to a snapshot, which writes
workspace.json by two renames and changed pane buffers by generation; notes are
files with revisions that the snapshot persists. Correct when a restart finds
the last saved state, every change is saved, and a note is not overwritten
unseen. *SnapshotStore; its safety is proved.*

**Tasks and the work ledger** (`task.go`, `workstate.go`, `hookevents`). One
pane asks another for work; a task ends by the target's settled idle, its exit,
a timeout, or the target's destruction, each on its own goroutine. Correct when
a task ends once, its waiter is told that end, a crash is not reported as done,
and one idle speaks for one task. *TaskLedger, TaskFuture; the
safety of both, and that one implements the other, is proved.*

**Event queue** (`event.go`, `handleWatchNotificationsReq`, `rights.go`). A
bounded, aggregating queue with one-shot watchers and a cap on parked requests.
Correct when an agent that follows the protocol skips only what it can know of,
and watchers neither leak nor are used after their end. *WatchEvents; its safety is
proved.*

**Not modelled yet**: the warm shell pool (`warmshell.go`: asynchronous fill,
claim and Stop), the pull request cache (`gitcache.go`: generations checked
after a probe), the binary swap (`binswap.go`: rename, copy, roll back).

`PROJECT.json` lists the hazards line by line with the properties that watch
them.

## The models

The rules of the models are the same throughout. A goroutine is a process with a
place in its code; a critical section under one mutex is one step; an access to
shared memory without a lock is a step of its own; a select may take any ready
case, and its default when none is ready. Timers that fired cannot be stopped.
History variables record what was promised and are read by properties only.

### IpcConn

`spc` is where a sender is, `loopPC` where `sendLoop` is, `fpc` where a flusher
is. The code takes no lock on this path, so every access is its own step:
`SendCheck` (the closed and overflow test), `SendQueue` or `SendOverflow` (the
channel operation), `Count` (`pending.Add(1)`); `BulkCheck` reads the depth and
`BulkQueue` queues later. `sendLoop` is its two selects, the write, and the
discount. A write may fail at any time, a peer may go at any time, `cancel` may
fire. Frames are `<<sender, n>>`, live frames only a number. A partial write that
made progress is retried by the code and is part of one `WriteOk`.

### AttachHold

The composition of a flush (three steps inside the read lock of `holdGate`:
`Publish`, `HoldOutput`, `Broadcast`), of `handleAttach` from `beginOutputHold`
to `releaseOutputHold`, and of the connection's two queues, here with whole
frames and without the sending races `IpcConn` has. A byte is its position in
its pane's stream. A critical section under `holdGate`'s write lock is one step
that needs every flush outside. The peer may die, the daemon may stop, the
client may be read-only, a pane may have no replay (ghost buffer off or an
alternate screen). A pane of `Mortal` may end (`Exits`, after its last flush). A
repaint is asked only of a pane that runs (`Snapshot`, `KickLost`); `silent` is
the history of those that overflowed the hold and were not asked because they
had ended. `Deliver` is the client, `handlePaneOutput` of the TUI: it ignores
output of panes it does not know, so what comes before the state frame is
dropped.

`dropPane` moves the chunks it keeps together. The model leaves a `Hole` in the
place of each chunk it drops; a hole counts for nothing in `HeldSize` and is
skipped when the batch is sent (`SkipReplayed`, which is also the `continue` for
a chunk the replay carries), so that chunks keep their places. With one byte a
flush, no chunk overlaps the end of a replay in part.

Left out: two attaches on one connection, a pane destroyed (which drops its held
chunks) or restarted during an attach, the replay of a previous session's
`GhostSnap`, and the ring buffer's eviction, so a replay is the whole stream. A
repaint counts as asked once `redrawKick` is called for a running pane: the redraw
key's cooldown, a jiggle that does nothing because no size is known yet, and a
program that ends before it answers are left out.

### ClientRegistry

Every method of `clientRegistry` runs under one mutex and is one action that
computes the next registry as the code does: `Registered`, then `Cleared` where
the code clears the reservation, then `Elect`, rules 1 to 4 of
`electSlotLocked`. `TimerFollows` is the timer that `reserveLocked` arms and
`clearReservationLocked` stops; a timer that has fired is no longer stopped
(`fired`), so `Expire` may find another reservation. The state frames a caller
sends after a method returns are `owed`, sent one by one, with whatever the
registry holds by then. `Snapshot` saves the slot, `Restart` boots on it.

Abstractions: an id or a login is a model value; a window is paintable or not;
`attachedAt` is a counter; `until` is whether it has passed. `Oldest` breaks ties
by `CHOOSE` where the code compares ids: a fixed choice in both.

### TaskFuture and TaskLedger

`TaskFuture` is the promise: a task is born, ends at most once, its outcome
never changes, its channel is closed exactly once, and a wait is answered with
that outcome. `TaskLedger` is the code, and its property `ImplementsFuture` the
refinement (`INSTANCE TaskFuture WITH`: the task's state, the count of closes,
the answer of the wait).

`Delegating(t)` is `delegateTask` (the registration, the subscription, the
prompt's delivery); `Observing(e)` a goroutine that emits an event, applies it to
the ledger and observes it for tasks in separate steps; `WindowElapses` and
`Settling` the settle timer, a goroutine of its own once it fired; `TimerFires`
the task's timeout; `WaitTask` and `WaitEnds` the requester; `TearingDown` the
destruction or restart of the pane. Left out: notify-back, the prompt's bytes,
subagents by name (a count is kept), eviction of ended tasks.

### SnapshotStore

The session is a version number. A file is what was last written to it. A call of
the file system happens or fails, and the process may be killed between any two:
`Snapshotting` walks through `snapshot` and `persist.Save` call by call
(`SaveWrite` the temporary file, `DropBackup`, `Rotate` the primary aside,
`Promote`) and through the pane's ghost buffer. `Collect` reads the ring's
generation, `CopyBytes` its bytes, each under the ring's lock, and the pane may
write between them; `MarkSaved` records the generation that was read first; then
`BufWrite`, `BufRemove` and `BufRename` are the file. Bytes are the generation
they belong to. `NoteGet`, `NoteWrite`, `NoteStore` are a client's note. `Tick`,
`TakeRequest`, `TakeDue` and `DebounceFires` are `Wait`'s loop. `BeginStop` is the
orderly end with its last snapshot, `Killed` any other, `Start` is `Load` with its
fallback to the backup, and a note file whose revision the snapshot does not have
is adopted as revision 1 (`Restored`; a note that was deleted last has no file).

### LayoutSync

A tree is the last drag it holds and the panes it names, each with who placed it.
The daemon side: `HandleUpdateLayout` (compare and store, `Valid` corrects),
`HandleDestroyPane`, `Create`, `RequestBroadcast` with its 50 ms window,
`Build` (a state and its number in one step, under `stateMu`) and `Queue` (one
connection at a time, so two broadcasts interleave). The client side: `Edit`,
`ConfirmClose`, `Receive` with the stale test and the whole of `syncTabLayout`,
`Reconnect`. Left out: reservations, moves between tabs, templates, overlays, and
`state_req`.

### PaneSize

`Batching(c)` is `applyResizes` for one pane: collect under `PluginMu`,
announce, resize, record, or take back after a failure. `Restarting` swaps the
PTY under it. `Kicking(k)` is `resizeKick`: the PTY and the recorded size are
read (`KickRead`), and then, with no lock, the PTY is resized to one column less
(`KickJiggle`) and to the size that was read (`KickApply`). Its callers are
`redrawKick`, for an attach or the end of a hold, and `streamPTYOutput` on a
PTY's first output; any number of goroutines kick at any time, each step may
fail, and a kick of a PTY that has been replaced changes nothing. `strayed` is
the history of a kick that met a batch of its PTY, or failed in its last resize.
`BuildState` and `QueueState` are a state frame, built with the recorded size
and queued later. `Receive` is `adoptDaemonSize`: a size with an older number is
refused. A connection has one dispatch goroutine, hence one batch at a time.
Left out: batches of several panes, the first size of a new pane, a kick that
does nothing because no size is known or the program has ended, and kicks by
redraw key, which do not resize, with their cooldown.

### ServerStop

A handler is the goroutine of one connection: `Receive`, `Handle`, `Answer`, then
`Release`, `RemoveConn`, `Callback`, `Uncount`. `Accepting(l)` is an accept loop
(accept, for TCP refuse or admit, list, count, spawn), whose steps the stop
interleaves. `Stopping` is `Daemon.Stop`: `StopConns` and `StopTCP`, `StopUnix`
(the two halves of `Server.Stop`), the final snapshot, `WaitConns` or its timeout,
the end of the audit log. A client asks for one change and is answered. Today
`StartTCP` is called once, before the daemon serves, so its race with `Stop` is the
contract of the type `Server`, not a path of the daemon.

### TcpLogin

A frame is right for the next login step, wrong, or too large. `Dispatching` is
the connection's one dispatch goroutine through hello and proof, `TimerFires` and
`TimedOut` the step timer and its own goroutine, `Refusing` a refusal's way: queue,
flush, close, with every other way to end the connection beside it. `Revoking`
and `ExpireTokens` silence and close the token's connections; `Persist` is the
asynchronous last_used write; the token file is replaced by a rename and survives
`Killed`. Flush is given the time it needs. `SendCheck` and `SendQueue` are a
broadcast to a connection that is logged in.

### WatchEvents

`Stamp` and `Push` are an emitting goroutine: it reads the clock, then queues
under the lock, with aggregation, the limit and the wake-up of watchers.
`Dispatch(w)` is the handler of a watch: look for an older event, evict the last
watch, register; `Waiting(w)` its goroutine's select. The agent follows the
protocol of the MCP tool: each watch carries the time of the last event it
handled. Left out: dismissal, the attach replay, pane filters, muted and
work-state-only events, and the goroutine's end with the daemon.

## Runs

| run | question | bounds | distinct states |
| --- | --- | --- | --- |
| `conn` | nothing accepted is lost, reordered or miscounted; live frames pass at most once; a replay leaves room; no sender stays on a dead connection | 1 sender, 1 bulk sender, 2 calls each, a flusher, capacity 2, headroom 1 | 325,047 |
| `conn_flush_open` | is `Flush` truthful on a healthy connection? (no) | 2 senders, 1 bulk, 1 flusher, 1 call each, capacity 2 | |
| `hold` | exactly once, in order, nothing missing, the hold always ends | a pane with a replay and two bytes that may end, one without and one byte, hold of 1, queues of 1 | 1.13M |
| `registry` | the slot is sound, known, kept in turn, and given up | 3 connections (local, full token, read-only token), 1 id and one minted per connection, 3 attaches | 169,418 |
| `tasks` | crashes are not completions, one idle speaks for one task, an exit ends tasks, `TaskFuture` is implemented | 2 tasks, 2 emitters, 1 settler, both teardowns, one task timed and waited for, 2 events, 1 subagent | 584,708 |
| `tasks_stranded` | does a waiting task always have a settle window coming? (no) | 1 task, 1 emitter, no teardown, 5 events | |
| `store` | the last save is found, every change saved, skipped buffers are on disk, notes not overwritten unseen | 2 clients, 1 change, 1 output, 2 note saves, 1 failed call, 1 end of the process | 3.54M |
| `layout` | stored trees are live, drags lost only to others, no echo storm, no step back, all converge | 2 clients, 2 panes and one created, any closed, 3 acts (drags, closes asked for, creates, lost connections) | 458,282 |
| `pane_size` | sizes keep their numbers, followers stay in reach, a lone record is the PTY's size | 2 clients, each a follower of the other's batches, 2 sizes, 2 requests, one each of: take-over, state frame, failure, restart, kick | 5.15M |
| `server_stop` | places add up, answered changes are saved, handlers counted have returned, everything ends | 1 local and 2 TCP connections of which any 2 come, 1 place | 230,438 |
| `login` | one verdict, refusals arrive, revokes hold, logins end, expired tokens are cut off | 1 connection, 2 tokens, 1 failed write, 1 kill, 1 broadcast | 295,084 |
| `watch` | the agent skips only what it can know of, watchers are live, the cap holds | 3 sources, 2 emitters, queue of 2, 2 parked, 3 events, 2 watches, 3 milliseconds | 1.83M |

Why these bounds are enough to meet the interesting cases. In `IpcConn` a queue
of 2 with headroom 1 has a place bulk senders must leave, as 64 and 32 do, and
four frames overflow it while `sendLoop` holds one between its selects. In
`AttachHold` a hold of one chunk overflows, a droppable queue of one sheds, and
two bytes are enough for one to be replayed and one held, or held and live. In
`ClientRegistry` three attaches give a client, a twin of it on a new connection
and a rival. In `TaskLedger` two events are a start and its end, or an end and
an exit, on two goroutines. `SnapshotStore` needs one failure and one kill to
leave every mixture of files; the pane has some output at first, and one more
lands before, between or after the two reads of its ring. `LayoutSync` needs two
drags of one client to defer one, and another client's between them. In
`PaneSize` two requests of two clients with a take-over between them overlap,
and a kick is there to meet one or a restart. In `ServerStop` two connections
are one that waits for its login and one that is refused, or one listed and one
not counted yet. In `WatchEvents` a queue of two drops with three events, and
two watches evict. The mutants show that each property can break within the
bounds.

Larger instances, checked apart for the state invariants alone, with `Spec` in
the place of `FairSpec` and the symmetry the MC module defines: two senders and
a bulk sender with two calls each on a capacity of 3 (`IpcConn`), two panes of
two bytes each and a hold of 2, both panes of which may end (`AttachHold`, 10.1M
states), four connections and two ids (`ClientRegistry`), all three connections
coming (`ServerStop`, 2.2M states), two connections and one token (`TcpLogin`,
2.4M states), three more outputs and two failed calls with one client
(`SnapshotStore`, 2.6M states), and for `PaneSize` a third client that only
follows (`PaneSizeFollower.cfg`, without kicks, 4.1M states) and three kicks by
two goroutines among two requests, a failure and a restart (`PaneSizeKicks.cfg`,
1.5M states).

The deadlock test is off where the system may stop: callers need not call again,
panes need not write, users need not edit, a closed connection or a stopped
daemon is final. The registry never stops (a daemon may always restart) and is
tested for deadlock.

Symmetry is used where no property or constant tells the members apart and no
liveness is checked: the clients and the sizes in `pane_size`, the sources and
emitters in `watch`. `Oldest` in `ClientRegistry` uses `CHOOSE` among candidates
of equal age, which do not occur, since every fresh record takes a new tick and
an age is handed over, not copied.

### Fairness

`IpcConn`: `sendLoop`, the spawned close, and a caller inside a call are
goroutines that can run, hence weakly fair. A write ends because the write
deadline ends it (on ssh, where no deadline can be set, the transport's end of
file does; without either, the code's own comment concedes that the overflow
close is the only bound). Nothing makes a peer hang up or `cancel` fire.
`AttachHold`: the handler, `sendLoop` and a flush inside the gate are weakly
fair; panes need not write, the peer need not die. `ClientRegistry`: time
passes, an armed timer runs, a started send ends; clients owe nothing. A daemon
that restarts for ever renews its reserve, so `ReserveEnds` excepts that.
`TaskLedger`: goroutines inside an event, the settle window and a task's timeout
run; nobody has to emit, delegate, wait or destroy. `SnapshotStore`: the ticker's
loop and a snapshot it began go on; the debounce timer gets no fairness, because
requests that keep coming restart it, and nothing starts the daemon again.
`LayoutSync`: goroutines run, the 50 ms timer fires, both ends read; users,
scripts and connections owe nothing. `ServerStop`: goroutines run; nobody has to
connect, ask or stop the daemon. `TcpLogin`: goroutines and timers run and the
sweep for expired tokens comes round; peers owe nothing, which is the point of
`LoginEnds`. `PaneSize` and `WatchEvents` have no liveness property.

## Findings

Comments of the code that what it does contradicts. The first two are runs that
expect the violation.

1. **Flush can miss a queued frame on a healthy connection** (`conn_flush_open`,
   `server.go:398`). A frame is visible to `sendLoop` before it is counted. With
   two senders that overlap, the discount of the first frame hides the second
   one: `pending` is 0 while an accepted frame is queued. `PendingAccounting` (in
   `QueueSound`) shows that the error is never more than the number of senders
   caught between the two steps, and that it heals. Counting before queueing
   (and uncounting when the queue was full) would close it.
2. **A task can be left waiting on an idle pane** (`tasks_stranded`,
   `workstate.go:78` against the comment at 122). A settle window that elapses
   while the pane is blocked is spent; the stop that clears the park arms no
   other, and the task's closure waits for a turn that need not come.

The others are refuted by a configuration of their own, kept beside the modules
(`tlc -config PaneSizeRecord.cfg MCPaneSize.tla`, and so on); each checks one
definition, and TLC's trace is the scenario.

| configuration | definition | what the code does |
| --- | --- | --- |
| `LayoutSyncDeferred.cfg` | `DeferredEditKept` | `layoutsync.go:188` sends a deferred drag only after an exact echo; when the daemon corrected the first write for a pane created meanwhile, the second drag is dropped, although the comment at 32 says the echo sends it. |
| `PaneSizeTakenBack.cfg` | `TakenBackRight` | `daemon.go:4357` takes a failed size back to the one from before the batch, under a new number; if another batch succeeded meanwhile, followers hold a size that is not the PTY's, out of reach of state frames (comment at 4351). |
| `PaneSizeRecord.cfg` | `RecordIsReal` | Of two overlapping batches, the one that resized first may record last (`daemon.go:4372`); the comment at 4374 says that the one recorded resized last. |
| `PaneSizeStale.cfg` | `KickIsTransient` | `resizeKick` applies, outside the lock, a size its caller read before (`daemon.go:4839`, 4872). A batch between the read and the last resize is undone, and since `Cols`, `appliedCols` hold the batch's size, the same-size guard skips every request that would repair it: the old size is not "transient rather than stuck", as the comment at 4821 has it. `LoneRecordIsReal` shows that this is what kicks can break. |
| `AttachHoldExited.cfg` | `LostIsRepainted` | The kick at a hold's release is for panes that run (`outputhold.go:292`): one whose output passed the limit and whose program has ended by then leaves the client with neither its bytes nor a repaint, where the comment at 49 promises the kick. `NothingMissing` shows that it is the only such pane. |
| `ServerStopAck.cfg` | `AckIsSaved` | A connection accepted between `Stop`'s two halves is never closed and served after the final snapshot (`server.go:779`); `daemon.go:706` says no change is answered that the snapshot has missed. |
| `ServerStopWait.cfg` | `ClosedHaveReturned` | `WaitConns` can answer true for a connection that was listed and closed but not yet counted (`server.go:912`, against the comment at 916). |
| `TcpLoginLate.cfg` | `NothingAfterRevoke` | A sender that looked before a revoke queues after it (`server.go:267`), where `ipc/auth.go:67` and `docs/security.md:59` say that nothing new is. |
| `WatchEventsWindow.cfg` | `WindowIsClosed` | An event between the look and the registration of a watch is skipped once a later one wakes it (`daemon.go:8468`, against the comment at 8465 and `docs/mcp.md:321`). |

Other things met while modelling, by design or of small consequence:

- `Flush` answers from the counter alone, so a failed write counts as delivered
  (`server.go:490`); nothing could reach that peer any more.
- At the release of a hold a live frame can overtake the last held one
  (`server.go:498`, `outputhold.go:178`); `OneJumpAtMost` shows it is one frame.
- The claim of `docs/architecture.md:1034` about notes holds as long as no process
  ended with a note revision that no snapshot had persisted; hence
  `OverwriteOnlyAfterLag`.
- `snapGens` is set before the buffer is written (`daemon.go:861`), so
  `SkippedMeansSaved` excepts failed writes; `SaveBuffer` removes the old file
  before it renames the new one (`ghostbuf.go:31`).
- The TUI does not look at `PaneSeenPayload.Rev`. A first resize that fails has
  nothing to take back (`bare` in `PaneSize`).
- A settle window that has fired and finds the pane idle resets a newer
  `idleTimer`; a delegate racing the pane's destruction leaves a task `sent` on a
  pane that is gone; a fall may finish a task whose prompt the agent has not
  looked at yet (`task.go:375`).
- The goroutine of a login timer is counted by nothing, so its audit line may
  come after the audit log is closed.
- `since_timestamp` is compared strictly, so events of one millisecond, and
  events stamped early and queued late, are skipped (`Indistinct`). An evicted
  watch's request is not answered. A watch's timer may win over a delivered
  event, which stays queued.

## Proofs

Eight modules of theorems, checked by TLAPS, about ten specifications. Each
specification has its inductive invariant (`IInv`; `LayoutIInv` and the layers
above it in `LayoutSync`; `HoldIInv` in `AttachHold`), proved from the initial
states and kept by every step, and from it every safety property of its run, for
every value of the constants. The bounds of the models (`MaxSends`,
`MaxRequests`, ...) are constants like the others, so the theorems hold for any
number of calls, requests, faults and restarts. TLC checked each invariant
before it was proved, on the bounds of the run or nearly so. What the runs add
to the proofs: that the properties can fail at all (the mutants), that every
action fires, and liveness.

The only assumptions are those in the modules: bounds are natural numbers
(positive where the code's limit is, and for the output a pane has at first), the names of different kinds of things
differ (`NoMaster`, `None`, `Nobody` is no client, `NoPane` is no pane, a size
is not the name of a phase of a restart), the clients that size are clients,
and, where something is counted, the counted processes are finitely many (the
connections of `ServerStop`, the senders of `IpcConn`, the clients and panes of
`LayoutSync`).

### ClientRegistry

Every safety property of the run `registry` is a theorem: `TypeCorrect`,
`SlotAlwaysSound` (from `IdsAreUnique`, `MasterAlwaysEligible`,
`KeptSlotIsTheSlot`, `SlotAlwaysFilled`), `MasterIsKnown` (from
`PublishedIsMaster`, `EveryoneIsTold`) and `SlotMovesOnlyInTurn` (from
`GraceIsKept`, `OnlyOwnerInherits`).

The properties are not inductive one by one: that the master is fit needs unique
ids, that a reserve is the slot needs to know whom it protects, that a follower
does not read itself as master needs that no twin carries a reserved id. The
invariant splits along the code's own line between an edit of the registry and
the election that follows it:

- `Ready(r)`: the registry is well formed, every client has an id, ids are
  unique, nobody attached wears a kept id (a remote client shadowed after a
  restart excepted), and the slot, if set, is the kept one. Every edit keeps it
  (`WithoutReady`, `GracedReady`, `ResizedReady`, `AttachReady`, `TakenSettles`).
- `Settled(r)`: the slot is held by a fit client, or kept with nobody holding it,
  or empty with no candidate.
- `ElectSettles`: from `Ready(r)`, `Elect(r)` is both. It is the heart of the
  proof: what the code's four rules guarantee, whatever happened before.

`IInv == TypeOK /\ Ready(reg) /\ Settled(reg)` is then inductive (`InitIInv`,
`NextIInv`, with one step per action), and gives the state properties. The two
action properties follow from it step by step (`GraceSurvives`,
`RestartReserveSurvives`). `EveryClientTold` has an invariance proof of its own.

### IpcConn

`CounterIsExact` (`QueueSound`: the types and `PendingAccounting`),
`AcceptedStaysInOrder` (`OrderKept`: `AcceptedInOrder` and
`OvertakenAtMostOnce`), `BulkKeepsToHeadroom` (`BulkLeavesRoom`).

What the counter is off by is a set of senders, those that have queued and not
counted yet; the proof moves one sender at a time in or out of it. That the
accepted frames are on the wire or still to come, in order, needs what
`sendLoop` has in its hand at each of its places (`Hand`), and that it leaves
its loop only on a closed connection. That bulk senders keep to the headroom is
inductive once those that have looked and not queued yet are counted with the
bulk frames in the queue (`BulkBounded`): each of them may be one too many.

### TaskLedger

`LedgerAlwaysSound` (`LedgerSound`), `CrashBeatsCompletion` (`DeadNeverDone`),
`OneOpenTaskClosedOnce`, and `SafelyImplementsFuture`: every behaviour of the
ledger is one of `TaskFuture` as far as safety goes. Initial states map to
initial states and each action maps to a step of `TaskFuture` or a stutter.

Every outcome is written by one operator, `Ended`, so most steps are one lemma
about it. The rest is who may decide a completion while the pane's exit is on
its way: `DoomedUndecided` says that no completion of a task that saw its pane
exit is decided, `AgentsNeverComplete` that only a plain terminal's command
completes by an event. `OneLive`, that a pane has one open task, is what
`addLive` checks; the closes of a task are counted against its end in
`ClosedAtEnd`.

The fairness conjunct of `TaskFuture!Spec` is not proved but checked
(`ImplementsFuture` in the run `tasks`).

### WatchEvents

`ParkedStaysWithinCap` (`QueueSound`), `WatchersStayLive` (`WatchersLive`),
`SkipsStayKnown` (`SkipsAreKnown`).

`IInv` has two halves. `ParkInv`: the list of watchers is written by one
dispatch goroutine, so at most one is listed and it is the newest; its goroutine
was admitted under the cap before it was listed. `OrderInv`: the queue is the
pushed events, newest first, without those dropped or replaced; and while a
watch is between its look and its answer, everything newer than the agent's
marker is accounted for, except what woke the watch.

### ServerStop

`PlacesAddUp` (`ServerSound`), `ListedAcksAreSaved` (`ListedAckIsSaved`),
`WaitCoversCounted` (`CountedHaveReturned`), and `NobodyStaysListening`, the
safety part of what the run checks as `StopEnds`.

Both counters count a set: the places of pending logins are held by those that
have neither logged in nor gone, the wait group counts those whose goroutine is
spawned or about to be. The counters' steps are steps on those sets, by the
theorems on cardinality. That a listed connection's answer is saved rests on the
order of `Daemon.Stop`: once a socket is closed it stays closed, and a change
is made before it is answered.

### AttachHold

`AttachTyped` (`AttachTypeOK`), `AppliedOnceInOrder` (`OnceInOrder`: `AppliedOnce`,
`ReplayThenHeld` and `OneJumpAtMost`), `AttachMissesNothing` (`NothingMissing`).

The invariant says where each byte of a stream is. `Phases` and `Kinds`: the
place of the handler says whether the connection is held, what the handler has in
hand and which kinds of frame may be where. `Reach`: no frame is ahead of its pane's
stream, and a flush that is inside the gate is where its last byte is. On these
rest the two halves of the property.

- Order. What the attach sends goes through one line: the client, the critical
  queue, the batch in hand, the hold. `InLine` says that the line has each pane's
  bytes in the order of the stream, not counting held bytes that the replay carries.
  Live frames have a line of their own (`LivesInLine`), and `Apart` puts each of
  them before everything the hold is about or behind it: those before have
  drained when the replay is read, unless the wait gave up, and those behind are
  published after the recheck that ended the hold. `Jumps`: `sendLoop` goes to
  its second select with an empty critical queue and back to the first after one
  frame, and a live frame comes only once the attach has queued its last, so one
  passes and no more.
- Presence. `StateFirst` says that the state frame precedes what the client must
  not ignore; `ReplayComes` and `RestComes` that every byte since the hold began
  is replayed, held, in hand, queued, applied, in the hand of its flush, shed,
  ahead of the state frame, or of a pane whose hold overflowed, which is to be
  kicked, has been, or had exited when it was its turn (`silent`). When the
  queues are empty and no flush is inside, what is left is `NothingMissing`.

The property allows what the code does: a lapsed drain wait (`holdDrainTimeout`)
is excepted from `AppliedOnce` and `OneJumpAtMost`, not from the rest.

### TcpLogin

`OneVerdictEach` (`LoginSound`), `RevokedStayOut` (`RevokedStaysOut`).

The state of a login is a lock. `Session(c)` says, for each place of the
dispatch goroutine and of the two that may refuse, what the state, the timer and
the index hold; from it, whoever moves the state to "refusing" is alone in
refusing, and nobody closes the socket before the refusal is flushed but its
peer. `Indexed`, that a connection that is logged in and open is in the index of
its token, and `Taken`, that the file has the tokens the memory has and a token
taken by a revoke is in neither, make a revoke hold.

### SnapshotStore

`SkippedIsOnDisk` (`StoreSound`), `LoadFindsLast` (`LoadFindsLastSaved`),
`OverwritesAreSeen` (`OverwriteOnlyAfterLag`).

`Rotates` says that Load would find the last save now, at every call between the
two renames, and that there is a primary whenever it is about to be put aside:
without it the backup dropped before may have been the only copy. `BufferKept`
gives the generation that is recorded before the write its place while the write
is under way, and orders it with the bytes: they are read after it, so the file
may be ahead of what is recorded, and is never behind; a ring that has the
recorded generation still has not written since, and the two are one.
`NotesAgree`, that revisions and texts count alike, holds until a process ends
with a revision that no snapshot had persisted (`lagged`), and a note adopted as
revision 1 agrees too, as it is the first.

### PaneSize

`SizesKeepTheirNumbers` (`SizesSound`), `RecordIsReached` (`LoneRecordIsReal`),
`FollowersStayInReach` (`FramesCorrect`).

Three layers. `Counted` and `Numbers` hold whatever overlaps: the numbers a
batch may still take are counted in advance (`Owes`), and nothing in flight has
a number that was not taken. `Alone`, `Real`, `Paired` and `ToldFirst` hold
until two are at work at once: whoever is at work found this PTY and the size it
would put back, has the newest number, and nothing else moves them. `Aimed` and
`KicksAlone` do the same for kicks that have not strayed: a kick of the present
PTY has in hand the size recorded, and no batch is at work, so `Real` may allow
that the PTY is one column short while such a kick is on its way. Once a kick
has strayed it has (`StrayingStays`), and nothing is claimed of the PTY.
`Recorded` covers the runs without a failure, overlaps included: the newest
number is recorded or on its way. `TakenBack` covers a refused size: a frame
that is newer than the record and differs from it is followed by a newer one
with the recorded size, or the batch at work will send one. When a follower
reads (`ReadingRights`), the frame it gives up is never the newer of two, which
keeps the correction.

### LayoutSync

`TreesStaySound` (`TreesSound`), `StatesGoForward` (`StateForward`),
`EditsAreKept` (`EditLostOnlyToOthers`), `RevisionsAreOwed` (`NoEchoStorm`). Four
layers, each proved with those below it.

- `Typed`, `Past` and `Ordered` are about one frame and one client. Whatever is
  in flight or held has a revision and a number the daemon has reached, and a
  frame with a later number has no older tree: `buildWorkspaceState` reads and
  numbers in one hold. `StatesGoForward` is this and the stale test.
- `Current`: a frame in flight with the daemon's revision carries the stored
  tree, as only a store makes a revision.
- `Undisturbed`: while no connection was lost and the tab has its first panes,
  trees differ in their last drag only, so nothing is corrected, pruned or
  placed; and a client that nobody else's tree has disturbed (`Alone`) has its
  write either on its way on the current revision, or stored as the next one,
  and shows what it sent unless a resend is owed. The echo that comes back then
  is exact, and sends a deferred drag.
- `Solvent` is a budget: `lrev` and what may still raise it is at most one, the
  drags, the closes asked for, the panes that came and those that went. All
  writes on the current revision are one debt, because one of them at most is
  stored; a write on an older one is no debt; a client that owes a resend, or
  waits for a pane it asked to close, holds one each.

The proof corrected the property. It once allowed a revision for each pane that
went, and not for each close asked for. Two clients cannot break that bound;
four can, when each asks to close a pane that comes and goes before its tree
was stored: each then prunes the pane from its own tree and writes, and of
trees that are equal a client takes one for its echo. The revisions stay
bounded, by the closes asked for.

### Only model-checked

- Liveness: `SendersReleased`, `HoldEnds`, `ReserveEnds`, `ExitEndsTask`,
  `EventuallySaved`, `Converges`, `StopEnds`, `LoginEnds`, `ExpiredCutOff`, and
  the fairness in `ImplementsFuture`. Fairness is out of this prover's reach.
- What the findings' configurations refute is refuted by TLC alone.

## Not modelled

- The warm shell pool, the pull request cache and the binary swap: next in the
  plan. Their hazards are listed without a property.
- The timer that types the Enter of a delegated prompt (`task.go:284`), which
  needs a model of the pane's input writer.
- `state_req` with its timeout (`tui/staterev.go:88`): its answer carries a whole
  state like any other frame, so no view depends on it for correctness.
- Tab moves, reservations, templates and overlays in the layout; batches of
  several panes in a resize; the ring buffer's eviction in an attach.
- SCRAM, the rights table, agent hooks' files, session discovery, sandboxes,
  worktrees, PTYs and processes, the TUI's rendering and keys, the command line,
  the web gateway, transports, configuration, utilities. They are sequential, or
  drive external programs; `PROJECT.json` gives the reason for each.

## Plan

1. Modules `WarmShell` (every session started is claimed or closed, nothing is
   counted after `Wait`), `PrCache` (a branch never shows another branch's pull
   request), `Binswap` (a good binary is always at the target or in a backup).
2. `PaneStream`, the abstract promise of an attach (each byte once, in order
   within what the attach sends), and `SizeMaster`, the abstract single-holder
   slot, with `AttachHold` and `ClientRegistry` shown to implement them.
3. The attach replay of events against dismissal, in `WatchEvents`; the input
   writer and the prompt's Enter, in `TaskLedger`.
