# Remnants in TLA+

Remnants is a desktop code editor, a fork of Code - OSS: one main process, a
window per workspace, an extension host per window, optionally a remote server.
Its own additions are small; the hard parts are the inherited services that keep
state across processes, awaits, crashes and reconnections. This directory holds
TLA+ models of those services, the TLC configurations that check them and the
TLAPS proofs about them.

All paths are relative to `src/vs/` of the repository unless they start elsewhere.

## Inventory

The hazards, each at its line, are listed in `PROJECT.json`.

| Component | State it keeps | Operations | Talks to | What is hard |
|---|---|---|---|---|
| Persistent protocol, `base/parts/ipc/common/ipc.net.ts` | message and acknowledgement counters, queue of unacknowledged messages, write buffer, timers, current socket | send, receive by type, ack and keep-alive timers, pause and resume, begin/endAcceptReconnection | the other end over a socket; the remote connection above | sockets die with data in them, reconnection, hand-off of a socket to another process, time-outs |
| Write-behind storage, `base/parts/storage` | cache, pending inserts and deletes, delayer, throttler, the database | set, delete, flush, whenFlushed, close | clients, SQLite | a change while a batch is written, errors in a transaction, close after errors, crashes |
| Text file editor models, `workbench/services/textfile` | text, version, dirty, conflict and error flags, last resolved stat, running and queued save, running resolve | edit, undo, save, revert, reload on file events | the user, save participants, the file service, other programs | everything awaits, everything may change meanwhile |
| Shared storage, `platform/storage` | a cache per window, the main process's store, debounced change events | get, set, change events | all windows | echoes of one's own changes, stale caches |
| Remnants release notice, `workbench/contrib/remnants` | last check and dismissed release (in shared storage), an hourly timer | check if due, notify, dismiss | settings, storage, a web site | several windows, one daily gate |
| Remnants dock, quiet start, defaults, `workbench/contrib/remnants` | status bar entries | refresh, toggle | layout | nothing that interleaves |
| Remote connection, `platform/remote`, `server/node` | reconnection loop, permanent failure, two grace timers, the socket of each end | reconnect, give up, accept, hand over, dispose | persistent protocol, the host's process | time-outs against late successes, sockets left meanwhile |
| Channels, `base/parts/ipc/common/ipc.ts` | handlers, active and pending requests | call, listen, cancel, register | a FIFO protocol | cancellation, channels registered late, disposal |
| Backups, `workbench/services/workingCopy` | scheduled operations, content versions, backups on disk | schedule, back up, discard, restore, shut down | working copies, file system | an old operation finishing after a newer one |
| Stored file working copies, same directory | as text file models | as text file models | notebook and custom editor models | model updates that await |
| Async primitives, `base/common/async.ts` | queues, timers, running tasks | queue, trigger, cancel | everything | who is told what, when a task fails |
| Extension activation, `workbench/api/common/extHostExtensionActivator.ts` | an operation per extension, events marked as activated | activate by event or id, apply deltas | extension code, the window | dependencies, failures, deltas between calls |
| Extension service and registry, `workbench/services/extensions` | registry, queue of deltas, events asked for, running hosts | install, uninstall, ask for an event, restart after a crash | extension hosts | updates and crashes under way, knowledge of another process |
| Application life cycle, `platform/lifecycle/electron-main` | pending quit, windows to close | quit, unload, vetoes | all windows | a veto while others close |
| Undo and redo, `platform/undoRedo` | a stack per resource, locks | undo over several files | text models | edits while preparing |
| Settings sync, `platform/userDataSync` | last synchronised reference, local and remote data | sync, merge, apply | a server | two machines at once |
| File service and watchers, `platform/files` | providers, watched resources | read, write, stat, watch | file systems | stat, read and write are not atomic |
| Editor and workbench, `editor`, `workbench` | text models, views | user interface | everything | large, sequential, event driven |
| Command line and tunnels, `cli/`; shipped extensions, `extensions/`; build, site, patches | – | – | – | separate programs and scripts |

What makes each correct: the protocol is a FIFO channel that survives its
sockets; the storage loses nothing it has accepted and leaves a whole older
state at a crash; a text model never calls unsaved text saved, never overwrites
what nobody has seen, and never overwrites the user's typing; the shared storage
agrees in all windows when it is quiet; the release is asked for once a day; a
connection in use is never disposed of, and a lost one is taken up again or given up
at both ends; a request is run once and answered; a backup is of the newest contents,
or there is none, and a shutdown that is agreed to loses nothing; an extension runs
after its dependencies and, once asked for, in the end; nothing quits over a veto.

## Modules

| Module | Is |
|---|---|
| `FifoChannel` | the promise of a message passing protocol (`IMessagePassingProtocol`): in order, once each, nothing invented |
| `PersistentProtocol` | both ends of the protocol, the writer, the sockets, the server's hand-off; refines `FifoChannel` |
| `PersistentProtocol_proofs` | its inductive invariants and the refinement, proved |
| `WriteBehind` | the promise of a write-behind store: the disk is always a whole earlier state |
| `Storage` | `Storage` over `SQLiteStorageDatabase` with delayer and throttler; refines `WriteBehind` |
| `Storage_proofs` | its inductive invariant and the refinement, proved |
| `TextFileModel` | a text file with its saves, reverts and reloads, and other programs changing the file |
| `TextFileModel_proofs` | its inductive invariants, proved |
| `SharedStorage` | the application storage of several windows over the main process's, with its messages |
| `SharedStorage_proofs` | its inductive invariant, and that of `ReleaseNotice`, proved |
| `ReleaseNotice` | Remnants' release notice in several windows; composes with `SharedStorage` by extending it |
| `BackupTracker` | the backups of a working copy: tracker, backup service and its queue, restoring, shutting down |
| `BackupTracker_proofs` | its inductive invariant, proved |
| `RemoteConnection` | all connections of a window to a server: reconnection loops, permanent failure, the server's grace timers, the hand-over to the host's process |
| `RemoteConnection_proofs` | its inductive invariant, proved |
| `Channels` | a channel client and a channel server over one connection, which is what `FifoChannel` promises |
| `Channels_proofs` | its inductive invariants, proved |
| `ExtensionActivation` | the window's extension service and registry with an extension host and its activation operations |
| `ExtensionActivation_proofs` | its inductive invariant, proved |
| `MC*` | constants and symmetry for TLC |

The modules stack up as the code does: `Channels` and `ExtensionActivation` use a
connection that keeps order and loses nothing, which is `FifoChannel`;
`PersistentProtocol` implements that over sockets that die; `RemoteConnection` says
when there is a next socket; `SharedStorage` uses channels, `ReleaseNotice` extends
`SharedStorage`, and `Storage` is the store at each of its ends.

Definitions called mutants in comments are wrong variants of the definition that
follows them: each property is shown to notice one.

### PersistentProtocol

A socket is an *epoch*; `wire[e][s]` is what end `s` wrote to socket `e` and
nobody read yet. `sock[s]` is the socket an end is on. The counters, the queue
`unack` (`_outgoingUnackMsg`) and the writer carry their names from the code; a
timer is a Boolean that may fire at any moment, so every value of the real delays
is covered. `Send`, `SendKeepAlive`, `WriteNow`, `AckTimeout`, `UnackTimeout` are
the methods and timer callbacks; `ReceiveNext` .. `ReceiveControl` are the cases
of `_receiveMessage`; `Reconnect`, `AcceptManagement`, `AcceptExtensionHost`,
`AttachExtensionHost` are the two halves of a reconnection
(`remoteAgentConnection.ts`, `remoteExtensionHostAgentServer.ts`,
`extensionHostProcess.ts`). What the socket loses when an end leaves it is lost.
A lossy network, the case `ReplayRequest` is written for, and the hand-off are
constants. History variables `sent` and `received` record what `send()` was given
and what `onMessage` has fired.

### Storage

One action is one callback with its microtasks. `stage[c]` follows the promise
caller `c` waits for through `ThrottledDelayer` and `Throttler`: that is where the
subtleties are, since a queued flush's promise behaves differently from a running
one's. `DatabaseStep` is the answer of SQLite, good or bad; `erroneous` is the
flag a bad one leaves. Closing is split where the code awaits: close, unlink the
damaged file, write the cache to a fresh one. `Restart` is a crash or an exit at any
moment. Rows are functions from keys to values.

### TextFileModel

One action is what runs between two awaits. A text is a number, fresh for every
edit and every change from outside, with `Length(text)` for the size that etags
compare; `model.alt` is the alternative version id, which undo brings back. A save
goes through `throttled`, `participants`, `validating`, `writing`, `stat`; the
sequencer holds a *task id*, which is the version the save was asked at and later
the version it writes, so that the same save settles two promises (`Ended`). A
resolve goes through `stat`, `read`, `apply`; a forced one may read before it makes
its stat (`ReadEarly`, `StatLate`), as `doReadFileStream` does without an etag.
`FileEvent` is a change event of the watcher, which drops intermediate ones. A
failed write may leave anything in the file. A text that was in the file once counts as
saved for `CleanIsSaved`, also when a later write of it broke off (see the disagreements).

### SharedStorage

`main` is the cache of the main process's `Storage`, `changed` what its debouncer
holds; `cache[w]`, `pending[w]` and `busy[w]` are a window's `Storage` with
`ApplicationStorageDatabaseClient` as its database. `toMain[w]` and `toWindow[w]` are the
two directions of the IPC connection. `Open` is the constructor and `init()`, `Set` is
`set()` or, with `Unset`, `delete()`, the `Receive...` actions are what the window does
with answers and events (`ReceiveChange` is `acceptExternal()`), the `Handle...` actions
the cases of `StorageDatabaseChannel`. `FireChange` reads the values at the moment the
debouncer fires and sends them to every window that listens, the author of the change
included: `Event`. A closing window takes no more events but still flushes; a crash drops
what the window had not sent. When a window flushes is left open here: `Storage` is the
module about that.

### ReleaseNotice

Extends `SharedStorage` with two keys. `Look` is `checkIfDue()`, by the hourly timer, a
change of the settings, or the start of a window; `Ask` stores the time in the window's
own cache and sends the request, `Answered` is its end, good or bad. Hours are the unit
of time, and `CheckInterval` stands for the 24 of them. `Tick` is an hour: it passes only
after every timer has fired, every request has ended (20 s) and the storage has settled
(100 ms timers), which is the one place where the model relies on real time. `age` and
`lastDismissed` are history. A window leaves only by closing: after a crash the time of
its check may never reach anybody.

### BackupTracker

One working copy; each has a pending operation and a queue of its own. `pending` is the
entry in `pendingBackupOperations`, a backup (`timer`, `capture`, then `io`) or a discard;
`queue` is the `ResourceQueue` of the backup file, whose head may have started
(`running`). A token is a field of the operation (`live`), looked at only when its turn
comes, as in `doBackup()`. `model` is `WorkingCopyBackupsModel` and `disk` the file; a
write that fails or dies leaves `Corrupt`. `version` is the tracker's count of content
changes, which starts anew when the copy is registered again. `shutdown` follows
`onFinalBeforeShutdown()` through every answer of the user up to `leaving`; the tracker is
`Suspended` in between. `lapses` is history and names the ways in which the code gives up
a backup without saying so; the properties exclude exactly those, and each is listed under
*Disagreements*. `since` is what the next session may show after this shutdown.

### RemoteConnection

Connections have a row of sockets each. `loop` is where `_runReconnectingLoop()` is
(`none` when `_isReconnecting` is false), `failed` that ReconnectionPermanentFailure fired,
`permanentFailure` the static flag. `runner1` and `runner2` are the two schedulers of
`ManagementConnection` and `extensionHostProcess.ts`. For a connection in `Fatal` the
server takes the socket over at once; any other goes through `handed` to the host's
process, in any order (`ReceiveSocket`). Every client that connects shortens the wait of
all (`Shortened`). Real time is left out: a timer that runs may fire at any moment, a grace
time may be over at any moment.

### Channels

A request is its id. `calls` and `listening` are what the caller sees, `handlers`,
`pending`, `timers`, `running`, `active` and `subscriptions` are the maps of the code.
`DoRequest` is what happens once the server has said it is there, and may throw while it
serializes. `FlushPendingRequests` is the callback of `setTimeout(0)` in
`registerChannel()`; requests that arrive before it are run at once (`HandleRequest`).

### ExtensionActivation

The window and the host are two processes with one queue in each direction. `registry` is
the window's, `hostRegistry` the host's; a version stands for an extension's code, and 0
for no extension. `BeginDelta`, `DeltaApplied`, `EndDeltas` are the loop of
`_handleDeltaExtensions()`, cut where it waits for the host. In the host
`HandleDelta`/`ApplyDelta` are `$deltaExtensions()` before and after its await; an
activation operation goes through `waiting`, `asking`, `activating` to `ok` or `failed`,
and `Proceed` lets every operation go on that can, as the microtasks after a message do.
`MCExtensionActivation` takes two extensions for one event, one depending on the other.

## Runs

| Run | Shows | Bounds | States |
|---|---|---|---|
| `pp_management` | `UnackWindow`, `NothingForgotten`, `WatchdogArmed`, refinement of `FifoChannel`, over a network that also drops single messages | two reconnections, client sends 2, server 1 | 2.5 M |
| `pp_live` | `GapFree` with hand-offs, `EventuallyDelivered` | two reconnections, client sends 2 | 133 k |
| `st_store` | `NothingLost`, `FlushIsDurable`, refinement of `WriteBehind`; `EventuallyWritten`, `WhenFlushedReturns`, `HealthyCloseReachesDatabase` | 2 keys, 1 value, 3 changes, 2 sessions, errors | 224 k |
| `st_close_stuck` | **violated**: `CloseReachesDatabase`, with errors | 2 changes, 1 session | |
| `tf_model` | `CleanIsSaved`, `SingleSave`, `NothingOverwrittenUnseen`, `ReloadKeepsEdits`, `SavesEnd`, `ReloadShowsFile` | 2 versions after the first, 2 saves, 1 revert, 1 change from outside or torn write | 553 k |
| `tf_failed_revert` | **violated**: `CleanIsSaved`, when the read of a revert fails | 2 versions, 1 save, 1 revert | |
| `ss_windows` | `NoneLeftBehind`, `EventuallyAgree` | 2 windows, 1 key, 2 values and none, 1 unread event per window | 613 k |
| `rn_notice` | `CheckedToday`, `OnceADayEach`, `DismissedStays` | 2 symmetric windows, days of 2 hours, 3 hours, 2 releases | 1.8 M |
| `bt_backups` | `BackupIsCurrent`, `BackupsMatch`, `ShutdownKeepsContents`, `EventuallyBackedUp` | 3 contents, 2 sessions, 2 shutdowns, 1 failing file operation | 1.5 M |
| `ea_activation` | `DependenciesFirst`, `RunningIsKnown`, `NoneHangs`, `ActivatedInTheEnd` | 2 extensions, 1 event, 2 versions of each, 1 waiting delta, 1 crash | 93 k |
| `rc_reconnect` | `TimersOnlyWhileLost`, `BothOnOneSocket`, `NoneForgotten`, `BackOrGivenUp`, `ServerLetsGo` | the management connection and one other, 2 sockets to reconnect, 3 losses or false time-outs | 294 k |
| `ch_channels` | `RunOnce`, `ServerFollows`, `AnswerUnderWay`, `CallsEnd` | 1 call, 1 event listened to up to three times | 31 k |

States are distinct states. Type invariants are in no run's configuration: those
of all nine detailed modules are proved.

**Why the bounds are enough to be of interest.** A reconnection with messages in
flight, one more during it, and acknowledgements lost with the old socket need two
messages and two sockets beyond the first; the hand-off may take over those two out of
order. Three changes let a key be set, deleted
and set again around a batch in flight; two sessions let a crash be observed. In a
text model one save can run while another is queued, a participant or the user can
edit during each, and undo has an earlier version to return to. With one change
from outside, the check of a save and the reading of a reload each race it.
In the shared storage one key is enough, since messages about different keys do
not disturb each other, and two values and a deletion let an echo carry an older value
than the pending one; `MaxQueue` bounds only unread events, and 2 was run without
liveness (3.7 million states, no error). The proof has none of these bounds. Three hours
with a day of two let a day pass and the clock be set back into it.
Three contents are the saved one, an edited one and one typed while the other is being
backed up; the second session reads what the first left. With two sockets a reconnection
can be left for another one while the server finishes the first; three losses let each be
lost again. One call and one event meet every order of their own messages; requests do not
disturb each other except by their order in the queues, and a larger instance with two
calls and an event listened to twice (880 thousand states) has no error either. With one
dependency an operation is created by its own request and by another's, in either order.

**Deadlock** is not checked: the bounds end every behaviour (`Max...`), and an idle
connection, a closed store or an editor nobody touches legitimately stops. That
nothing is stuck that ought to go on is stated by the liveness properties and by
`WatchdogArmed`.

**Fairness** is weak and on the machinery only. Protocol: a write or acknowledgement timer
that is set fires, and a socket both ends are on delivers; liveness is then conditional on
the connection staying up. Storage: the delayer fires (`setTimeout` and microtasks), and
SQLite calls back, with success or an error. Text models: the file service answers,
participants end (they run with a time-out and the user's cancel), queues run, a watcher's
event arrives. Shared storage: flush timers and the debouncer fire (the debouncer starts
anew with each change, but fairness is only used once changes stop), IPC delivers, and a
window that closes gets there. Backups: timers fire, a copy gives its content, the file
system answers, well or not. Remote connection: both ends learn of a closed socket, timers
run out, and an attempt ends, but nothing says that one succeeds. A close event that comes
while the window's loop runs is dropped (`remoteAgentConnection.ts:630`); the window then
learns of it by the keep-alive time-out (`ipc.net.ts:1187-1213`), and `ClientNoticesClose`
stands for both. Connecting and the handshake have a time limit, `RECONNECT_TIMEOUT`;
`resolveConnectionOptions()` is awaited before it is set (`remoteAgentConnection.ts:681`)
and has none, so that the resolver answers, with an address or an error, is an assumption.
Channels: messages arrive, timers fire and a call settles; nothing makes a channel appear.
Activation: messages arrive, the window goes on with its queue and starts a host after a
crash, `activate()` ends. Nothing is assumed of users, clients, networks or other programs.

## Disagreements found

- `st_close_stuck`. `doClose()` must close the database "even if there is an error
  flushing". When the flush of close is queued in the throttler behind another and
  its update fails, the queued promise is never settled: the `.then(resolve)` has no
  rejection handler. `close()` then never returns.
- `tf_failed_revert`. The revert command also reverts models that are not dirty. If
  the user types while such a revert reads and the read fails, the flags from before
  the revert are restored and the typing counts as saved, against the contract of
  `isDirty()`.

Not in a run of their own, but seen on the way and part of the models:

- Text models: edit, save, and undo while the write runs. Undo reaches the version still
  remembered as saved and cleans the flag, the write then succeeds for another version
  and leaves the flag alone: the model is clean and shows the old text, the file has the
  new one, and the etag says there is nothing to reload.
- Text models: after a failed write, which may have truncated the file, the model is dirty
  "to prevent data loss" (`textFileEditorModel.ts:982`). When the save was forced on a model
  without changes, the version remembered as saved is still the one whose write failed: an
  edit that is undone brings it back (`:619`) and clears the dirty and the error flag, with
  the only copy of the text in the editor.
- Release notice: "Once a day, ask the Remnants download site" (README.md:195). The gate
  is read from the window's own cache, so windows that look at it at the same time all
  ask. What does hold is `OnceADayEach`. Only one dismissed release is remembered, so
  dismissing a second one would let the first show again if the site went back to it.
- Storage: `flush()` without a reason awaits `whenFlushed()`, which does not wait for a
  batch the database is still writing (`WhenFlushed`). A `set()` of the value an echo has
  just brought back returns early while a newer value is pending, so the newer one stays
  (`Set` in `SharedStorage`).
- Backups: a shutdown that is vetoed has cancelled the pending backups and schedules none
  anew, so that a modified copy has no backup until its next change, and events that come
  while the tracker is suspended are dropped (`"missing"`). A backup that fails is not
  tried again (`"missing"`). Before the tracker is ready a shutdown discards nothing, and
  a soft revert, or a discard that is cancelled or fails, leaves a backup the next session
  brings back (`"leftover"`); a leftover may then count as current for a copy that is
  opened again, whose versions start anew. `discardBackups()` deletes the folder without
  waiting for the queues of single files. A write truncates the only backup first, so a
  crash in the middle leaves none.
- Activation: `canRemoveExtension()` keeps an extension whose activation has started, as
  far as the window knows. An event may be on its way when an update leaves the window:
  the host then runs the old code although both registries have the new version. A crash
  while the loop over the queue awaits the host ends the loop with an error; what is in
  the queue stays there until the next installation.
- Remote connection: after a permanent failure there are "no more attempts!"
  (`platform/remote/common/remoteAgentConnection.ts:643`), but an attempt that is under
  way when another connection fails for good still connects, and fires ConnectionGain on
  a protocol that is disposed.
- Channels: a call that was answered with a time-out is run all the same when the channel
  appears (`FlushPendingRequests`). Cancelling a call or a subscription whose request is
  kept is forgotten, so that it is run later; listening, stopping and listening again
  while the channel is unknown leaves two subscriptions under one id, of which only one
  is ever ended, and events come twice until then. A request that arrives between
  `registerChannel()` and its flush overtakes the kept ones. `dispose()` of the server
  keeps the kept requests, and a flush that is due still runs them. `RunOnce`,
  `CallsEnd` and `ServerFollows` say what holds in spite of this.

## Proofs

The proof modules hold for every value of the constants; they assume only the
`ConstantsAssumption` of their module and, for `ReleaseNotice`, `NoticeAssumption`. Two
theorems have a hypothesis besides: a revert's read does not fail. The argument is the usual one: `Init => IInv`, one lemma per action for
`IInv /\ [Next]_vars => IInv'`, and the properties from `IInv`. The invariants were found with
TLC's help: candidates were checked on small instances before they were proved.

*PersistentProtocol.* The properties speak of counters and queues at both ends but
messages travel, so the invariant has to say what may be travelling. `AllFaithful`:
every message kept, buffered or on any socket, old ones included, acknowledges no
more than its sender has acknowledged and carries, under its number, exactly what
was sent under it. `Counters` orders the counters of the two ends: acknowledged,
received, sent. `Window` is the shape of the queue, `Prefix` that what was accepted is
a prefix of what was sent. A new message is accepted only under the next number, and
being faithful it carries the next thing sent: that is `Refinement`. An
acknowledgement taken from a faithful message is below what the other end accepted,
so dropping the acknowledged prefix forgets nothing: `NothingIsForgotten`,
`WindowCorrect`. It needs no assumption on the network: the proofs include the lossy
one and any hand-off. `WatchdogArmed` is inductive with that: what is not acknowledged
is the queue, and every step that can fill an empty one, or ends a reconnection, sets the
timer. `GapFree` is about a network that loses only what was on a socket left, and has an
invariant of its own, `RInv`. `ToServer` and `ToClient` say that what is on the current
socket and in the writer continues, without a gap, what the other end has accepted, up to
the last message sent (`Gapless`, `Covers`): an end may fall back, as queued messages are
written again, but not skip. They hold at once for the socket the client has moved to, while
the server still reads another: `SocketPhases` says which socket is at what stage, and
`HeldBack` that the client writes no message there before the server has taken it over,
since it is reconnecting, and then told to pause. `NoReplay`: on such a network no
`ReplayRequest` is ever sent.

*Storage.* `NothingLost` is inductive only with the state of the throttler
(`Throttled`: no request in flight without an active promise) and of a process just
started (`Fresh`). `FlushOwes` says where the changes a caller of `flush(0)` is owed
can still be at each stage of its promise; `Closing` follows close through the same
stages and shows that the database is closed with nothing pending and nothing in
flight. `Refinement` maps the memory to the cache, the staged snapshot to the disk
with the request in flight applied, and closing to the last step. `CallersHaveWork` is the
safety half of `WhenFlushedReturns` and `HealthyCloseReachesDatabase`: by `Pursued` what
each stage of a promise waits for is there, and `PendingHasFlush` and `Throttled` lead from
that to the timer or the database; the promise of `st_close_stuck` is the exception.

*TextFileModel.* `SingleSave` and `NothingOverwrittenUnseen` follow from what saves and
resolves remember across their awaits. `OneSave`: there is one save at most, and the
sequencer holds it under the version it was asked at, later under the one it writes, so
that whoever asks at that version joins it. `Snapshot`: the text a save writes was shown.
`Known` and `Seen`: a version of the file that the model, a save or a resolve remembers is
the one on disk or an older one, and if it is the one on disk, the model has shown it; that
is why a write that passes the check of its etag overwrites nothing unseen. `CleanIsSaved`
and `ReloadKeepsEdits` are about undo, which brings back an alternative version id.
`OneText`: an id belongs to one text. `SavedText`: a text with the id remembered as saved
has been in the file, whatever version the model is at now. `Written` and `Read` say the
same of what a save is about to remember and of what a resolve is about to show. This needs
that no revert's read fails; `tf_failed_revert` shows that it is false otherwise.

*SharedStorage.* `NoneLeftBehind` speaks of a window whose changes have reached the main
process; the invariant has to say why nothing gets lost before. `NewsIsTrue`: if an event
about a key is not due, the last message on its way to a window that says anything about
it says what the main process has. `OwnOrMain`: an open window that no message or due
event will tell anything shows what the main process has, or a change of its own that is
pending or the last word on its way there. `Listeners` says who hears events: a window
that misses them (`listen` still under way) has its `getItems` behind the `listen` in the
same queue. A change that reaches the main process either differs, and then an event is
due for everybody, or agrees, and then the author shows the same. `AnswersFit` and
`CallsFit` say what kinds of messages carry.

*ReleaseNotice.* Its steps are steps of `SharedStorage` (`NoticeUsesStorage`), whose
invariant they keep. What
might go wrong is that an echo of an older time makes a window ask again. `OnlyNews`: as
the clock stands still until the storage has settled, all that is under way says the time
of now, or the release dismissed last, so an echo never takes a value back. `Remembered`: a
window that has asked within a day finds that in its own cache while it is open, and in the
main process or on its way there, also when it is closed and opened again; the values it is
sent then say so too, as they leave behind whatever it had sent before (`Exchanges`: of each
kind one call or its answer is under way, and only while it is waited for). `Looked` and
`Hours` give `CheckedToday`. `DismissalKept`: a dismissal is in the main process or on its
way, and when the storage has settled every window's cache agrees with the main process
(`SettledShows`, from `OwnOrMain`). A common lemma, `StorageKeeps`, says which steps of the
storage keep all this, and each of its actions is shown to be such a step.

*BackupTracker.* Operations wait in the queue with what they captured long ago. `Tokens`:
the tracker and the shutdown each have one live operation at most, for the current version.
`Captured`: along the queue, up to the copy and to what a shutdown holds, versions grow, and
the same version means the same content; `BackupFits` puts the backup on disk before all of
them. So a write that is skipped because the backup has its version already loses nothing,
and one that runs late is followed by the newer one. `NothingMissing` and `NothingLeft` say
that a modified copy has its backup, or one is pending, and an unmodified one has none, or a
discard is pending. `Remembered` follows the shutdown: what the next session may show is
what was in the copy or its file meanwhile, and `Agreement` that, once everybody agrees,
no operation still in the queue changes what will be restored. All are conditional on the
`lapses` listed under *Disagreements*, as the properties are.

*RemoteConnection.* `TimersOnlyWhileLost` is inductive with the types: closed sockets
stay closed, and whoever moves the server to another socket stops the timers.
`BothOnOneSocket` compares the two ends of a connection, which are never changed
together. `Settled`: a loop that has ended on an open socket has read an answer there, as
it ends otherwise only when all has failed (`FailedTogether`). `Answered`: a good answer on
an open socket means that the server, or the hand-over, has that socket; moving to another
one closes it. `NoneHanded` keeps the hand-over to the connections that have one, and
`Counted` bounds the sockets. `NoneForgotten` is what safety there is in `ServerLetsGo`: the
server is on the window's socket, or has not heard of the close yet, or a timer runs.
`OldLeft` and `OnlyOpened` give the first, as the window closes its socket before it opens
another and the server learns of sockets from the window only; `Watched` the last, as whoever
stops the timers forgets the close along with them.

*Channels.* That a call runs once depends on where its one request is. `NotYet`: a call
that has not been sent has no request anywhere. `OneRequest`: the request of any other
call is on its way, kept for the channel, or run, and in one of these places only;
`Execute` counts how often a request occurs in what it runs, so the proof rests on a lemma
about how often something occurs in a sequence. `Subscribed` is for the types: a
subscription is ended only while it counts as active. `ServerFollows` needs another
invariant. `Told`: the messages about an emitter alternate between request and end, from
what the server has now to what the client wants. `ExactlyActive`: what the server has is
one subscription for each active emitter. `StopBehind`: a cancelled call has its
cancellation behind its request, or has been cancelled where it runs. `Gone` is about a
client or server that is disposed. Kept requests are excepted, as in the property.
`AnswerUnderWay`, the safety part of `CallsEnd`, follows each handler:
`AllDue`, its request is on its way, kept with a timer, run, or answered (`TimersOfKept`:
the flush ends a timer and runs the request at once), and `Greeted` with `WaitEarly`, that
calls wait only while the server's first message is under way.

*ExtensionActivation.* `DependenciesFirst` rests on `Sound`: an operation that waits waits
for all its dependencies (`WaitsForAll`), and one that has gone on has seen all of them
succeed (`InOrder`). `Proceed` lets all operations go on that can, in as many rounds as there
are extensions, and `Sound` is kept by each round, by induction on their number; the
library's induction theorems cannot be used here, so the lemmas rest on the smallest
element of a set of numbers. `RunningIsKnown` compares the window and the host, which see
each other through two queues: `OneQuestion`, whether an extension may run is asked once
and answered once, and until the answer the operation waits; `OneDelta`, a change of the
registries is at one place at a time, and while it is, the window takes no other.
`NoneHangs`, the safety part of `ActivatedInTheEnd`, has an invariant of its own (`BInv`).
`Known`: what an operation waits for has an operation, as a request creates those of all it
reaches; `WithDependencies` repeats as often as there are extensions, and that its last
round adds nothing is a matter of counting (`ChainStops`: a chain of sets that grows must
stop by then). The same lemma shows that after `Settled` no operation can go on, so that
what still waits has a dependency that has not ended (`Waits`). `Asked` follows question
and answer through the two queues, `Awaiting` the operations an event waits for, and
`Stopped` says that nothing is left of a host that crashed. No step assumes that
dependencies have no loops; with one, its operations wait for each other, which
`NoneHangs` allows and the registry prevents by taking loops out.

| Theorem | Property | |
|---|---|---|
| `PersistentProtocol_proofs!TypeCorrect` | | `TypeOK` |
| `PersistentProtocol_proofs!WindowCorrect` | `UnackWindow` | |
| `PersistentProtocol_proofs!NothingIsForgotten` | `NothingForgotten` | |
| `PersistentProtocol_proofs!Refinement` | `ChannelSpec` | safety part of `FifoChannel` |
| `PersistentProtocol_proofs!SomebodyWatches` | `WatchdogArmed` | |
| `PersistentProtocol_proofs!NoGaps` | `GapFree` | |
| `Storage_proofs!TypeCorrect` | | `TypeOK` |
| `Storage_proofs!NothingIsLost` | `NothingLost` | |
| `Storage_proofs!PendingIsScheduled` | | `PendingHasFlush` |
| `Storage_proofs!CallersHaveWork` | | `WorkAhead` |
| `Storage_proofs!FlushesAreDurable` | `FlushIsDurable` | |
| `Storage_proofs!CloseIsDurable` | | `ClosedIsDurable`, which the refinement's `Close` promises too |
| `Storage_proofs!Refinement` | `WriteBehindSpec` | safety |
| `TextFileModel_proofs!TypeCorrect` | | `TypeOK` |
| `TextFileModel_proofs!OneSaveAtATime` | `SingleSave` | |
| `TextFileModel_proofs!NothingUnseen` | `NothingOverwrittenUnseen` | |
| `TextFileModel_proofs!CleanShowsSaved` | `CleanIsSaved` | unless reverts fail to read |
| `TextFileModel_proofs!EditsSurviveReload` | `ReloadKeepsEdits` | unless reverts fail to read |
| `SharedStorage_proofs!TypeCorrect` | | `TypeOK` |
| `SharedStorage_proofs!NobodyIsLeftBehind` | `NoneLeftBehind` | |
| `SharedStorage_proofs!NoticeTypesKept` | | `NoticeTypeOK` |
| `SharedStorage_proofs!NoticeUsesStorage` | | `NoticeSpec => Spec` of `SharedStorage` |
| `SharedStorage_proofs!ChecksEveryDay` | `CheckedToday` | |
| `SharedStorage_proofs!AsksOnceADay` | `OnceADayEach` | |
| `SharedStorage_proofs!DismissedForGood` | `DismissedStays` | |
| `BackupTracker_proofs!TypeCorrect` | | `TypeOK` |
| `BackupTracker_proofs!BackupsAreCurrent` | `BackupIsCurrent` | |
| `BackupTracker_proofs!BackupsAreRight` | `BackupsMatch` | |
| `BackupTracker_proofs!ShutdownsKeepContents` | `ShutdownKeepsContents` | |
| `RemoteConnection_proofs!TypeCorrect` | | `TypeOK` |
| `RemoteConnection_proofs!NoTimerInUse` | `TimersOnlyWhileLost` | |
| `RemoteConnection_proofs!OneSocket` | `BothOnOneSocket` | |
| `RemoteConnection_proofs!ServerForgetsNone` | `NoneForgotten` | |
| `Channels_proofs!TypeCorrect` | | `TypeOK` |
| `Channels_proofs!CalledOnce` | `RunOnce` | |
| `Channels_proofs!ServerKnows` | `ServerFollows` | |
| `Channels_proofs!NobodyWaitsInVain` | `AnswerUnderWay` | |
| `ExtensionActivation_proofs!TypeCorrect` | | `TypeOK` |
| `ExtensionActivation_proofs!DependenciesRunFirst` | `DependenciesFirst` | |
| `ExtensionActivation_proofs!WindowKnows` | `RunningIsKnown` | |
| `ExtensionActivation_proofs!NoActivationHangs` | `NoneHangs` | |

The theorems cover every safety property that a run checks. Only model-checked is all
liveness, since fairness and ENABLED are out of the prover's reach: `EventuallyDelivered`,
`EventuallyWritten`, `WhenFlushedReturns`,
`HealthyCloseReachesDatabase`, `SavesEnd`, `ReloadShowsFile`, `EventuallyAgree`,
`EventuallyBackedUp`, `BackOrGivenUp`, `ServerLetsGo`, `CallsEnd` and
`ActivatedInTheEnd`. Of some of them the safety part is proved, that whoever waits has
something under way that will end it: `WatchdogArmed`, `NoneForgotten`, `AnswerUnderWay`,
`NoneHangs`, `SingleSave` (for saves) and, for the store, `WorkAhead`.

## What the models leave out

- Protocol: byte framing, `Disconnect` and disposal, the load estimator (its answer,
  "there is high load", is a free choice), message contents beyond a token.
- Storage: opening a corrupt file from its backup or in memory, the in-memory hint,
  VACUUM, value conversion, change events, changes made before `init()` answers
  (clients must wait for it).
- Text models: orphan tracking, encodings, read-only and binary files, soft revert,
  disposal, resolving from a backup, the events for deletions. File times increase
  with every change and one read sees one text. Races that no program can exclude (a
  change between the validation of a write and the stat after it, or within a forced
  read) are modelled and excluded from `NothingOverwrittenUnseen` by the history
  variable `raced`; a failed reload is excluded from `ReloadShowsFile` by `unread`.
- Shared storage: switching profiles and workspaces, `optimize`, the map of storage
  targets that `store()` keeps beside each key, and `external` flags on events.
- Release notice: parsing and comparing versions (releases are numbered in order), the
  URL, wrong answers other than none.
- Backups: several copies, meta data and preambles, empty windows and extension
  development, the in-memory service. Listing backups at the start is one step.
- Remote connection: disposing of a connection and its Disconnect message, a grace time
  of zero or one the server changes, waits the user skips, the messages of
  authentication one by one, how a connection is made first, tunnels.
- Channels: the hello message and routing of `IPCServer` and `IPCClient`, multicast
  events, `ProxyChannel`, buffers, the data of events, a second channel, a listen request
  whose argument cannot be serialized.
- Activation: several hosts and their running locations, dependencies on extensions of
  other hosts or without code, loops (the registry takes them out), the events `*`,
  `onStartupFinished` and `workspaceContains`, immediate activation, a remote host (which
  does not wait for the window), deactivation, the third crash, which asks the user.
- The components without a module are listed with their reasons in `PROJECT.json`.

## Plan

Modelled so far, in the order of their consequences: the protocol, the store, text
models, the shared storage with the release notice, backups and shutting down, the
remote connection, channels, and the activation of extensions. What is left:

1. `Disconnect` and disposal in `PersistentProtocol`, and the composition of
   `RemoteConnection` with it: what is written when a connection is given up.
2. A variant of `TextFileModel` for stored file working copies, whose model updates
   await and whose content changes meanwhile are not counted
   (`workbench/services/workingCopy/common/storedFileWorkingCopy.ts:715`).
3. `Quit` for the vetoes of several windows (`platform/lifecycle/electron-main`).
4. `UndoRedo` for edits over several files, with their locks.

Theorems worth proving next: the safety part of the other liveness properties
(`BackOrGivenUp`, `EventuallyBackedUp`, a revert or a reload in `TextFileModel`); and what
holds of text models and backups when the exceptions of their properties do occur.
