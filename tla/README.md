# A TLA+ model of hexe

hexe is a terminal multiplexer made of three kinds of process:

* a **pod** for every pane: it owns the PTY and the shell, and outlives everything else;
* **SES**, one daemon per instance: it knows every pane and every session, and carries
  all traffic between pods and frontends;
* **frontends** (the terminal, the CLI, others): they come and go.

A frontend talks to SES over a control channel (CTL: requests and answers) and a data
channel (VT: the output and input of all its panes, multiplexed by a 16-bit pane id). SES
talks to each pod over one VT connection. Every process is one thread with an event loop;
all the difficulty lies in what happens *between* the handlers: connections that break
with data in flight, requests that take several messages, frontends that die halfway,
a daemon that crashes and is started again under running shells.

Paths below are relative to `src/src/` unless they begin with `docs/` (`src/docs/`).

## Contents

| File | What it is |
|---|---|
| `InputLog.tla` | Abstract specification: what the input path promises |
| `InputPath.tla` | The input path: frontend queue and ring, SES routing, pod dedup, reconnects, faults |
| `InputPathProofs.tla` | Type correctness and ordering of the input path, what the ring holds, that keys reach their pane, that the path implements `InputLog`, and that it loses nothing before the first fault, proved |
| `PodOutput.tla` | The output side of a pod: ring, replay to viewers and observers, password mode, the end of the shell |
| `PodOutputProofs.tla` | One gapless stream on the right screen, whole strings, hidden prompts, last words, proved |
| `SesConnections.tla` | What SES keeps under a descriptor's number while the kernel reuses the numbers |
| `SesConnectionsProofs.tla` | Records, closes, bytes and half frames stay with their connection, proved |
| `SesConnectionsHeard.tla` | No connection is left open and unheard, proved |
| `PaneSpawn.tla` | Panes created over several ticks, for clients that come and go meanwhile |
| `PaneSpawnProofs.tla` | No orphaned pod, answers once and to the right one, proved |
| `SesSession.tla` | SES's store: clients, panes, sessions, locks, saving, crash and recovery |
| `SesSessionProofs.tla` | The store is well typed, its lists and states agree with its owners, proved |
| `SesSessionHolding.tla` | Who holds a session, what a frontend leaves behind, what a restart finds, proved |
| `OpenTransactions.tla` | Abstract specification: what SES needs from its transaction log |
| `TxLog.tla` | The transaction log record by record: torn records, compaction, recovery |
| `TxLogProofs.tla` | Type correctness of the log, what a recovery finds, and that it implements `OpenTransactions`, proved |
| `MC*.tla` | The modules TLC runs; that of `SesSession` adds symmetry |
| `*.cfg` | One configuration per run, see *Runs*, and some more, see *Further configurations* |
| `PROJECT.json` | Components, runs, mutants, the map from definitions to source lines, findings, hazards, theorems |

A definition that nothing uses, next to one that is used (`RetainedAll` next to
`Retained`), is a mutant: a mistake the code could have made. For each property of each
passing run `PROJECT.json` names one, and TLC finds the property violated with it.

## Inventory

### Frontend input queue (`frontends/terminal/vt_write_queue.zig`, `state.zig`)
*State:* the live queue of bytes, the replay ring (64 KiB of whole frames), the epoch of
the process and a frame counter. *Operations:* `writePaneInput` (stamp, queue, retain,
flush), `flushToFd` (partial writes), `rebuildForReconnect` (queue := ring), `clear`.
*Hard:* partial writes, reconnects with half a frame on the socket, one counter over all
panes, a ring that is resent whole whenever the replay of one pane has ended. *Should
hold:* no loss without a fault, the ring holds the newest frames, nothing is resent that
could be misread.

### Frontend reconnection (`frontends/terminal/loop_core.zig`, `loop_watchers.zig`, `core/frontend_client.zig`, `core/frontend_runtime.zig`)
*State:* the two descriptors and their generations, the back-off. *Operations:*
`reconnectVtOnly` (cheap repair), full recovery (register under a fresh id, reattach,
adopt). *Hard:* two repairs with different guarantees; typing goes on meanwhile.
*Should hold:* after a repair every pane is repainted and every key arrives.

### SES data plane (`modules/session/server.zig`, `vt_routing.zig`, `pane_lifecycle.zig`)
*State:* the two maps between pane ids and pod descriptors, a bounded queue per
descriptor, the panes that await a backlog replay. *Operations:* `routeMuxToPod`,
`routePodToMux`, `processBacklogReplays` on the tick, `removePodVtFd`, `removeMuxVtFd`.
*Hard:* overflow drops frames or whole connections; pane ids change when SES restarts;
deferred closes. *Should hold:* a frame reaches the pane it was meant for, or none.

### SES connections (`server.zig`, `ctl_out_queue.zig`, `polling.zig`)
*State:* all by descriptor number: watchers, half-read frames, unsent replies, clients,
waiters, two lists of closes to be made, the numbers closed in the last two turns, and
watchers to arm and disarm. *Operations:* accept, read, reply, hang up, the start of each
turn of the loop. *Hard:* a number closed in a handler is given to the next connection of
the same turn, while events, closes and disarmings for the old one are still queued.
*Should hold:* nothing kept under a number is applied to its next user, nobody is left
unheard.

### SES spawning (`pane_creation.zig`, `server.zig`, `server_pane_lifecycle_handlers.zig`)
*State:* a list of spawns in flight. *Operations:* `create_pane`, the tick, cancelling.
*Hard:* the client may hang up, be robbed or be replaced under the same number before the
pod says hello; a pod can be late, wrong or dead. *Should hold:* every request is answered
once, truthfully and to the one who asked; no pod is lost.

### Pod (`modules/pod/main.zig`, `input_dedup.zig`, `buffering.zig`)
*State:* the last (epoch, seq) applied, the backlog ring, the tracker of the alternate
screen, password mode, viewer and observers. *Operations:* accept a viewer or observer and
replay the backlog, `applyInputFrame`, PTY output, polling of the tty, the end of the
shell. *Hard:* replays of what was already applied; a backlog that has lost its beginning
and is cut in the middle of an image; prompts noticed only by polling. *Should hold:*
every key at most once and in order; each viewer sees one gapless stream.

### SES store (`store.zig`, `client_lifecycle.zig`, `detach_lifecycle.zig`, `detached_sessions.zig`, `pane_lifecycle.zig`, `client_panes.zig`, `cleanup.zig`, `locks.zig`, `sticky_panes.zig`, the `server_*_handlers.zig`)
*State:* panes (state, owner, stamp of the session they were parked in), clients (session,
pending reattach, pane list, snapshot), records of detached sessions, a lock per session
under reattach. Ownership is thus written down in several places. *Operations:* register,
create, find sticky, reattach, adopt, commit by registering again, detach, orphan, kill,
disconnect, loss of a client, kill session, kill orphans, sweeps. *Hard:* a reattach is
many requests; sessions and shared floats can be stolen at any point; a client can be
lost at any point. *Should hold:* the tables agree; a session has one owner; losing a
frontend loses no shell; no lock and no ownership outlives its client.

### Persistence (`persist.zig`, `txlog.zig`, `main.zig`)
*State:* the state file, the transaction log and its counter of open transactions.
*Operations:* save when dirty (tick, and before a detach is acknowledged), append a
record, compact, load and reconcile, roll back what the log leaves open. *Hard:* the crash
point, also within a record; attached sessions are saved as if detached. *Should hold:*
what is on disk is what memory held when it was last not dirty; a restart gives it back;
recovery undoes the detach that was interrupted and no other.

### Other parts
See *Not modelled*.

## How the models correspond to the code

### InputPath
Variables are grouped by process: `frontend` (`epoch nextSeq queue headPartial replay view
asked`), the two sockets (`vtUp ctlUp up toMux`), `ses` (`podId podConn needsReplay podq
ending`), `pod` (`dedup`), and histories the properties speak of (`applied typed faults
torn`). A frame is a record: pane id, epoch, seq and, as a ghost, the pane it was typed
into, which is never sent.

| Action | Code |
|---|---|
| `Type`, `Flush` | `writePaneInput`, `flushPendingMuxVtWrites` with `enqueueFrame`, `retainForReplay`, `flushToFd` |
| `SesRoute` | `routeMuxToPod`, `enqueuePodVtFrame`, on overflow `removePodVtFd` |
| `PodRead` | `handleFrame`, `applyInputFrame`, `InputDedup.accept` |
| `PodRead`, `PtyFull` | `handleFrame`, `applyInputFrame`, `InputDedup.accept`, `queuePtyWrite`, with room for the bytes or without |
| `SesForwardEnd`, `EndDropped` | `routePodToMux`, `enqueueMuxVtFrame` |
| `MuxBacklogEnd` | `dispatchSesVtFrame` of `backlog_end`, `rebuildForReconnect` |
| `ReconnectVtOnly`, `FullReattach` | the two halves of `maybeReconnectSes`, with the first turn of the loop after it |
| `VtLost`, `CtlLost`, `SesRestart`, `FrontendRestart`, `PodVtLost` | a fault and what SES does on noticing it |

`Writes` describes what one write may take: everything (`"all"`), whole frames
(`"frames"`), or part of a frame (`"bytes"`). `torn` is set when SES is handed bytes of two frames as one;
what SES does afterwards is meaningless and not modelled further. Output frames
carry nothing the input path reads, so only `backlog_end` is kept of them.

Which faults may happen is the constant `Faults`: `vt` and `ctl` (the channel is lost; with
`ctl` the frontend registers and reattaches), `ses` (a restart of the daemon, with pane ids
handed out anew), `frontend` (a new process takes the session over), `pod` (a pod's
connection), `end` (SES drops a `backlog_end`, its queue being full), `pty` (the pod has
accepted a frame and its write buffer is full). `MaxFaults` bounds how many there are.

`InputLog` is the promise in abstract terms: two ends, one appends keys, the other receives
a subsequence in order. Keys may be passed over (lost) but not repeated and not reordered.
`ImplementsInputLog` states that `InputPath` refines it.

### SesSession
SES is one thread, so one handler is one action; an action composes functions from store
to store, named after what they do to it: `Detached` (`detachSession`), `Taken`
(`stealAttachedPane`), `Attached` (`attachPane`), `Killed` (`killPane`), `Removed`
(`removeDetachedSession`), `Unparked` (`removePaneFromDetachedSessions`), `Cancelled`
(`cancelPendingReattach`). Invalid state transitions are ignored, as in `transitionState`
(`Become`). A restart is `Loaded`, `Relinked`, `RolledBack` and `Swept`, in the order of
`main.zig`. A client id is a number counted up, and counted anew after a restart.

What may happen beyond the ordinary is a constant, `Hazards`, so that each run says under
which it holds: `partial` (a frontend commits although an adoption failed), `abort` (it
gives a reattach up), `stale` (it kills or orphans a pane it lost unnoticed), `clash` (its
session is stolen while it reattaches another), `slow` (the lock's five seconds pass),
`midcrash` (a crash between the two log entries of a detach), `disk` and `full` (a save
fails, every save fails).

Left out: resolving names, sub-floats, `set_sticky`, killing an attached session from the
CLI, probes (clients with `keepalive = 0`, which list and leave), a graceful disconnect
that is not a shutdown (no frontend sends it), a spawn in flight.

### PodOutput
The output of the shell is a sequence of units, each of one kind, and the ring, the
replays and the streams hold positions in it; caps and offsets count units.

| Action | Code |
|---|---|
| `PtyRead`, `FlushRemainingPtyOutput` | `processPtyOutput` with the alternate-screen tracker, the scrollback scanner, the ring, and a bounded write to each peer |
| `Tick`, `QueuePtyWrite` | `pollPasswordMode`, `applyPasswordMode`, the broadcast of what is typed |
| `AcceptVtClient`, `AcceptObserver` | the replay: `replaySkipBytes`, `alignReplayToLine`, `alignReplayOutOfStringSeq`, `replayNeedsAltEnter` |
| `SetShareBlocked`, `ClientGone` | the functions of these names or their callbacks |
| `ShellReaped`, `Flushed`, `GraceOver` | the end of the main loop |

`Deliver` lets any write fail and close its connection. The password prompt of a
program is the tty's doing (`hidden`); the pod learns of it later. `SwitchInPrompt` says
whether a program may switch screens in a prompt (see *Known disagreements*).

Left out: the queue of bytes to the PTY, requests of the CLI that read the ring, the
metadata scanners, the uplink.

### SesConnections
`ses` is one record of tables, and a handler is a function of it, composed as the code
composes calls. The numbers of connections are ghosts that tell two users of a descriptor
apart; `harm` notes what no state shows afterwards, that one connection's entry or bytes
met another's descriptor, and `skipped` that an entry disarmed a watcher although its
number was noted, and was then skipped. A turn of the loop is `Turn`, one step for each entry of the two
lists of closes (`closing` says which list, `todo` what is left of it), and then any of the
events in `ready`, each watcher at most once. While the lists are worked off nothing fires.

| Action | Code |
|---|---|
| `Turn` | `processPendingWatcherUpdates` |
| `CtlClose`, `CtlClosesDone` | an entry of `processPendingCtlCloses`, its end |
| `VtClose`, `VtClosesDone` | an entry of `processPendingVtCloses`, its end with `rotateClosedFdLog` |
| `TurnAway`, `CliAtOnce`, `CliListed`, `CliParked`, `FrontendCtl`, `FrontendVt` | `dispatchNewConnection` by what has connected |
| `CtlHalf`, `CtlRequest`, `CtlDetach`, `CtlDisconnect`, `CtlSteal`, `CtlKill`, `CtlAnswer`, `CtlHangup` | the control watcher, by the request that was read |
| `VtRead`, `VtHangup` | the VT watcher |
| `Tick` | the reaping of connections that never register, the flushing of reply queues, `processBacklogReplays` |

### PaneSpawn
`flight` is `pending_spawns`, `pane` the store, `told` and `strangers` are histories of
who heard what.

| Action | Code |
|---|---|
| `Create`, `Reuse` | `create_pane`: `findStickyPaneWithAffinity`, `beginCreatePane`, `trackPendingSpawn`, and one look at all flights |
| `Tick` | `processPendingSpawns`: `finishCreatePane`, `failPendingSpawn`, `abortCreatePane`, `replyDeferred` |
| `Turn`, `HangupSeen`, `Detach`, `Disconnect`, `Steal`, `KillSession` | every path on which a client goes, with or without `cancelPendingSpawnsForClient` |
| `Adopt`, `PaneGone` | what happens to a pane afterwards |
| `HangUp`, `Says`, `Dies`, `TimeIsUp` | frontends, pods and the clock |

A frontend waits for the answer to `create_pane` before it sends anything else
(`core/frontend_client.zig:1023-1027`), so that it never detaches with a spawn of its own
in flight; `detach` does not cancel spawns, and would leave one if it did.

### TxLog
The file is a sequence of records; `Torn` is the part of one that a crash left. A write is
`Written` (completed, followed by the compaction) or `CutShort` (the daemon dies in it).
`DetachStart` and `DetachCommit` are the two writes of `detachSessionDirect`,
`ReattachStart` that of `completeReattach`, `Register` that of `handleBinaryRegister`, and
`Recover` is `recoverFromTransactionLog`. `doing` is the detach under way, a history, and
also what `SesSession` keeps as the state of its log.

`OpenTransactions` is the promise: a set of open operations, of which a recovery finds the
detaches, or none when the log has outgrown its reader. `ImplementsOpenTransactions`
states that `TxLog` refines it.

## Runs

Deadlock is not checked: a system whose bounded keys are typed, or whose bounded clients,
connections, pods and crashes are used up, stops.

| Run | Bounds | Shows |
|---|---|---|
| `InputPathSafety` | 1 pane, 2 pane ids, 3 keys, 2 faults (all kinds), ring, queue and pod queue of 2, writes of part of a frame | types, `InOrder`, `LosslessUntilFault`, `RingIsNewest`, refinement of `InputLog` |
| `InputPathResend` | 2 panes, 2 keys, 2 faults (`ctl vt end`), ring, queue and pod queue of 2, full writes, fairness | *violation* of `EveryKeyArrives` |
| `InputPathWrongPane` | 2 panes, a restart of SES | *violation* of `OwnKeysOnly` |
| `PodOutput` | 1 observer, ring of 2, replays of 1, alignment within 1, 3 units of output, 1 unread, 2 changes of echo | one gapless stream per viewer, on the right screen, without half images; prompts stay out of the ring and of the observers' streams; last words are passed on |
| `SesConnections` | 1 pane, 3 descriptors, 3 connections, faults `gone slow limit quick reused` | records agree with connections, no foreign close, no bytes or half frames of another, nobody is deafened but by an entry that is skipped, no handler leaks a descriptor |
| `SesConnectionsOvertaken` | no panes, a parked request, a slow frontend | *violation* of `NothingOvertakes` |
| `PaneSpawn` | 2 descriptors, 2 connections, 2 pods, 1 float key, `deaf`, fairness | no orphaned pod, answers once, true and to the right one, no pane for the gone, every request ends |
| `PaneSpawnTwice` | as `PaneSpawn`, with `together` | *violation* of `OneProcessPerKey` |
| `SesSession` | 2 panes (one shared float), 3 sessions, 4 clients, nothing saved, `partial abort stale clash` | ownership tables agree, one client per session, locks, nothing held twice, leaving parks, only floats stay with the gone |
| `SesSessionRestart` | 2 panes, 2 sessions, 2 clients per life, 1 crash (not inside a detach), `disk partial abort stale clash` | types, what is not dirty is saved, a restart gives back what was saved |
| `SesSessionTwoOwners` | 3 clients, `slow` | *violation* of `OneClientPerSession` |
| `TxLog` | 2 sessions, compaction above 2 records, reader of 3, file of 5, 3 crashes, `tear empty` | the log is read back, recoveries find the interrupted detach and no other, refinement of `OpenTransactions` |

Why the bounds are enough. In the input path caps of two and three keys let an older key
be resent behind a newer one, a queue hold frames of different age, and ring, queue and
pod queue overflow at the third frame: a dedup that only compares with the last number
(`seq #` for `seq >`) breaks `InOrder` in `InputPathSafety`. Order, repetition and loss are
questions of one pane, so that run has one; it has every fault, twice, so that a repair is
itself interrupted, and writes of any size. Confusion between panes takes two, as in the
two violation runs; that there is none while pane ids are kept is proved. In the pod,
the third unit of output overflows the ring, a replay of one unit cuts whatever is there, and
alignment looks at the next; two changes of the echo are a whole prompt. Among the
connections, two that use one number one after the other and a third that causes the
close (a thief, a CLI, a pod dialled again) make every conflict. A spawn takes the client
that asks and the one that gets its number or its session, and a second pod for what else
is in flight. In the store, a race over a session takes its owner and two clients that
reattach it, each with a temporary session of its own, hence three sessions; a fourth
client is the one that takes the shared float meanwhile. After a crash two clients race
again. The log outgrows both its compaction and its reader within five records, and a
third crash meets a file that two recoveries have emptied or left alone.

The violation runs record disagreements between the code and what its comments or docs
say; each is described, with the line quoted, in `PROJECT.json` under *findings*.

### Further configurations

Beside the runs stand configurations of the same modules that each show one more thing in
isolation. Those of `InputPath` take the finding of `InputPathResend` apart.

| Configuration | Bounds | Shows |
|---|---|---|
| `InputPathQuiet` | 1 pane, 4 keys, 3 faults (`ctl`), ring of 4, queue of 3, no typing during a repair | `EveryKeyArrives` holds (see below) |
| `InputPathOneByOne` | 2 panes, one `ctl`, no typing during a repair | *violation* of `EveryKeyArrives` |
| `InputPathEndLost` | 1 pane, `ctl` and `end`, no typing during a repair | *violation* of `EveryKeyArrives` |
| `InputPathOvertaken` | 1 pane, one `ctl`, typing during a repair | *violation* of `NothingOvertaken` |
| `InputPathUnanswered` | 1 pane, one `vt` | *violation* of `ReplayIsAnswered` |
| `InputPathTorn` | 2 panes, one `pod`, writes of part of a frame | *violation* of `StreamInFrame` |
| `InputPathPtyFull` | 1 pane, one `pty` | *violation* of `AcceptedIsApplied` |
| `SesSessionGhost` | 1 shared float, 2 sessions, 3 clients, no hazard | *violation* of `NoGhostOwner` |
| `SesConnectionsDeaf` | 4 connections, no requests, `slow reused` | *violation* of `NoneDeafened` |
| `SesConnectionsLeak` | no panes, a parked request, no fault | *violation* of `NothingLeaks` |

`InputPathQuiet` has the only circumstances we found under which every key does arrive, and
each of them is needed: SES stays up (after its restart a pane may have another id, and
frames in the ring keep the old one, `InputPathWrongPane`); there is one pane
(`InputPathOneByOne`); CTL is lost too, so that the frontend reattaches
(`InputPathUnanswered`); no `backlog_end` is dropped (`InputPathEndLost`); the ring holds
what was in flight; nobody types during the repair (`InputPathOvertaken`). It is therefore
no claim about the program, and no run.

### Fairness
`FairSpec` of `InputPath` assumes weak fairness of the actions the event loops take
whenever they can: reading a readable socket (`SesRoute`, `PodRead`, `MuxBacklogEnd`,
`SesForwardEnd`), flushing a writable one (`Flush`), the 100 ms tick of SES (`RedialPod`)
and the frontend's attempts to reconnect (`Repair`, one condition for both kinds: a
frontend tries, and which repair it makes is its choice). `Spec` of `PaneSpawn` assumes it
of the tick and of the clock (`TimeIsUp`). Nothing is assumed of users, pods, faults or
restarts.

## Proofs

`InputPathProofs` proves, for any panes, pane ids, caps, kinds of writes and faults:

* `TypeCorrect`: `Spec => []TypeOK`.
* `InputInOrder`: `Spec => []InOrder`, that no pod applies a key twice or out of order.

They assume only `PathAssumption` of `InputPath`. `InOrder` speaks of what has been
applied, and is not inductive: a pod that accepts a frame of a new epoch must know that it
is not an old epoch come back. The invariant adds

* `InFlightCurrent`: every frame in the queue, the ring, the socket or a pod's queue has
  the current epoch. This holds because a new frontend appears only together with the loss of
  every connection that could carry a frame of the old one, and it is what makes "different
  epoch, so new" in `accept` right;
* `AppliedOrder`: the last frame applied is the one the dedup remembers (`DedupIsNewest`),
  and `InOrder`.

Then an accepted frame is of the current epoch and either the first of it or above the
last one, so appending it keeps the order. One lemma handles a write of any part of the
queue, one a step that leaves frames and pods alone.

From the same assumption it proves further:

* `RingHoldsNewest`: `Spec => []RingIsNewest`. What is inductive is that the i-th frame of the
  ring is the one numbered as many below the counter as it lies before the end (`Newest`);
  order and the absence of gaps follow.
* `KeysReachTheirPane`: `Spec => []OwnKeysOnly`, and `PathImplementsLog`: `Spec =>
  ImplementsInputLog`, that the path implements `InputLog` step by step; both under
  `StableIds`, that `"ses" \notin Faults`. With a restart of SES they are false: a pane gets
  a new id and frames in the ring keep the old one, which is the finding of
  `InputPathWrongPane`. The invariant (`AtHome`) says of every frame in the queue, on the
  socket, in a ring or at a pod that it carries the id of the pane it was typed into, and
  of every frontend that the id it knows for a pane is right or none. For the refinement
  `TypedSound` says that the epochs of what was typed never exceed the faults so far and
  that it was typed in order, so that the bounds of the model do not cut off a step of the
  abstract one.
* `NothingLostUntilFault`: `Spec => []LosslessUntilFault`, with no assumption on the faults.
  The invariant `Calm` says of the states before the first fault that every channel is up
  and no repair under way, that every frame in flight names its own pane, that a pod's
  filter stands at a frame it has applied (`Undisturbed`), and that the keys for a pane along
  the path, from its shell back to the keyboard, are those typed into it and ascend
  (`AllOnTheWay`). Four steps are left then. A key typed is later than all on the path; a
  flush and a routed frame move the border between two queues, and a routed frame is
  nothing to the other panes (`OthersSkip`); and the pod must accept what it reads, because
  the ascending order puts it behind the frame its filter stands at. Ascending order of
  joined queues is what one lemma (`JoinedKeys`) reduces to the parts.

`TxLogProofs` proves, for any sessions, thresholds, bounds and number of crashes:

* `TypeCorrect`: `Spec => []TypeOK`, with no assumption beyond `LogAssumption`. What could
  fail is the counter, which commits without a start would take below zero;
* `LogIsReadable`, `CompletedStays`, `InterruptedFound`: `WrittenIsRead`,
  `NoFalseRollback` and `InterruptedIsFound`, under `CleanCrashes`, that is
  `Faults \subseteq {"tear", "empty"}`. The code does not exclude the other two faults, and
  with them the properties fail (see *Known disagreements*), so the assumption is needed.

The three follow from one invariant, `LogInv`. What a recovery finds is decided by the last
record on each session, so the invariant says of every file that a torn record is its last
entry and the daemon is down (`RestIsLast`), that a session with records has a last one
(`HasLast`), that for a session whose detach is not under way this is no start of a detach
(`OthersSettled`), and for the one whose is, it is (`OpenOn`). The middle two are not
trivial where a file is emptied: a compaction happens at a commit, when the invariant says
that nothing is left to lose. The lemmas follow the life of a file: a record appended on
its own session and on another, a torn one, an emptied file, a crash, a recovery.

`LogImplementsTransactions`: `Spec => ImplementsOpenTransactions`, under `CleanCrashes` too.
The set of open transactions a state stands for is what a recovery would find in its file;
a record that is written starts or ends one, one that is torn does neither, and a
compaction empties the file only when the set is empty, by `LogInv`.

`SesSessionProofs` proves for any panes, sessions, clients, restarts and hazards, from
`SessionAssumption` alone, `TypeCorrect`, `ListsAlwaysAgree` and `StateAlwaysMatchesOwner`
(`TypeOK`, `ListsAgree`, `StateMatchesOwner`). The inductive invariant `Inv` is that the
store is well formed, the list of each client is the set of panes it owns and "attached"
means owned (`Sound`), that nothing in the store has an id that is still to be given out
(`Known`: a client that registers owns nothing yet, a pane that is created is not in the
table), and that state file and locks are typed. The proof follows the code: each function
on the store has a lemma about the tables it leaves, and each handler is composed of them.

`SesSessionHolding` builds on it:

* `OneHolder`, `NoLockLeftBehind`, `DetachedIsFree`: `OneClientPerSession`,
  `ReattachIsExclusive`, `NotHeldTwice`, under `LocksHold`, that `"slow" \notin Hazards`.
  With it they are false (`SesSessionTwoOwners`). `Exclusive` adds to the three that no
  client is at work in a session that another is reattaching, without which the commit of
  a reattach could make a second holder.
* `NothingLeftBehind`: `LeavingParks`, an action property, under every hazard.
* `RestartRecovers`: `RestartKeepsSessions`, under `CleanDetach`, that
  `"midcrash" \notin Hazards`; a crash between the two entries of a detach loses the session
  by design of the recovery.
* `CleanIsSaved`: `CleanMeansSaved`, under `LocksHold`: between a change that could lose a
  pane and the next save the store is dirty. The invariant is about the panes a session or
  a client covers, and each handler is shown to cover no more than before or to mark the
  store dirty.

`PaneSpawnProofs` proves all safety properties of the run `PaneSpawn` for any numbers of
descriptors, connections and pods and any faults, from `SpawnAssumption` alone:
`TablesAreTyped`, `PodsAreAccountedFor`, `RepliesGoHome`, `SpawnsEndWithTheirClient`,
`FailuresLeaveNothing` and, an action property, `EachAnsweredOnce`. None is inductive by
itself. The invariant `IInv` ties a spawn in flight to the client that asked: it is in the
table under the very descriptor the reply will go to, that descriptor is not in the log of
closed ones, and the kernel has it open for the connection that asked (`Seated`,
`PodSound`); pods not yet forked have left no trace (`Fresh`). It is this that makes
`replyDeferred` safe: at the moment a spawn is answered, its descriptor is still the
requester's (`AllHeard`). Every operation is shown to lead from a table with these
properties to another and to report each spawn it takes off the list (`SoundStep`), and
such steps compose as the handlers do.

`PodOutputProofs` proves the safety properties of the run `PodOutput` for any ring, cap on
replays, stretch of alignment and number of observers: from `OutputAssumption` alone
`TypeCorrect`, `ViewerIsFed` (`ViewerSeesAll`), `StringsAreWhole` (`NoTornString`),
`PromptsAreHidden` (`PromptsStayHidden`) and `LastWordsAreRead` (`LastWordsPassedOn`), and
`ScreensAgree` (`ScreenAgrees`) under `NoSwitchInPrompt`, without which it is false (see
*Known disagreements*). The invariant `IInv`:

* `RingSound`: the ring is the newest units read, one after the other. A replay, however
  it is cut, aligned and moved behind a string, is then a run of units up to the last one
  read (`ReplayShape`), and the live stream continues it (`OneMoreKeeps`);
* `PromptSound`: nothing in the ring is older than the last prompt, and while a prompt lasts
  there is nothing in it, so that no replay has a veiled unit;
* `Whole`: a stream that has shown output may have begun with it, and one that has not,
  because its replay was cut behind everything, may begin with whatever the shell writes next.
  The second half is the part that is not obvious: it needs that a line does not end inside
  a string (`StringsSound`), or a replay that is aligned past the last line could go on live
  in the middle of an image (`ReplayBegins`);
* `EndSound` and `ViewerFed`, on the end of the shell and on a viewer that would otherwise
  be shown nothing.

For the screens, `AltSound` says that `alt_tracker` is on the screen of the last switch
read, and that the offset it remembers lies as far behind the newest unit recorded as the
switch does, while the ring still has it; when the ring has dropped or cleared it, the
switch is older than all the ring holds. This is what makes `replayNeedsAltEnter` right
(`ReplayShows`), and what a switch during a prompt breaks: it is tracked at an offset that
no unit in the ring gets (`QuietPrompt` excludes it).

`SesConnectionsProofs` proves, for any numbers of panes, descriptors and connections and
any kinds of requests, `TablesAreTyped`, `RecordsKeep` (`RecordsAgree`), `ClosesAreOwn`
(`NoForeignClose`) and `BytesAreOwn` (`NoCrossedBytes`) under `Calm`, and `FramesAreOwn`
(`NoSplicedFrame`) under `Calm` and `"late" \notin Faults`. `Calm` leaves out the faults of the
model that break the invariant, each of which TLC shows to break a property as well:

* `"long"`: what a CLI connection was not sent stays queued under its number;
* `"brief"`: the watcher of a pane killed in the turn its pod was dialled is armed for
  whoever has the number then;
* `"refused"`: a failed reply to one turned away lists a number that is closed without a note.

The last two of the five properties have not been seen to fail under `"refused"`; they are
proved from the same invariant, which does.

None of the five is inductive: whether a record is about the connection that has its number
now depends on every place where the number may still be kept. The invariant `IInv` is
`TypeOK`, that the watchers to arm and disarm are drained when they have to be, and `Good`, a
predicate of the tables alone:

* `OneUse`: a number is in use as a control connection, as a VT connection or by a waiter,
  and never as two of them; within a kind, no two records have it (`Apart`);
* `UsedIsOpen`: a number in use is open. So a new connection, which gets a number
  that is not, finds nothing under it: no watcher, no half frame, no queue, no entry that
  counts. This is the heart of the argument;
* `Own`, `Agree`: what is kept under a number is of the connection that has it;
* `Due`, `Stale`: what is out of date cannot do harm. An entry of a list of closes is about
  the connection that has the number, or the number is noted and the entry is skipped; the
  old watcher of a pod stays only under numbers that are noted and about to be removed.

`Due` is why the notes are kept for two turns: an entry is made before or in the turn its
number is closed, and both lists are worked off before the notes are aged for the second time
(`VtClosesDone`). `C` and `V` in the invariant are the entries still to come, so that it also
holds between two steps of working off a list. A handler passes through several tables, and
each operation is shown to lead from good tables to good ones (*What keeps the tables good*);
closing a client or a pod's connection breaks and restores the invariant on the way, so it
is first shown that nothing else uses their numbers (*The way through a handler*). Then every
action is a composition of such operations.

`SesConnectionsHeard` proves `FrontendsAreHeard` (`FrontendsHeard`) under the same `Calm`, with
replies that fail, numbers used again at once, connections that break while noted and late
events all allowed. What can leave a connection open and unheard is an entry about an earlier
connection with its number, because the loop disarms by number before it looks at the note
and then skips the entry. The code does that (`SesConnectionsDeaf` shows it, for the property
without an exception, `NoneDeafened`), so the theorem says exactly that much: a client's
channels and a pane's pod are listened to or about to be closed, unless their watcher is one
of `skipped`, which only such an entry makes it. No other conflict over a number, within a
turn or across turns, leaves anybody unheard. The invariant `IHeard` is `IInv` and `Heard`, again a predicate
of the tables, of the entries still to come, of the skipped watchers (`S`) and of those that
poll no more (`D`) or may still fire (`R`):

* `CtlHeard`, `VtHeard`: a client and a VT connection in use, unless skipped, have a watcher of
  their own (or one that waits to be added), and it polls unless an entry that will find it
  is still to be worked off (`Finds`: the entry has its number, is about it, and was made by
  it or by no watcher);
* `CtlReady`, `VtReady`: an entry for a number whose watcher may still fire this turn finds
  that watcher. This is what the handlers that add entries need: they add none for a number
  that has one already, and had the one there been made by another watcher, it would do
  nothing, and the new connection would be neither watched nor closed;
* `OwnNumber`, `NoCtlRemoved`: a watcher that is disarmed or replaced is not at the same time
  that of another number, and the removals that wait are of no client's watcher.

With it every safety property of the passing runs is proved, but for two. Only model-checked:

* `GhostsAreFloats` of the store and `HandlersLeakNothing` of the connections;
* all liveness (`EveryRequestEnds`): TLAPS does not reason about `ENABLED`.

The properties of the violation runs are false. `OwnKeysOnly` is one of them, and proved
under `StableIds`, which that run gives up.

## Known disagreements not kept as runs

While modelling we met more states in which the code does not do what one would like, or
what a comment says. Each can be seen by changing the constants of a configuration as
given, and checking the property named; where the property is one of a passing run, that
run leaves the fault out by its constants.

Input path:

* A rebuilt queue tears frames (`InputPathTorn.cfg`): `backlog_end` also arrives when SES has
  dialled one pod again and the frontend's connection was never lost. `rebuildForReconnect`
  then clears a queue whose head frame may be half written, on a socket that lives on
  (`loop_watchers.zig:468`). `vt_write_queue.zig:50-57` takes for granted that it is called
  "for a brand-new SES VT connection".
* What the pod has accepted may be dropped (`InputPathPtyFull.cfg`): the dedup adopts the
  number of a frame (`pod/main.zig:1823`) before there is room for it, and a full write
  buffer drops it with a warning (`1223-1225`); resent, it is a repeat. The comment at
  `1810-1811` says that input is exactly-once.
* A key for a pane that got another id in a restart of SES is dropped, if the id is nobody's;
  `InputPathWrongPane` shows the worse half.

Store (`SesSession.cfg`, `SesSessionRestart.cfg`):

* A float may stay with a client that is gone (`SesSessionGhost.cfg`): a reattaching client may
  adopt, besides what is parked in the session, every float its snapshot names. When it dies
  before it commits, `cancelPendingReattach` gives back the panes in `pane_uuids` only
  (`detach_lifecycle.zig:360`), against `client_lifecycle.zig:67-70` and `83-84`. No sweep
  takes such a float, `list_orphaned` does not show it, and it is parked in no session.
  `GhostsAreFloats` says that nothing else can stay behind.
* `ParkedIsDetached`, with 1 client and 1 restart: a pane that was attached at the crash is
  loaded as orphaned and relinked to its session, but the change of its state to detached is refused and the
  refusal ignored (`persist.zig:514`; `501-503` says it is restored as detached).
* `RestartKeepsSessions` with `"midcrash"`: a crash between the two log entries of a detach
  drops the session, by design of the recovery.
* `detach_lifecycle.zig` speaks of a lock that expires after 30 s; `locks.zig` has 5 s.

Transaction log (`TxLog.cfg`):

* `InterruptedIsFound` with `"first"`: a record torn in an empty file is left there
  (`main.zig:60-63`), and everything the next daemon writes behind it is unreadable, which
  the comment at `txlog.zig:5-7` means to exclude.
* `NoFalseRollback` with `"disk"`: a commit whose write failed leaves a detach that was
  completed looking interrupted (`main.zig:66-70`).

Pod (`PodOutput.cfg`):

* `ScreenAgrees` with `SwitchInPrompt = TRUE`: output of a prompt is not recorded but still
  fed to the tracker, so that a switch of screens in one is remembered at an offset at
  which the ring holds something else, or nothing.
* `PaintIsWhole` with `RingCap = 4`, `TailCap = 4`, `AlignScan = 2`, `MaxOut = 4`,
  `MaxFlips = 0`, `Observers = {}`: the replay begins at the switch to the alternate screen
  and is then aligned past the first line painted on it; `docs/pods.md` says that it starts
  at the switch.
* `docs/keybindings.md:359` calls `password_input` a safety gate for plugins; a viewer that
  attaches during a prompt is not told of it (`acceptVtClient` sends no such frame).
  `docs/pods.md`, "Passwords", has the frontend tell the pod of a prompt; in the code the
  pod polls its tty.
* `writeFrameBounded` says that a connection on which a write failed must not be used
  again; the two accept functions ignore failures of the frames before the backlog.

Connections (`SesConnections.cfg`, adding a fault to the constant, unless another is named):

* A new connection may be left deaf (`SesConnectionsDeaf.cfg`): an entry of the list of VT
  closes that was made without its watcher (a superseded channel, an overflow or a failed
  write: `server.zig:2474`, `2717`, `2959`, `2963`) is matched by number alone. If the number was
  closed by another handler since and given to a new VT connection in the same turn,
  `disarmVtWatcherMatching` (`1352`) takes away the watcher of the new one before
  `closedFdNoted` is asked (`1373`), although the comment at `1369-1372` says that "the fd
  number may already belong to a new connection". The list of control closes does the same
  (`1119` before `1134`, with `"gone"`). `FrontendsHeard` says that nothing else does.
* Descriptors leak from the lists of closes (`SesConnectionsLeak.cfg`): `processPendingCtlCloses`
  runs over the entries it found and then empties the list (`server.zig:1117`, `1185`); a waiter
  released meanwhile (`1147`, `1262`) was appended to it and is thrown away, against the
  comment at `1231-1239`. With `Requests = {"at once", "listed"}` a listed close of a number
  that is still noted is skipped (`server_reporting_handlers.zig:72-78`), and one that finds
  an entry of an earlier connection is not made. `HandlersLeakNothing` says that the handlers
  themselves lose none.
* `"refused"`: a reply that fails to one turned away lists a number that is closed
  without a note, and its next user is closed (`NoForeignClose`, `RecordsAgree` and `TypeOK`
  fail).
* `"quick"`, a connection that breaks while its number is noted, breaks `NoneDeafened` only.
* `"slow"` breaks `NothingOvertakes`, the finding. A frontend that does not read only loses
  frames when its VT queue is full; a pod that does not read is listed for closing.
* `"long"`, a reply to the CLI that does not fit its socket, stays queued under a number that
  is closed, and breaks all of the invariants but `NoSplicedFrame`.
* `"brief"`, a pane killed in the turn its pod was dialled, breaks all six invariants; `"late"`, an
  event of a closed connection that arrives after its number was dialled anew, only
  `NoSplicedFrame`.

Spawning: the cap on panes (`allowNewPane`, `docs/architecture.md:140`) does not count
spawns in flight; it is not modelled.

## Not modelled

* *Output between SES and frontends*: queues of output frames, pausing of pods, dropping of
  a slow frontend. Planned; so are the *frontend's own view* through a repair (projection,
  restore) and the *queue of bytes to the PTY* behind the dedup.
* *Names of sessions and panes, sub-floats, sticky by request, killing an attached
  session's panes one by one*: they do not change who owns what beyond what is modelled.
* *Four details* of modelled parts: a viewer's own `password_mode` frame, which the pod would
  obey (`pod/main.zig:1794-1797`) and no frontend in the repository sends; how many observers a
  pod takes (`MAX_OBSERVERS`: here, as many as `Observers` has members); the pod's exits when
  poll or read of the PTY fails, which pass on nothing and are therefore outside
  `LastWordsPassedOn`; and sessions without a snapshot, which `buildStateJson` does not save
  (every session that has been detached has one).
* *Rendering, terminal emulation, images, regions and palettes, mouse and key tables*: one
  thread computing pixels and escape sequences from its input.
* *Lua, configuration, plugins, API bridge*: bindings of the operations modelled here.
* *Background commands, region data*: caches of what a child process printed; candidates
  for later.
* *Access control, trust, isolation, limits*: system calls made once per process.
* *Wire formats, CLI, popups, recording, shell hooks, web and syslink frontends*: encoding
  and requests without shared state.
* *Scripts* (`src/scripts/*.py`): smoke tests and demo recordings that drive the built
  program from outside. They are no part of the multiplexer, and hold none of its logic; the
  implementation, and with it everything the map names, is the Zig under `src/src/`.

## Plan

Done: the input path with its abstract log; the store, persistence and recovery; the
pod's output; connections; spawning; the transaction log with its abstraction; type
correctness and order of the input path, its refinement of the log and what it keeps until a fault, the log of transactions
with its refinement, the store, connections, spawning and the pod's output, proved. Left:

1. `VtOutput`: back pressure of output from pods to frontends, with pauses and drops, and
   its composition with `InputPath` on what a dropped connection means.
2. `Reconnect`: the frontend's own state through a repair, with `SesSession`'s requests.
3. An abstract `Ownership` specification (a pane is held by at most one client or parked in
   at most one session) that `SesSession` implements where the findings allow it.
4. `SesSession` with `TxLog` in place of its one-word log, and the PTY queue behind the
   dedup in `InputPath`.
