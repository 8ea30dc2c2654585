# A verification project for ru-code

ru-code is a server that runs coding agents for web and desktop clients. Its
core is event-sourced: clients send *commands* over a websocket, one
*orchestration engine* turns them into *events* in a SQLite log, *projections*
of that log are what clients read, and *reactors* turn events into work of
external agent processes ("providers"), whose reports come back as commands.

The TLA+ here models that core, the view a client keeps of a thread and the way
the program updates itself, checks it with TLC on small instances and proves its
most important invariants with TLAPS for all instances. Paths below
are relative to the repository; `server/` is `apps/server/src/`.

## The system

| component | source | state | operations |
|---|---|---|---|
| orchestration engine | `server/orchestration/Layers/OrchestrationEngine.ts` | in-memory command read model, unbounded command queue, one worker fiber, event PubSub | `dispatch`, `processEnvelope`, reconcile, boot |
| event store, receipts | `server/persistence/Layers/*` | `orchestration_events`, `orchestration_command_receipts` | `append`, `readFromSequence`, `getByCommandId`, `upsert` |
| projection pipeline | `server/orchestration/Layers/ProjectionPipeline.ts` | one row set and one cursor per projector | `bootstrap`, `projectEvent` |
| decider, projector | `server/orchestration/decider.ts`, `projector.ts` | none (pure) | one branch per command, one per event |
| snapshot query | `server/orchestration/Layers/ProjectionSnapshotQuery.ts` | none | read models for engine and clients |
| socket server | `server/ws.ts` | per subscription: live buffer, cursor | `dispatchCommand`, `subscribeThread`, `subscribeShell` |
| provider command reactor | `server/orchestration/Layers/ProviderCommandReactor.ts` | FIFO worker over domain events | turn start, stop, interrupt, answers |
| provider runtime ingestion | `server/orchestration/Layers/ProviderRuntimeIngestion.ts` | turn and message buffers | provider events to commands |
| boot sweep | `server/ru-code/startup/qwenBootSweep.ts` | none | closes what a dead process left open |
| qwen adapter | `server/ru-code/qwen/QwenAdapter.ts`, `midturn/` | session contexts, map of sessions, mid-turn queue, dispatch claim | `startSession`, `sendTurn`, `compactContext`, drain, flush, `abortSession`, `stopAll` |
| session reaper | `server/provider/Layers/ProviderSessionReaper.ts` | idle clock | stops idle sessions |
| CLI spawn scheduler, reload | `server/ru-code/cli-reload/` | permits, reservations, queue, reload flag | serve, take, release, kill all |
| shared workers | `packages/shared/src/` | queue, per-key state | enqueue, drain |
| update pipeline, daemon | `server/ru-code/auto-update/`, `ru-code/daemon/` | version trees, pointer, journal on disk; run and apply lock in memory | press, fetch, collect, flip, hand over, relaunch, boot |
| auth | `server/auth/` | sessions, pairing grants | issue, redeem, revoke |
| clients | `packages/client-runtime/src/` | connection supervisor; per thread: the folded view, its cursor, page and save | connect, resume, fold, load older turns, save |

`PROJECT.json` lists every component, also those not modelled, with the reason.

**How they interact.** A command enters the engine's queue; the worker looks its
id up among the receipts, lets the decider plan events on the in-memory model,
and writes events, projections and an accepted receipt in one transaction. Only
then does it replace its model, publish the events and complete the deferred the
client waits on. Reactors and subscribers hear of events from the PubSub, after
the commit and in commit order; they act later, on reads of the projections, and
answer with new commands. Provider processes report at any time. A restart keeps
the log, receipts and projections and loses everything else.

**What is hard.** A commit that is durable but reported as failed; a retry of a
command whose answer was lost; a restart between any two steps; decisions on a
model that is loaded from projections and lacks what those do not store; clean-up
that reads before it acts; three readers of the same activities with rules of
their own; events of a session that has been stopped, archived or replaced; a view
fed by a stream and by pages read at another moment; a run of steps on disk that may
be cut off anywhere while an earlier run's helper process still acts.
`PROJECT.json` lists these hazards line by line.

## Modules

| module | models |
|---|---|
| `CommandLog` | the engine's promise: each command id takes effect at most once, as one block of the log, and answers agree with the outcome |
| `CommandEngine` | the engine, event store, receipts, projector cursors, boot, faults, crash |
| `MCCommandEngine` | small instances of it |
| `CommandEngineProofs` | lemmas about its operators, type correctness, its inductive invariant and safety theorems |
| `CommandEngineRefinement` | that the engine implements `CommandLog`; that projections, model and feed follow the log |
| `ThreadLifecycle` | decider rules, reactor, provider sessions, parked requests, archive/settle clean-up, restart, boot sweep, for the threads of a server |
| `MCThreadLifecycle` | small instances of it |
| `ThreadLifecycleProofs` | its inductive invariant and safety theorems |
| `CliSpawn` | the spawn gate for CLI processes, its clients, the warm pool as the adapter uses it, and the reload that kills everything |
| `MCCliSpawn` | small instances of it |
| `CliSpawnProofs` | its inductive invariant and safety theorems |
| `MidTurn` | one thread of the qwen adapter: turns, mid-turn queue, dispatch claim, compaction, stop and teardown of its sessions |
| `MCMidTurn` | small instances of it |
| `MidTurnProofs` | type correctness, the theorems about the claim and the end of a session |
| `MidTurnMessages` | the theorems about queued messages: none lost, none twice, none waiting for nobody |
| `ThreadFeed` | one thread at one client: the server's subscription, the connection, the client's view, its older pages and its save |
| `MCThreadFeed` | small instances of it |
| `ThreadFeedProofs` | its inductive invariant and safety theorems |
| `UpdatePipeline` | the update of the program: runs, files on disk, relaunch processes, boots, crashes, deadlines |
| `MCUpdatePipeline` | small instances of it |
| `UpdatePipelineProofs` | its inductive invariant and safety theorems |

### CommandEngine

An event is its position in `log` plus the id of its command and its aggregate;
what an event says does not matter to the engine. `applied[p]` are the sequence
numbers folded into the rows of projector `p`, whose last element is its cursor;
`mem.fold[p]` is the same for the in-memory model, so "the model is the fold of
the log" is an equality. `Plans[c]` are the event lists the decider may answer
with (their last event is on the command's own aggregate: a forced
`project.delete` is why the others need not be).

The worker's place is `pc`; the steps between two values of `pc` are the steps
between which a fault, a crash or a dispatch may come. `Take` reads the model's
sequence (`dispatchStartSequence`); `LookupHit`/`LookupMiss`/`LookupFails` are the
receipt lookup; `DecideEvents`/`DecideRejects` the decider; `CommitSucceeds`,
`CommitRollsBack` and `CommitUnreported` (durable, but an error is reported) the
transaction; `Reconcile`/`ReconcileFails` the failure path; `PublishNext`,
`PublishDone`, `RecordRejection` and `Answer` the rest. `StartProcess`,
`BootstrapEvent`, `BootstrapNext`, `LoadModel` are the boot, `Upgrade` installs a
version with more projectors, `Crash` ends the process at any step.

### ThreadLifecycle

`thread[t]` holds the fields that database rows and decider model both have. What
waits for the user is derived in several places, and the model keeps what each reads:
`approval` (the rows of pending approvals), `stored` and `decider` (what the activities
of the database and those of the decider's model say of a request: nothing, open,
resolved, closed, or reopened), `failed` (requests an answer to which has failed; only
the sweep takes that for the end). `Pending` is what the shell counts, `Open` what the
decider holds, `Dangling` what the sweep closes. The two lists part where the code's do:
a restart loads no activities, `PushedOut` is the decider's cut to the newest 500
(`projector.ts:860`), `Revert` is `thread.reverted`, which drops activities of turns
that went on both sides and of other turns on the decider's (it keeps checkpoints of its
own) and leaves the rows of pending approvals alone.

`intents` is the reactor's queue. `parking[t]` is an archive or settle in progress
in `ws.ts`: read the session, dispatch, dispatch a stop. `alive` and `held` are
what a provider process knows. `sweep` is the boot sweep: once `due`, it lists the
threads, reads one, dispatches its closures, stops its session, and may end anywhere.
A command that is accepted is one step; this is what `CommandEngine` shows of it.
Clocks are abstracted to what they decide: the grace window of a queued message is
`fresh` until `GraceEnds`, and a client whose clock is off may send a message that is
outside of it at once.

Snooze, turn interrupts, messages and checkpoints are not in it yet.

### CliSpawn

`gate` is the state of `cliSpawnScheduler.ts`: `shut` is its `state`, `out` its
`inFlight`; a reservation is the client it announces. `Serve`, `Release`,
`MarkAuthOk` and `Observe` are its functions of the same names, and each action
applies them in the code's order. `stage[c]` follows one client from `idle` through
the queue (`asked`), its process (`auth`: spawned, not authenticated; `bind`;
`bound`) and out (`leaving`). `live` is the registry of processes, `sessions` the
adapter's map. The warm pool is a package outside the repository: `pool` keeps
what the adapter relies on: a spare that is taken serves the session, or, when the
session's settings cannot be copied into it, is killed (`DiscardSpare`) and the
start goes cold (stage `cold`), as one that finds no spare does. `reload.pc` is the reload's place and `doomed` the
processes it has taken a snapshot of; `changed` is whether one of the two change
handles it holds has been completed. One step is what runs between two suspensions
of a fiber, except that the end of the kill and the check after it are kept apart.

### MidTurn

`fiber[f]` follows one message the user sends, or one flush at the end of a turn:
from `idle` through the look at the turn (`checked`, or `reading` if an attachment
has to be read before it is queued) and the claim (`claimed`, or `unclaimed` when
there is no session or a compaction runs) to its turn: `begun` (registered with a
session), `prompting`, `answered`/`failed`/`interrupted`, `settling` (turn.completed
is out, claim and barrier not yet released). `on` is the session of its claim, `in`
the one its turn registered with: `sendTurn` looks the session up twice. `queue` is
the mid-turn queue, `mark` the delivery state the user sees. `ctx[s]` is a session
context with the fields of the same meaning in the code (`owner` of the dispatch
claim, `active` turn, `prompt` fiber, turn `barrier`), and `down` is the place of its
teardown: end `claimed`, `waiting` for the turn's barrier, `gone` from the map.
`current` is the thread's entry in that map, which a successor may have taken.

`Send`, `Claim`, `Begin`, `Prompt`, `PromptEnds`, `Complete`, `Settle` are the
sections of `sendTurn` and `finalize`, `Flush` is `flushMidTurnQueue`, `Drain` the
responder of the agent's drain request, `Stop`, `TearDown`, `Unlist` and `Kill` the
sections of `abortSession`, `SeeExit` the watcher of the process, `Start` the
registration in `startSession`. A step ends where a fiber waits, or where the code
itself provides for what another fiber may do meanwhile (between look and claim,
claim and registration, completion and release). A turn that runs in a session it
does not own sets `shared`: only the properties read it. The engine is the warm one
(the default). Shutdown of a layer and the time-out of the wait for the barrier are
left out, so the liveness properties hold without that time-out.

### ThreadFeed

A turn is the sequence number of the event that opened it and its text is the
sequence of the events folded into it, so a lost, repeated or swapped event is a
different text; `Reduce` is `threadReducer.ts` for the events that tell such texts
apart (a message, its deltas, a revert). `log` and `published` are the engine as
`CommandEngine` shows it. `sub` is `subscribeThread` in `ws.ts`: its live `buffer`,
the client's cursor (`after`) and the store's tail it read (`head`); `ReadHead`
chooses replay or snapshot, `Replay` drains the catch-up, `GoLive` appends the buffer
and the marker. `Page` is the windowed snapshot of `ProjectionSnapshotQuery.ts`.

`cl` is what `threads.ts` keeps: the view, `lastSequence` (`seq`), status, page,
`awaitingCompletion`, `paginationSupported`, the fetch of an older page (`asked`) and
the parked one. The history epoch is not a counter: bumping it makes what was fetched
before not `fresh`. `Begin` and `Subscribe` are the two halves of
`makeSubscribeInput`, between which the connection may go; `Deliver` is `applyItem`,
`TakeOlderTurns` the section of `loadOlderTurns` under the same lock. `Save` and
`Reopen` are the debounced save, the finalizer and a start from the cache. `Connect`,
`Establish`, `Disconnect`, `Reconnect` are the phases of the connection supervisor as
a view sees them; `Resubscribe` is `subscribeDynamic`.

The live fiber subscribes in `Attach`, which may come after `ReadHead` and `Replay`: the
fork at `ws.ts:1488` does not ask to be started at once. What is published in between is
noted in the history variable `unheard`, which the properties about the data look at. Any
turn of the thread may be sent a delta (`Streams`), also one the window does not show;
`Late` are the turns that were sent one after a later turn was opened. `LogAssumption`
says of the logs a run starts from that their deltas are of turns that exist.

`setDeleted` is not in it: the server does not send `thread.deleted` on this stream.
One older page is asked for at a time. That is a bound of the model: in the code a
snapshot that is applied resets the loading flag, so that a second request may leave
while the first is out, although the comment at `threads.ts:182` says otherwise; the
first answer is then discarded by its epoch.

### UpdatePipeline

`versions`, `pointer` and `journal` are what is on disk under the install directory
(only complete trees count); `run` is the run the clients are shown, `install` the
fiber that holds the apply lock and its place in `installBody`, one step per write of
disk or state. `Flip` and `RecordStart` are the two halves of the uninterruptible
section. `relaunch[r]` is the detached process of run `r`: `StopServer`, `PortFree` or
`PortBusy`, `Relaunch`, each of which may be its last. `Boot` is the launcher's choice,
the reconciliation of the journal and the garbage collection after it. `Collected`
says that any of the removals may fail, `JournalBecomes` that a write may. `Deadline`
may strike wherever the fiber is `Interruptible`; `Crash` anywhere.

Three things that go wrong behind the flip are kept in the history variable `mishaps`
until the next boot: a run is cut off between the record of the flip and the phase
`restart`; the old pointer is not put back after a failed spawn (the failure is ignored);
a run starts while the pointer names another version than the one that runs, which a cut
off run or a press during the hand-over may bring about. The model has all of them, in
every run and for every theorem; `Bootable` excepts the last one by name and
`FailedRunChangesNothing` all three. An install without a pointer is among the initial
states.

## Runs

| run | shows | bounds |
|---|---|---|
| `command_engine` | log, receipts, answers, model, feed and projections agree at every step; the engine implements `CommandLog`; every dispatch is answered unless the process dies | 2 ids (one used for two aggregates, one planning two events), 3 dispatches, 3 events, 2 faults, 1 crash, 1 upgrade, 3 projectors |
| `thread_lifecycle` | a settled thread is quiet; late statuses do not undo a settle | 1 thread, 1 question, 1 waiting event, 1 restart |
| `parked_requests` | decider and shell agree on what waits for the user, in both directions, up to what the decider no longer holds, an unconfirmed answer and a reverted one | 1 approval, 2 waiting events, no restart |
| `cli_spawn` | one permit, no forgotten waiter, nothing behind the kill pass; the reload ends unless it sleeps on a late process; every client leaves | 2 session starts, 1 text generation, 2 arrivals, 1 turn start, 1 reload |
| `mid_turn` | no message is lost or delivered twice; turns with a claim never prompt side by side; what is pending has someone who will come to it; a claim neither leaks nor is freed by others; `session.exited` follows the end of every turn that had its claim | 3 messages, one with an attachment, 1 flush, 1 session, 1 compaction, drains of 1 |
| `mid_turn_ends` | stops and deaths end the session; a queued message is decided if agents answer | 2 messages, 1 session, 1 compaction |
| `successor_unlisted` | (violation) a session that lives is not in the map | 2 sessions |
| `archive_stop` | (violation) the stop after an archive finds no thread | 1 question, 1 waiting event, 1 restart |
| `thread_feed` | the view and the save are the thread at the sequence they claim, as long as every live fiber listened, and but for turns that stream late; a live view is caught up; a quiet connected view becomes live and waits for no page | 4 events, of which 1 or 3 are there, pages of 1 turn, a gap of 2, 2 subscriptions, 1 reopening, servers with and without marker and paging |
| `lost_event` | (violation) a live view with nothing under way misses an event | as `thread_feed` |
| `update_pipeline` | what would boot is complete; a failed run changed nothing, but for the mishaps named; reports are true; no boot goes backwards; runs give up the lock | 4 releases, 3 runs, 2 crashes |
| `interrupted_run` | (violation) a run that flipped the pointer is shown as failed | 1 run, the deadline after the flip |

Three dispatches of two ids contain a retry, a reuse of an id for another
aggregate and an unrelated command, in every order; two faults allow a lost commit
followed by a failing reconciliation; one crash with any number of steps before
and after it is enough, as a crash leaves only durable state, which the next boot
reads. The read limit is 4, where it does not bite (1000 in the code; see below). One thread suffices for the thread properties: threads share no state but
the reactor's queue and the sweep's order, and the queue is long enough to hold an
event of either kind before another. Two arrivals let any two of the three clients
contend, or one come twice, around one reload; the safety properties are proved for
any number. In `MidTurn` three messages are a turn, one that waits for it and one that
races the flush of the second; two sessions, one being torn down and its successor,
are in `successor_unlisted` and, for any number, in the theorems: with three messages they
are beyond five minutes. In `ThreadFeed` a log starts without the thread or with two turns
of it, twice what a page holds, so that one more event can revert, extend or outrun a page
or a replay, or come late in a turn outside the window; two subscriptions are one that is
lost and the one that resumes. Five events passed too, for the safety properties (9.4
million states). In `UpdatePipeline` three runs are one whose
relaunch process is still about, one that crashes and one that must live with both;
the four releases let each of them supersede the other. Three crashes and four runs
passed too, for the safety properties (10.9 million states).
`CHECK_DEADLOCK FALSE` stands in the configurations of the engine, the
spawn gate, the turns, the feed and the updates because a run ends when its dispatches,
crashes, arrivals, messages, events or runs are used up.

Each property of a passing run has a mutant in `PROJECT.json`: an operator called
*Variant* in the module, which changes one definition the way a plausible bug
would; under it the property fails.

**Fairness.** `FairSpec` asks weak fairness of the worker fiber and of the boot
sequence: both are loops that run whenever they are not blocked. Nothing obliges
clients to send, faults to happen or the process to be started. `CliSpawn`'s
`FairSpec` is one weak fairness for everything that goes on by itself: session
starts and text generations have timeouts, turn handlers return, the reload's fiber
runs unless it waits. Users, the pool's refills and its idle sweep (hours) are not
obliged to anything. Without the bounds a stream of session starts could starve a
text generation: that is the priority the code wants. `MidTurn`'s `FairSpec` says that
fibers run, reads of attachments and teardowns end and a request to a dead process
fails; an agent at work need not ever answer, so `PendingIsDecided` assumes that agents
do, and `SessionsEnd` does not. `ThreadFeed`'s `FairSpec` keeps the engine's worker, the
handlers and the client's fibers going and ends the delay after an expected failure;
that a connection comes or stays is nobody's duty, so `CatchesUp` speaks of a
connection that stays. `UpdatePipeline`'s `FairSpec` obliges the clock (the deadline,
the signal the server sends itself) and the few steps after the flip, which are local
writes; a download need not ever end, which is what the deadline is for.

### What comments say and the runs refute

- `archive_stop`: the stop after an archive never reaches the provider.
- `successor_unlisted`: a teardown deletes the thread's entry in the map of sessions
  without looking whose it is. A start does not wait for a session that is stopped and
  has not set its latch yet; the successor it registers is deleted from the map, and
  neither a stop nor `stopAll` finds it any more.
- `lost_event`: the live part of a thread's subscription is attached by a forked fiber
  which is not asked to start at once (`subscribeShell` asks for it). When the handler
  reads the tail first, an event published before the fiber subscribes is neither replayed
  nor delivered, although the comment says that the order excludes it; the view calls itself
  live.
- `interrupted_run`: the pointer and its journal record are written in an
  uninterruptible section, but the phase still says `flip` after it. A deadline that
  strikes there ends the run as failed, with a message that nothing was switched on; the
  next start boots the new version, and a retry runs with the pointer on a version that
  is not the server's.

`PROJECT.json` quotes the lines.

### What else the models reach

Statements of comments that the models refute, with the instance that shows it; they
are not among the runs, which keep to the most telling ones.

- `ProjectorsNeverSkip` with `ReplayLimit = 1`, `MaxFaults = 0`: the bootstrap reads at
  most 1000 events into a projector (`ProjectionPipeline.ts:1798` leaves the store's
  default limit), and the next commit moves its cursor over the rest.
- `NothingPendingIsSettled` with the constants of `parked_requests`: a thread with a
  request that the shell counts is settled after the decider has lost the request by a
  revert or by 500 later activities; with `MaxRestarts = 1` also by a restart.
- `OpenIsShown`, with the same constants: `decider.ts:45-48` demands that the rules that
  clear a request match the projection's. An answer clears the shell's row at once
  (`ProjectionPipeline.ts:1673-1691`) and leaves the request open for the decider until
  the provider confirms.
- `PendingIsOpen`, with the same constants: `decider.ts:64-70` says that a request outside
  of the newest 500 activities went stale, and that the shell's count reads the same capped
  stream. The pipeline's rows of approvals and its activities are not capped, so the shell
  counts on; a revert parts the two as well.
- `ReloadEnds` with the constants of `cli_spawn` and `MaxTurns = 0`:
  `killAllLiveCliChildren` snapshots the registry and awaits the exits; a process that
  registers meanwhile survives, and the check then sleeps on it. The loop goes round only
  on a change: if the late process is parked at `authenticate` the start timeout ends it,
  but a session that comes up healthy, or a slot refilled behind the drain, changes
  nothing any more, and the reload and every queued start wait with it.
- `LiveThreadExists` with the constants of `thread_feed`: `isThreadDetailEvent` leaves
  `thread.deleted` out and a resume does not look whether the thread exists, so the view
  of a thread that was deleted while it was away resumes and says it is live, although
  `threadSnapshotHttp.ts` relies on the socket to surface the deletion.
- `WindowsAreAdvertised`, with the same constants: an attempt that is interrupted (a
  retry, a return to the foreground) goes to `connecting` without a disconnected phase,
  so `setDisconnected` does not forget the old server's capability, and a page may be
  asked of a server that has not advertised pages.
- `ThreadIsFold` without `Late`: a delta of a turn outside the window, which the comment at
  `threads.ts:513` provides for, makes a row of that delta alone, and this row wins over
  the page's when the page is merged.
- `<>(run.phase \notin {"download", "verify", "flip", "restart"})` after any start of a run,
  under the `FairSpec` of `update_pipeline`: "THE GUARANTEE: a started run always reaches a
  terminal phase" (`updateEngineLive.ts:1371`). `isRunUnfinished` leaves `restart` out, so
  nothing settles a run that the deadline cuts off between that phase and the spawn, or
  while it puts the pointer back; `RunEnds` says what is left: the lock is free again and
  no run stays in the phases before.
- `Bootable` without its exception: a run that starts astray collects every tree but the
  running one and its own. If it fails before its flip, the pointer still names a tree that
  is gone, and the launcher believes the pointer.

Things no statement of the code forbids: an answered approval leaves the shell's count at
once but blocks a settle until the provider confirms; the boot sweep may mark a session
of the new process stopped; it misses archived threads; a message whose attachment is
read while its session stops is queued after the stop has dropped the queue, for the next
session's turn; and the ticker of a download's bar is a detached fiber that outlives a
run interrupted while it fetches.

## Proofs

`CommandEngineProofs` and `CommandEngineRefinement`, for every set of ids, aggregates, commands, plans and projectors and every bound, from the assumptions the module declares: commands
name ids and aggregates; a plan is a non-empty list of aggregates that ends in the
command's; the required projectors include an installed one; bounds are naturals.

- `TypeCorrect`: the type invariant. It needs one strengthening, that a plan being
  committed is one of its command's plans: without it the aggregate of its last
  event, which the receipt takes, would be of no type. The snapshot sequence is a
  minimum over a set of cursors; that it exists is `LeastNatural`.
- `CommandsAreBlocks`, `ReceiptsTellTheLog`, `AcksAreDurable`, `ReceiptsAreFinal`:
  from `IInv`, which adds to them that the command being decided has no receipt
  (`Undecided`) and that an acknowledgement on its way is true (`ReplyIsDurable`).
  `Undecided` is the heart: the lookup saw no receipt, only the worker writes
  receipts, and a failure whose commit may be durable is never recorded as a
  rejection. From it a commit appends a block of an id the log does not hold yet
  (`PersistShape`), so no earlier block grows and no receipt is overwritten.
- `EngineImplementsLog`: receipts are the log's outcomes and replies its answers. A
  dispatch is `Ask`, a durable commit (reported or not) `Accept`, the upsert of a
  rejection `Reject`, the completion of a deferred `Tell`; every other step changes
  nothing a client sees. Beyond `IInv` it needs that the log fits its bound (`Room`), that
  the position a rejection is recorded at is no later than the log's end (`Behind`), that
  a dispatch in the queue or in hand is not answered yet and is there once (`Waits`), and
  that what the worker is about to answer is still true when it does (`ReplyIsTrue`):
  several steps lie between, with a publication, a reconciliation or an upsert. With
  `Dispatched` (a receipt is of a command that was sent) `ConflictsAreReuse` follows.
- `ProjectionsArePrefixes`, `ModelIsTheLog`, `FeedIsTheLog`, under one assumption more,
  `ReadsSuffice`: a read of the store, which stops after `ReplayLimit` (1000) events,
  suffices for the events of one command, and for all a projector may have to catch up
  on if some version lacks one. It cannot be dropped (a bootstrap that is cut off skips
  events for good, a reconciliation that is cut off leaves the model behind); the run's
  instance satisfies it. `PInv` says that the rows of every projector are a prefix of the
  log and, once the boot is over, the whole of it; then `MInv` ties model and feed to
  the worker's place: between a commit and its publication, or its reconciliation, they
  are what they were when the dispatch was taken, and the log is longer by at most the
  command's events. Appending, cutting and concatenating prefixes are the sequence
  lemmas at the head of that part (`UptoConcat`, `SpanConcat`).

`ThreadLifecycleProofs`, for any threads and requests, any of the threads swept, and any
bounds:

- `TypeCorrect`, `SettledThreadsAreQuiet`, `PendingIsKnownToTheDecider`, from an `IInv`
  in four parts. A turn runs only in a session that is awake, and a settled thread exists,
  is not pinned and its session is not awake (`RowsOK`): without the first
  a settled thread's session might have a turn; the second excludes that a `Create` takes
  a thread out of "settled". `NoneOpen`: a settled thread has no request open for the
  decider, since a request unsettles its thread where it opens; only a revert brings one
  back. `Known` ties the three readings together: what the decider holds of a request is
  what the database holds, or nothing (`SameReading`: a closing activity says nothing to a
  list without its beginning), and the row of an approval fits the database's activities
  (`RowFits`: an open one is pending or answered, a closed one not pending). The theorem is
  the agreement that is left when lists may be cut, reverted and lost: its exceptions are
  the very ones by which the two claims above fail.
- `SettlesStand` is an action property: each action that takes a thread out of "settled"
  is one of those it names. It is proved action by action beside the invariant
  (`NextSteps`), and rests on it.

`CliSpawnProofs`, for any set of clients, any of them session starts, and any bounds:

- `PermitNeverLeaks`, `WaitersAreServed`, `ReloadIsComplete`, `GateTypeCorrect`, from
  an `IInv` in three parts. `GatePart` ties the gate to the stages: who is queued is
  at `asked` and not out, who is at `asked` and not queued or at `auth` is out, who
  is `leaving` is not. `ReloadPart` ties it to the reload: shut and distrusting from
  the first step of the kill pass on. Together they are why the check suffices: with
  nobody out, nobody is where a process can come from, and while the gate is shut
  nobody gets out. `ServeFacts` and `ReleaseFacts` say once what the gate's functions
  do; that FIFO finds someone rests on `LeastNatural`.

`MidTurnProofs`, for any messages, flushes, sessions and bounds (messages and flushes
are different fibers, neither is `None` nor the compaction):

- `TypeCorrect`, in three parts (contexts, fibers, the rest) that most actions change
  one at a time.
- `ClaimHeldThroughout` and `OnePromptPerClaim`, from `ClaimInv`: the owner of a session
  is the fiber that says its claim is on that session, and a fiber that names a session
  is at a stage that ends in `Settle`. The second part is what makes it inductive: a
  fiber that takes a claim must not hold another, and one that begins a turn without a
  claim must not appear to have one. Every step but four keeps owners and claims as they
  are (`ClaimStays`); two take a claim (`ClaimTaken`), `Settle` releases one, a
  compaction takes and leaves a session no turn owns. That the stop may move a prompting
  fiber on (`TearDown`) does no harm because it stays on the way to `Settle`.
- `ExitFollowsTurns`, from `EndInv`: in a session whose every turn held its claim, the
  turn is the one its context calls active and whose barrier it carries, a teardown that
  waits waits for it (`TurnIsThe`), and what a context calls its turn or its prompt is
  one (`Pair`). Two facts make it inductive: a fiber outside of a turn names no session
  (`Outside`), so that none is in a session before it registers; and a session that goes
  down was stopped (`DownTells`), so that no turn registers after the teardown has looked.
  That a second turn cannot register unclaimed without being noticed is `ClaimInv`.

`MidTurnMessages`, from the same assumptions:

- `NoMessageLostOrTwice`, from `MessageInv`. What a message's mark says is where it is
  (`MarksTell`), the queue and what the fibers hold name it once (`NotTwice`); what makes
  that inductive is that a message not yet sent is nowhere (`Unsent`), so that queuing it
  adds it once (`AppendOnce`), and that a flush starts empty-handed (`Bare`), so that the
  prefix it takes is not added to anything. Taking splits the queue in two disjoint parts
  (`SplitQueue`); putting back is the reverse.
- `NobodyWaitsInVain`, from `TendInv` beside all of the above. A send that queues saw a
  turn: the owner of the claim (`ClaimInv`) or the active turn (`EndInv`) will settle. A
  settle either forks a flush or drops the queue, and what is pending after a drop is in
  the hand of another flush (`InHand`, `MarksTell`); a flush that goes back met an owner,
  which is no compaction unless there was one (`Uncompacted`). `ReadsAttached`, that only
  a message with an attachment is read before it is queued, gives the exception its name.

`UpdatePipelineProofs`, for any releases, any number of runs and crashes:

- `TypeCorrect`, `ReportsAreTrue` and `BootsNeverDowngrade`. `Forward`
  is the reason for the last: whatever runs is on disk and is the newest that ever ran,
  and the pointer, the pointer a run would put back and the launcher's fallback are at
  least as new, because a run starts for something newer than what runs and garbage
  collection keeps what runs. `Honest` ties each record to it: what a record calls
  installed has run, and what a server reports was reconciled with its own version.
- `AlwaysBootable`, from `Landed` (a tree is always there, and a run that may flip has
  landed its own) and `Straight`: while no run has started astray, the pointer's tree is
  there, a run before its flip finds the pointer on the version that runs, and so is what it
  would put back. That an install without a pointer has something to boot is part of
  `UpdateAssumption`: of any releases one is the newest.
- `FailuresChangeNothing`, from `FailedStopped` beside them: a run that has failed works no
  more, but for the removal of a superseded payload, and without a mishap it leaves the
  pointer as it was.

`ThreadFeedProofs`, for any logs to start from whose deltas are of turns that exist
(`LogAssumption`), any servers, any size of page and gap, and any bounds, whichever fiber
runs first:

- The thread is a fold of the log, the replay an ascending list, the watermark a maximum:
  what they are for every log is an induction. The library's induction theorems take an
  operator, which the provers here cannot instantiate, so it is stated about sets:
  `LeastNatural` is the least-element principle of `<` on the naturals, `InductiveSet`
  follows from it, and a recursive function is the last of the `Runs` of its step, which
  exist (`RunsExist`) and agree (`RunsAgree`). From these come `ThreadOfRecursion`,
  `ThreadOfPrefix` (a longer log folds a prefix alike), `ThreadOfQuiet` (events that are not
  told change nothing), `WatermarkIs` and `AscendingIs`.
- `TypeCorrect`, from `TInv`: the shape of each record, and that neither the view, what it
  saves or fetches, nor the subscription claims an event the log does not hold.
- `LiveCaughtUp`, from `CInv` beside it: as long as a view with a marker to wait for waits,
  the marker, once sent, has all that was committed at the store's tail before it (`Waits`,
  `CoveredBy`: in the view, on the wire, or in a snapshot ahead on the wire); when it no
  longer waits it has it all. `Phases` is what makes it inductive: a snapshot is the first
  item of a subscription and never takes the view back. Which fiber runs first does not
  matter here, since what is committed when the handler reads the tail is in the replay or
  the snapshot.
- `ViewIsFold` and `SavedIsFold`, from `Gapless` and `Folds` beside the other two: as long
  as no event went unheard (`unheard = {}`), `GInv` and `FInv` hold. `unheard` only grows,
  so a step that ends without one began without one.
  `GInv` is that there is no gap: an event on the wire is behind every told event
  before it, in whatever form that is covered, what waits in the buffer is in order and all
  of it, and a live subscription has sent all that was published. `FInv` is about the
  data: the view, what it saves, the cache and the snapshots on the wire agree with the
  fold cut at a turn (`Good`), below which nothing changes any more (`CutFits`), on every
  turn but the late ones, and those only in a window (`Odd`). `DeltaIsLate` says why these
  suffice: a delta that is not of the newest turn makes its turn late, and no event makes
  one less (`LateGrows`); `AgreeReduced` and `AgreeMerged` that the steps of the view keep
  the agreement. What makes it
  inductive is what an older page is while it is out: the page before a turn at which
  the view ends, or below which it already has that very page (`AskFits`; the second when a
  parked page was merged in the meantime); an answer is such a page as it was at some
  event (`AnswerFits`), a parked one is ahead of the view by its watermark and an answer
  never behind it (`ParkFits`). A parked page is merged exactly where the view reaches
  its watermark; `WindowStill` says that the page is then the window of that moment, and
  `MergedIs` that joining it to the view is one longer cut of the same fold. A revert, or a
  snapshot, makes all that is out stale; `CutReducedLate` and `LowReduced` say that no other
  event touches a turn below the cut, but for late ones.
- `QuietCaughtUp`, the safety half of `CatchesUp`: a live subscription with an empty wire,
  of a log published to its end, has a view that is live, and, if no event went unheard, it
  has come to all that was promised, so nothing is stuck. Beside `GInv`, which says that all
  was sent, it needs `SInv`: who waits for a marker will be sent one, who does not is live
  already or by the snapshot it will be sent, and a view with nothing will be sent a
  snapshot; and `LInv`: a page is loading only while it is asked for or parked, a parked
  page is ahead of the view, and its watermark is an event that is told, so a view that has
  been told everything has no parked page left. That the wire empties is left to the
  fairness of the run.

Only model-checked: liveness, which is beyond the prover (`EveryDispatchAnswered`,
`ReloadEndsOrSleeps`, `ClientsLeave`, `SessionsEnd`, `PendingIsDecided`, `CatchesUp`,
`RunEnds`). Every safety property and every action property of the passing runs is a
theorem.

## Plan

In this order; each with its hazards in `PROJECT.json`.

1. Engine (done): it implements `CommandLog`, and projectors, model and feed follow the
   log while reads suffice; then a boot with a required projector behind the others.
2. `CliSpawn` (done): the spawn scheduler and the reload that kills live children.
3. `ThreadFeed` (done): the subscription of a thread and its view; then the shell's
   subscription, which coalesces, and its list.
4. `UpdatePipeline` (done): a run and a crash at every step; then the checks, the
   sources' pauses and the state file of the daemon.
5. Turns: `MidTurn` (done) is the adapter's side, `ThreadLifecycle` (done) the server's;
   then interrupts, snooze, checkpoints and ingestion buffers.
6. The shared workers (`KeyedCoalescingWorker`, `DrainableWorker`) with proofs.
7. Project lifecycle and attachments beside a rollback.
8. Respawn gate; auth sessions and pairing grants; connection supervisor; plugin
   host; terminals; MCP rules.

Abstract specifications worth stating: `CommandLog` (there), a feed that delivers a
log once and in order (`ThreadIsFold` says it as an invariant, for a subscription
that listened from the start), a mutual exclusion for the scheduler. The theorem
worth proving next: the coalescing worker's "latest value is processed".

## Not modelled

The repository has 475 thousand lines of implementation. Two generated protocol schemas
are 53 thousand of them; the web and desktop user interface, the protocol adapters of
external agents and the wrappers of git, ssh and the file system are most of the rest.
They keep little state of their own between calls, or a state whose correctness is a
matter of layout or of a foreign protocol, and a model of them would repeat them. What is
modelled is the code that has state shared by several actors, and of that the parts
listed above; `PROJECT.json` says for every component what is in a model and what is
not. Still worth a model, in the order of the plan: the respawn gate, the shared workers,
auth sessions and pairing grants, checkpoints, the shell's list, terminals.
