# Verification of Open Agents' session control

Open Agents is a Go daemon (`src/backend/internal`) that supervises coding
agents, with an Electron client. A *session* is one agent at work in one
workspace. At any time it belongs to one *interface mode*: in `tui` mode the
agent runs in a terminal runtime (tmux, conpty), in `chat` mode a structured
controller talks to the provider, possibly through a detached host that outlives
the daemon. A durable *interface handoff* moves the native conversation from one
mode to the other while both kinds of controller can fail, the daemon can die,
users keep typing, automation keeps sending and other operations kill, exit or
relaunch the same session.

The whole product rests on "both controllers are never live at once"
(docs/backend/architecture.md:3), and on not losing what users and automation
sent meanwhile. That is the core that this project models first.

Around that core stand the other machines of the daemon on which a session
depends: the facts about its agent that late hooks and slow probes write, the
message queue of its Chat conversation, the detached host that keeps its provider
over restarts of the daemon, the reviews of its pull request, and the feed that
brings every change of all this to the screen.

## What is here

| module | what it is | code |
|---|---|---|
| `Handoff` | the handoff saga of one session with everything that runs beside it | `session_manager/interface_transition.go`, `lifecycle/manager.go` (epoch, MarkSpawned), the transition store, the gate of `service/chat/controller.go`, Kill/Exit/Resume of `session_manager/manager.go` |
| `ControllerOwnership` | the abstract promise: one owner, only the owner's controller starts, ownership moves while nothing runs | `docs/backend/architecture.md:3` is its statement; `Handoff` is shown to implement it |
| `HandoffInvariant` | the inductive invariant and the refinement mapping | |
| `HandoffProofs` | the machine-checked proofs about `Handoff` | |
| `Outbox` | the durable message outbox of handoffs | `Manager.send`, the delivery half of `interface_transition.go` |
| `SessionOps` | input leases, exclusive operations, deferred recovery, shutdown | `session_manager/session_input.go`, `recoverInterfaceTransitions`, `reconcileLivePass` |
| `Lifecycle` | the durable facts of one session under late hooks, probes, kills, relaunches and handoffs | `lifecycle/{manager,runtime}.go`, `observe/{reaper,activity}`, the calls of `session_manager/manager.go` |
| `ToolFlight` | how the reducer knows that a permission dialog is open, from the hooks of parallel tools | `applyToolPrecedenceLocked` and the cap of `lifecycle/manager.go`, `cli/hooks.go` |
| `ChatQueue` | the message queue of one Chat conversation, from the send to the end of its turn | `service/chat/{controller,queue,steer,service}.go`, the turn rows of `conversation_store.go`, the ACP driver's turn |
| `HostLaunch` | who runs the provider of a Chat session: the launch lock, the descriptor, daemons and hosts that die | `adapters/chatdriver/persistenthost/{host,owner}.go` |
| `HostRelay` | what the detached host keeps and tells again: journal, replay, decisions, acknowledgement | `persistenthost/{acp_relay,host}.go`, `adapters/chatdriver/acp`, `project` of the controller |
| `ChangeFeed` | a change on its way from the database to the screen | `cdc/*.go`, `httpd/events.go`, `changelog_store.go`, the renderer's `event-transport.ts` |
| `Reviews` | the review runs of one pull request, their reviewers and the automatic coordinator | `review/*.go`, `service/review/review.go`, `autoreview/coordinator.go`, `lifecycle/reactions.go`, `review_store.go` |
| `SessionOpsProofs`, `OutboxProofs`, `ChatQueueProofs`, `ChangeFeedProofs`, `ReviewsProofs` | the machine-checked proofs about the module each is named after | |
| `HostLaunchProofs` | the machine-checked proofs about `HostLaunch` and about `HostRelay` | |
| `LifecycleProofs` | the machine-checked proofs about `Lifecycle` and about `ToolFlight` | |
| `MCHandoff`, `MCOutbox`, `MCToolFlight` | sets and symmetry for the runs | |

`PROJECT.json` maps each definition to its source lines, each property to a run
and to a mutant of the model that breaks it, and each hazard of the code to the
properties that watch it. The mutants stand in the modules right before the
definition they replace and are marked *Faulty*; no specification uses them.

The modules meet where the code does. `Handoff` has of the Chat queue the gate
and the number of queued turns, of lifecycle the epoch and the termination;
`Lifecycle` has of a handoff that it stops one controller and starts another
beside the other writers; `SessionOps` has the fences that a transition and an
exclusive operation share; `ToolFlight` refines the one activity that `Lifecycle`
takes as reported; `HostLaunch` gives `HostRelay` one host per session, and
`HostRelay` gives `ChatQueue` a prompt that outlives its controller; the guard that
refuses a nudge in `Reviews` is the fence of `SessionOps`.

## The system's components

For each: the state it keeps, its operations, who it talks to, what is hard, and
what makes it correct.

* **Interface handoff saga** (`session_manager/interface_transition.go`). State:
  the row of a transition (phase, source, policy, error code), the in-memory run
  of a session, the controller epoch on the session row. Operations: start,
  cancel, acknowledge, the worker, rollback, boot recovery. Talks to the chat
  service, the runtime, lifecycle and the store. Hard: stop, epoch and phase are
  separate stores; cancellation races; a crash at each boundary; unconfirmed
  shutdowns. Correct when only the owner runs, a won cancellation touches
  nothing, a drain loses nothing, outcomes tell the truth and a handoff ends.
* **Message outbox** (same file, `message_delivery.go`, `sessionguard`). State:
  queued messages with a delivered mark. Operations: send, queue, deliver,
  acknowledge, dispatcher poll. Hard: at-least-once across crashes, another
  handoff starting in the middle of a batch. Correct when nothing is dropped, Chat
  sees no copy, order holds within a handoff, and everything arrives.
* **Input leases and exclusive operations** (`session_input.go`). State: leases,
  operations, deferred recoveries, worker admission. Hard: closing admission
  against admitted writes, batches, fences that must outlive the operation that
  caused them. Correct when writes and mutations exclude each other and every
  fence is eventually lifted.
* **Session manager operations** (`manager.go`, `chat_spawn.go`): spawn, kill,
  exit, resume, restore, retire, teardown, startup reconciliation. Hard: partial
  failures of long sequences, stale records.
* **Session lifecycle** (`lifecycle/manager.go`): activity, launch generations,
  controller epoch, termination facts. Hard: facts of an old generation that
  arrive late, probes that began before a relaunch, hooks that are lost. Correct when only
  the end of the owner ends a session and a killed session stays dead.
  **Reactions** (`reactions.go`): deduplicated nudges.
* **Chat service** (`service/chat`): turns, queue, steering, projection,
  history. Hard: completion, dispatch, steer, interrupt and send race for one
  primary slot; generation fencing; reconnects.
* **Persistent Chat host** (`adapters/chatdriver/persistenthost`): a detached
  process with an ACP relay and a journal. Hard: replay to a replacement daemon,
  request correlation, ownership.
* **Terminal multiplexer** (`terminal`): attachments, shared streams, the raw
  input gate.
* **Change feed** (`cdc`, `changelog_store.go`): a poller that broadcasts a log
  of changes. Hard: cursors, slow subscribers, retention.
* **Observers** (`observe`): reaper, activity, head, SCM, tracker and usage.
  Hard: a probe that began before a relaunch.
* **Reviews** (`review`, `service/review`) and **automatic review**
  (`autoreview`). State: review runs, one row per reviewer with its terminal's
  handle and native conversation, the terminal. Operations: trigger, cancel,
  switch, restore, tear down, submit, deliver; a sweep of the coordinator. Hard:
  the handle is stored after the launch, Cancel takes no lock, a submission is
  recorded, pasted, remembered and marked in four steps. Correct when no run in
  progress is unknown to its reviewer or outlives it, and the worker gets the
  feedback once.
* **Manager loop**: a single-flight loop with debounced wakes.
* **Daemon supervision and run file**: link loss, grace period, takeover.
* **Preview servers, browser broker, notifications, workspace watcher,
  attachments, shell terminals, readiness, installation**: independent services.
* **Adapters, HTTP API, CLI, frontend, landing site**: translation and I/O.

## Handoff

One session, any number of transitions of it. The *request* half
(`StartRead .. StartWorker`) is StartInterfaceTransition: the record is read,
validated, and only later is the row created, the Chat source fenced and the
worker registered, with other goroutines in between. The *worker* goes through
the program counter `pc[i]`, one action for each step that touches shared state
or that a crash can separate from the next: before the stop (`BeforeStop`) a
failure leads through the `fail` closure, which reopens Chat's gate and finishes
the row; after it (`AfterStop`) through the rollback, which stops the target,
restores the epoch, destroys a stale source runtime and starts the source again,
or retains the row as quarantined. Beside them run:

* `CancelRead`, `CancelRow`, `CancelSignal`: read, compare-and-set, and the
  signal to whatever run the session has then;
* one exclusive operation (`Op*`): kill, exit or a relaunch, working on the
  record it read;
* the agent and its users: Chat sends, queue dispatch, keystrokes, the end of a
  turn, a controller that exits by itself;
* `Crash` at any point, where any subset of processes survives, and the boot pass
  (`Recover*`, `ServeAPI`), which finishes before the API opens.

Durable state (`mode`, `terminated`, `handle`, `row`, the queue) survives a
crash; the rest is lost. What only decides whether a step succeeds (native ids,
terminal surface probes, provider answers, error codes) is a nondeterministic
outcome of the step, so the model has every failure the code handles and some
that the probes would exclude. Both SQLite writes that fail and reads that fail
in the middle of a wait are `StoreFault`.

Two constants state what the code does not guarantee. `OverlapOps = TRUE` is the
code: StartInterfaceTransition does not ask for the exclusive-operation fence.
`CleanupReliable = FALSE` is the code: the destruction of a runtime whose
MarkSpawned failed is best effort. (A terminal that was recorded and could not be
given its prompt is destroyed on a best effort too, but its row names it, so the
rollback finds it.) `Handoff_overlap.cfg` and `Handoff_orphan.cfg` show what
each costs; every theorem that needs their opposites says so by assuming
`Disciplined`.

## Outbox

The handoff is reduced to beginning and ending, possibly with a new owner. A
message's call reads whether a transition is active and later queues or sends it;
`Job` is deliverTransitionMessages under its mutex, entered by the worker that
settles or by the dispatcher's scan, and each of its sends may again find a
handoff active and queue the message under that one. A store write may fail, a
pane write may be refused, or reach the agent and still report an error.
The rows a delivery has still to do are a set (`job.todo`), of which it takes the
one of least number (`Current`), as the code goes through the query's list in its
order.

## SessionOps

Several sessions, the callers that reserve one, the startup pass that reserves
all that are free, pane writes that hold leases, and
recoverInterfaceTransitions either swept at boot or run later for the exact
transition that an operation kept it from. `row` is only what these decide on:
left intact or past the stop by an earlier process, cancelled, new, settled. A
daemon is one behaviour; a restart is a new behaviour from `Init`, which takes
every combination of rows.

## Lifecycle

One session and every writer of its durable facts. `row` is what the store keeps
of it; `term` and `chat` are what really runs. A launch has a number; hooks on
their way (`hooks`) bear the number of the launch that sent them and may come
late or never. The reaper (`reaper.pc`) reads, probes and applies in three steps,
the terminal observer in two, a kill or relaunch (`op["main"]`) and a handoff
(`op["move"]`) in as many as the code takes the mutex for. `seen` says whose
snapshot still has the row's revision, which is what the fenced writes compare.
Ages are counted in windows of recent activity, up to two, which is all that the
reaper's decisions distinguish.

`Overlap = TRUE` is the code, in which a handoff does not ask whether a kill or a
relaunch is in progress; the run takes `FALSE`, for with `TRUE` a killed session
comes back (`Lifecycle_kill.cfg`).

## ToolFlight

One launch of an agent that runs tools side by side, and the reducer that must
tell from its hooks whether a permission dialog is on the screen. `run` and
`dialog` are the agent's, `inflight`, `candidate` and `cursorPending` the reducer's.
Three kinds of agents differ in what a question names: the tool, the exact use,
or (Cursor) a use without an id. `world` is chosen once: which kinds of hooks may
be lost and whether the daemon restarts in between. The run has the worlds in
`SoundWorlds`; `BlockedUntilAnswered` states as its premise (`Heard`) what a unique
name proves only if every use of it was heard of. The names of the module are all
distinct from those of `Lifecycle` (`FlightInit`, `FlightSpec`), so that
`LifecycleProofs` can extend both.

## ChatQueue

One conversation and its controllers, one after another. What decides is spread
over four places: the rows (`row`, `order`, `held`, the steering `ledger`), the
controller's memory (`pending`, `acked`, `cutoff`), the driver (`drv`) and the
prompt that the detached host keeps (`host`), with the events on their way from
the driver to the projector in between. `call` is whatever holds `sendMu`: a
dispatch with its three steps (accept, bind, start), or a steering call, which
keeps the lock from the wait for the acknowledgement to its last write. Stop is
four steps of which only the first and the last hold the lock. The drain is an
operator, because the code runs it at the end of other handlers, under their lock.
A store access or provider call that fails is a step of its own wherever the code
goes on after it: a drain whose withdrawal of the stopped rows fails has spent the
cutoff and leaves them queued (`unswept` remembers which), one that cannot read the
next row leaves it, a dispatch may fail and then fail to settle its row, Stop's
reconciliation may settle some of the rows and not the others. `paused` remembers
that what should have moved the queue last did not, for one of these causes or
because a turn did not complete.

A controller ends in three ways: it lets go of a host that lives on (`Detach`),
its provider dies (`ProviderDies`, then `StreamEnds`, which cleans up without
the lock), or the daemon dies. `StartLive` rebuilds the owner of the slot from
the rows, `StartFresh` closes what ran and leaves the queue. A Stop whose
controller is gone comes to nothing; a new controller starts when no call is in
flight. The gate of a handoff is in `Handoff`. Not in the model: retry and
compaction, the text of an edit, turns the provider starts by itself, drivers
without deferred turns, and accesses that fail and only end a call that has changed
nothing yet.

## HostLaunch

Daemon boots and host processes race for one session's directory. A daemon
reads the descriptor, attaches to a host of its own, shuts down and releases a
stranger's, or spawns one and polls for it; a host takes the launch lock with
O_EXCL, or reads it, removes that of a dead host and tries again, starts the
provider and publishes the descriptor. A launch that fails on the way, from the
writing of the lock to the opening of the journal, ends the host with the removals
it has deferred by then (`GivesUp`). Each system call that another process can
come between is a step. Owner tokens are per boot: a new daemon replaces an old
daemon's host, and reattachment happens within one boot. `Rivals = TRUE` lets a
daemon boot beside another or beside an unfinished launch, which the code's lock
is meant to survive and does not (`HostLaunch_rivals.cfg`); the run has one daemon
after the other and a killed host.

## HostRelay

A host, its provider, the connection in both directions and one controller after
another. The host numbers what the provider says in a prompt, keeps it in
`replay`, with requests and the decisions on them, and tells it again to the next
controller until the end is acknowledged; the controller commits events in order
to `db` and drops what it already has. `LossyClose = TRUE` lets a broken connection
take along what was sent on it, as a socket does; it violates `RunningRuns`
(`HostRelay_lossy.cfg`), and `CommittedInOrder` and `OneAnswer` too. The run has
connections that close after what was sent has been read. `replayTo` sends nothing of
a request that has its answer; here its frame is sent, says so and is read for nothing,
so that the journal and what is told of it have the same places. The module's general
names begin with `Relay` because one proof module extends it beside `HostLaunch`.

## ChangeFeed

`log` is the change log and `head` its last number. The poller reads a batch and
publishes it to the stream's buffer; a stream asks for the cursor, subscribes,
replays what its client missed and goes live; a client that reads `event` drops
its cache (`due`) and fetches again, joined to a fetch in flight. Retention
removes old events, buffers overflow, connections break, the daemon dies. The
version of the cached query is the number of events, so `cache` says how fresh the
screen is. Assumed: each change of the query makes one event; retention never
overtakes the poller; a stream that is cut off by overflow ends before it drains
its buffer (in the code a random select); a request fails only when the daemon
dies.

## Reviews

One worker with one open pull request whose head moves. A trigger, by a user or
by the coordinator, holds the worker's lock through `job`: it settles what lost
its pane, records a run, and notifies the live pane or spawns one, and only then
stores the handle (`TriggerPrepare .. TriggerEnd`). Switch and restore are one
code path (`BringBack .. RestoreEnd`). Cancel takes no lock. Kill and shutdown take
the panes whose handle is stored, some steps before the worker is marked
terminated. A submission is recorded, then sent, remembered and marked by three
more steps, and several submissions may be in progress. `pane` and `conv` are what
really is there: which reviewer runs, and which runs its conversation was told
of. `told`, `torn` are history.

Whatever of these steps calls the launcher or the store may stop short at a call that
fails: the destruction of the other reviewers' panes leaves some of them with their
handle, some without it and their runs uncancelled (`StopsShort`), a kill or a save
leaves the worker alive with the reviewer half gone (`HalfDown`).

The coordinator's evaluation is merged with its trigger, which reads everything
again under the lock. Both ask first whether the user has turned the automation on
for this worker (`Gate`, `SetAutoReview`) and whether the worker is alive and idle.
With the automation off nobody sweeps: a run whose pane died then stays in progress
until a user triggers, switches, cancels or kills, and `StaleIsSettled` claims
nothing of it. `MaxEvents` is one budget for all that happens from outside:
pushes, a worker that is busy, calls of users, failed steps, deaths of the daemon.

## Runs

| run | instance | question |
|---|---|---|
| `handoff_pair` | 2 transitions, no crash, no fault, no queue | do two handoffs, a cancellation and an exclusive operation interfere? |
| `handoff_saga` | 1 transition, 2 crashes, 2 faults | does each crash and failed write leave an owner, a rollback and a truthful row, does a handoff end, and does it implement `ControllerOwnership`? |
| `outbox` | 2 messages, 2 handoffs, 1 crash, 1 fault | is anything lost, doubled or reordered, and does all of it arrive? |
| `session_ops` | 2 sessions, 2 callers, the startup pass, 1 write, 1 fault | are fences exclusive, durable and temporary? |
| `lifecycle` | 2 launches, 1 hook in flight, 1 kill | can a late hook or probe end or bring back a session, and is a silent death noticed? |
| `tool_flight` | 3 tool uses, 2 names, 2 turns, 2 hooks in flight, a cap of 3 | does a session look unblocked while a dialog is open? |
| `queue_pair` | 2 sends, 1 guidance, 1 Stop, 1 fault | is a message taken twice, does a Stop let messages through, does guidance return the lock? |
| `queue_restart` | 3 sends, 1 promotion, 1 edit, turns that complete or fail, 1 fault, 1 detach, 1 death | does every row keep its story over restarts, and is the queue served until it is put at rest? |
| `host_launch` | 2 daemons, 3 hosts, 1 killed | is the host that serves the one the files name, and do orphans exit? |
| `host_relay` | 1 request, 2 decisions, 2 turns, 2 notifications each, 3 attachments | is all that a provider says committed once and in order, and each question answered once? |
| `change_feed` | 2 events, a buffer and batches of 1, 2 faults | is an event skipped, is a change ever not seen? |
| `reviews` | 2 reviewers, 1 submission at a time, a limit of 1 retry, 2 events | is a run left in progress with nobody at it, is feedback lost or repeated? |

Every property has a mutant that its run refutes, so none of them holds by the
shape of the model alone.

Bounds. Two transitions are enough for interference, because only one is active
at a time and every rule relates a transition to at most one other; the theorems
remove the bound where they apply. Two crashes let the boot pass itself be
interrupted. Two faults let a rollback fail after the step it rolls back. One
queued turn separates an empty queue from one that is not; `handoff_pair` needs
none. Two messages are what an order and a duplicate need. One write at a time
shows every order of admission, reservation and release, because leases are only
compared with none; two callers and the startup pass contend for two sessions. In
`queue_restart` a third send is one that waits behind a turn that failed or could not
be dispatched while another is promoted. Two launches are an old one and a new one, the only
distinction a fence makes. Three tool uses and two names give two uses of one name
beside another tool, and two turns what one leaves to the next; a cap of three is
never reached, the smaller one is `ToolFlight_cap.cfg`. Three hosts are the one
that dies, its successor and one that meets both. Three attachments are two
replacements, the second during the replay to the first. A buffer of one
overflows at the second event, a batch of one needs two reads for two. Two events
of `Reviews` are any two of a push, a trigger, a cancel, a switch, a kill, a change of
the automation, a failed step and so on, beside what the worker, the coordinator and
the reviewer do by themselves. `CHECK_DEADLOCK FALSE` everywhere: a bounded
session really stops when its transitions, messages or events are used up and its
users leave.

Fairness. `Handoff` assumes weak fairness of what the daemon schedules: the rest
of an accepted request, the worker, the boot pass, the dispatch of the queue and,
of the agent, that a running turn ends. A cancellation, an operation or a crash is
never assumed. `Outbox` adds strong fairness of readiness and of a pane write
that succeeds: a session that is retried on every poll and not terminated becomes
idle again and again; without it an agent that never stops working starves its
outbox, which the code accepts. `SessionOps` assumes that writes return,
operations end and recovery goroutines run. `Lifecycle` assumes that calls return,
that hooks are delivered or lost and that the reaper and the clock go on; a probe
may fail again and again, but not for ever. `ChatQueue` assumes of the daemon each
step of a call and of the projector, of the agent that it ends a turn, and strong
fairness where a step waits for `sendMu`, which Go's mutex hands to whoever has
waited long: the resumption of the queue, the last step of a Stop, and the two events
of a turn that the projector takes under it. No client is assumed to come. The queue need not move
while it is at rest (`Resting`): the code holds it after a turn that did not complete
(controller.go:3100-3102) and stops after a dispatch or a drain that failed
(controller.go:1721-1764), until a client, a completion or a restart moves it again;
`QueueMoves` obliges it from then on. `HostLaunch` assumes only the steps of a
host, whose watch for its owner is a loop of its own. `HostRelay` assumes both
ends read, and that a controller attaches again. `ChangeFeed` assumes the poller,
the stream, EventSource's retry, and that a dead daemon is started again.
`Reviews` assumes the coordinator's sweep, which runs only while the automation is on
and the worker idle (the action's own guard), and the rest of a trigger or restore.
`ToolFlight` has no liveness: what it promises is about a state.

## What the code does not keep

Statements of the repository's documentation, comments and tests that the models
refute. Each is reproduced by `tlc -config <cfg>` on the module of the name; the
quotations are under "findings" in `PROJECT.json`.

* `Handoff_overlap` — a relaunch that checked for active transitions just before
  one is created starts the old mode's controller after the handoff moved the
  epoch.
* `Handoff_orphan` — a target terminal whose MarkSpawned fails has no handle on
  the row; if destroying it fails too, the rollback has nothing to stop and starts
  Chat beside it.
* `Handoff_fence` — the worker of a cancelled transition reopens the Chat gate
  after the next transition of the session armed it.
* `Handoff_signal` — the cancellation signals the run registered for the session
  at that moment, which may be another transition's.
* `Outbox_next` — only raw keystrokes are gated during a delivery; an ordinary
  send goes through the guard first.
* `ChatQueue_ack` — guidance waits for the acknowledgement of a turn under the lock
  that the acknowledgement's projection needs, so the timer ends every such wait.
* `ChatQueue_brake` — two Stops share one cutoff: the first one's reconciliation,
  or the second one's error, forgets it and the queue goes on.
* `ChatQueue_unswept` — a drain forgets the cutoff of a Stop before it has withdrawn the
  rows behind it; when that write fails, they are sent after all.
* `ChatQueue_held` — a crash within a promotion leaves the row of a live session
  reserved, and no drain sees it again.
* `ChatQueue_early` — the drain that follows a completion can find the driver still
  in the old turn; the next message is then settled as failed.
* `ChatQueue_ended` — a dispatch that binds its row after the last cleanup of its
  controller leaves a running row behind.
* `ChatQueue_overtake` — refused guidance is dispatched beside a pending turn;
  after a reconnect the older row has no owner.
* `Lifecycle_kill` — a handoff beside a kill marks the session spawned again after
  it was terminated.
* `Lifecycle_chat` — a pass of the reaper that began in the terminal ends a session
  that is in Chat by the time its answer is applied.
* `ToolFlight_pre`, `ToolFlight_restart` — after a lost pre-tool hook, or a restart
  of the daemon, the end of another use of the same name clears an open dialog.
* `ToolFlight_cap` — so does it when the cap on the tools in flight has dropped the
  other use.
* `HostLaunch_rivals` — two hosts that reclaim one dead lock may both hold it, one
  having removed the other's: two providers.
* `HostLaunch_adopt` — two daemons start a host at once, and the one whose host lost
  the lock attaches to the other's.
* `HostLaunch_lock` — a host that dies between making the lock and writing its pid
  leaves one that nobody may reclaim.
* `HostRelay_lossy` — what was sent on a connection that broke may be lost, and no
  later controller notices: the turn stays running for ever. With `CommittedInOrder` or
  `OneAnswer` in place of `RunningRuns` and `MaxFrames = 2` it refutes them as well.
* `Reviews_kill` — a reviewer's pane whose handle is not stored yet outlives the
  worker's termination.
* `Reviews_switch` — a reviewer without a handle is replaced without its runs being
  settled.

Met while modelling, and not refuted by a quotation: feedback that the guard
suppressed is sent again only when the reviewer submits again
(`lifecycle/reactions.go:97`); a daemon that dies between the record of a run and
the notice to a live pane leaves a run nobody works on, which `ReviewerKnows` exempts
as `torn`; a run cancelled as stale blocks the automatic review of its head for ever.

## Proofs

The proofs hold for every value of the constants: any set of transitions, sessions
or messages, any number of launches, hooks, crashes and faults. They rest on the
named assumptions about those constants only (`TransitionsAssumption` and
`BoundsAssumption` of `Handoff`, `OutboxAssumption`, `OpsAssumption`,
`BoundsAssumption` of `Lifecycle`, `QueueAssumption` of `ChatQueue`,
`FlightAssumption` of `ToolFlight`, `LaunchAssumption` of `HostLaunch`,
`RelayAssumption` of `HostRelay`, `FeedAssumption` of `ChangeFeed`, `ReviewAssumption` of `Reviews`). What else a
theorem assumes stands in its statement, and a run of the section above shows
that it does not hold without: the owner half of `HandoffProofs` assumes
`Disciplined`, `KilledAlways` `~Overlap`, `ServingAlways` and `OneProviderAlways`
`~Rivals`, `CommittedInOrderAlways` and `OneAnswerAlways` `~LossyClose`, `RunningIsOwnedAlways` that there is no guidance or that no projection
is lost, `StopBrakesAlways` one Stop under one controller,
`BlockedUntilAnsweredAlways` that the cap on tools in flight is not met (`Room`),
and `FenceHolds` that one worker at a time is past its start (`OneWorker`).

Of the handoff:

1. `TypeCorrect`: `TypeOK` is inductive by itself.
2. `SagaInv` is what holds of the code as it is. `OneActive` is the unique index;
   `StopHoldsRow` says that a worker past the stop has a row in a stop phase, which
   no cancellation can leave; `Quiet` says that finished and quarantined rows have
   no worker and that boot has no rival. From it follow `CancelSafe`, `OneSaga`
   and, with one step lemma over all actions, `OutcomesFinal`.
3. `OwnerInv` is why only the owner runs: `WhoOwns` fixes the mode at each point of
   a worker, `WhoRuns` says where nothing runs at all, `Stoppable` that a terminal
   about to be stopped has a handle to stop it by, and `OpsAlone` that an exclusive
   operation meets no transition and still holds the current mode.
   `OnlyOwnerLives` alone is not inductive: a launch preserves it only because
   nothing runs, which only holds because the stop before it was conclusive, which
   for a terminal depends on the handle. `Inductive`, `OneController`,
   `Quarantine` and `Refinement` follow.

4. `OwnsInv` is what of `WhoOwns` needs no discipline: each label of a worker fixes
   the mode the session has there, a saga is recorded as completed only where the
   epoch has moved, and one that had stopped its source as failed only where the
   rollback has restored it. So `OutcomesTell` (`OutcomeMatchesOwner`) and
   `OwnerKnown` hold of the code as it is, overlapping operations included.

5. `FenceHeld` is the fence of a live Chat source. The gate knows a policy and no
   transition, so the worker that is slow to leave may open it under the next one
   (`Handoff_fence`); `FenceHolds` says that this is the only way, and `FenceOfOne`
   that there is none for a single handoff, whatever crashes, cancellations and
   faults it meets.

Each invariant has one lemma per action and family, named after the action
(`StartArmType`, `StartArmSaga`, `StartArmOwner`), with one step per conjunct the
action can disturb and one for those whose variables it leaves alone; `TypeStep`,
`SagaStep` and `OwnerStep` join them over `Next`.

Of the operations (`SessionOpsProofs`): `LockInv` is why an operation is alone.
`HoldersOwn` says that a session is held by whoever is entered for it, `PassOwns`
the same of the boot pass and the deferred worker, and `WritesDrained` that a
holder past the draining met no write and admits none. `FenceInv` is why an
interrupted handoff stays fenced: `BootFirst` says that nothing else runs before
the sweep is through, `LeftFenced` that an interrupted session left behind has an
obligation, and `SawLeft` that what the pass has read about a session is still so
while it holds it. `ExclusiveAlways`, `FencedAlways` and `OnlyInterrupted` follow.

Of the outbox (`OutboxProofs`): a row is marked delivered in a step of its own, so
`HandedOn` needs `HandedOver`, which says that a row about to be marked has been
received or taken over by a later one, and `Unsent`, that a message whose call has
not returned is nowhere yet, so that no retry meets it. That a delivery has a least
row to take rests on the well-foundedness of the naturals (`LeastExists`).
`NothingLost` and `ChatOnceAlways` follow. For the order, `InTurn` says that a row at
hand comes after those of its handoff that are at hand as well, or acknowledged, so
that by `HandedOn` all before the oldest have been received when it is: with
`FirstKept`, that a message keeps the place where it was received first,
`QueueOrderAlways` follows.

Of the facts (`LifecycleProofs`): `Fresh` is why late news does no harm. `Drawn`
says that launches are numbered in order and one at a time waits for its runtime,
`Known` that nobody has heard of that one yet, and `Endings` that a launch whose
end was reported, by a hook, by a probe or by a Chat controller in its place, does
not run. No end can become untrue, for only the launch that nobody knows is started
(`QuietStep` covers the actions that start none, and there is a lemma for each of
the four that do). `ExitedAlways` and `DeadAlways` follow, with `RowStep`, which
names all that a step makes of the row. `KillInv` says that a kill and a handoff
are never beside each other; from it, without `Overlap`, `KilledAlways`.

Of the tools (`LifecycleProofs`, second part): hooks of parallel tools overtake each
other on their way, and the reducer counts them by name. `InOrder` and `Once` say what
is left of order: of one use the begin comes before the question and the question
before the end, and each is taken at most once. `Apart` says that the end of a turn, or
the daemon's restart, parts what came before it on the wire from what comes behind.
`Heeded` is why a unique name proves an answer: a tool at work is in flight with the
reducer or its begin is still to come, so that where the reducer knows of one use of a
name, that use is the dialog's. `Owed` says that the count of a name covers the uses
whose question was taken and whose end was not. `Closed`, that a turn which is over
left nothing behind. `Begun`, that before the first turn nothing was refused: so when all
is told, and nothing was lost, the tool that the reducer takes to be at the dialog is at
work or was refused in the turn under way (`over.refused`). A refused use tells no end;
what ends its block is the end of the turn, and `ProofIsComing` says so.
`BlockedUntilAnsweredAlways`, `ProofIsComingAlways` and
`TurnLeavesNothingAlways` follow; the first needs `Room`, that at the cap no use
begins, which `BlockedBelowTheCap` derives from the number of tools, and which
`ToolFlight_cap` shows to be needed. `AskedFor` bounds the questions on their way, as
the type invariant claims.

Of the Chat queue (`ChatQueueProofs`): a message has two ways to the agent, as the
prompt of its turn or as guidance, and several places from which it may be tried
again. `TakenKnown` says what closes them once the agent has it: a queued row is
reserved, a message without a row has its delivery on record, a withdrawn one was
never taken. `TurnUntaken` says that a turn about to be prompted has left the queue,
and `CallUntaken` what the holder of `sendMu` still knows at each of its steps, for
only the end of a stream changes rows beside it. Most steps let rows only go on
(`GoesOn`); a drain takes a row that is not reserved (`DrainDoes`), so
`TakenOnceAlways` and `WithdrawnAlways` follow. That there is a first row to take
rests, as in the outbox, on the well-foundedness of the naturals.

What ends a running row rests on `RowMoves`, which says where the rows of any step
come from, and on `Announced`: the driver gives up a turn only after its end is on
the way. Only a takeover can break this, for it owns the latest of the rows that run;
`OneRuns` says that there is one, which refused guidance, dispatched beside the turn
that refused it, makes false. Hence the hypothesis of `RunningIsOwnedAlways`, no
guidance or no lost projection: `ChatQueue_overtake` shows that without it the property
fails. For Stop, `BrakeOf` says that until the cutoff is spent it covers the places of
what was queued, and that none of it waits afterwards but what a drain could not withdraw (`unswept`,
which only grows); that no step under way brings any of the rest to the agent is
`Stopped`. `StopBrakesAlways` holds while one Stop is pressed under one controller, for
any faults: the one that breaks the brake itself, a withdrawal that fails, is in the
model and excepted by name in the property; `ChatQueue_unswept` refutes `BrakeHolds`,
which has no exception, and `ChatQueue_brake` shows what a second Stop does.

Of the hosts (`HostLaunchProofs`): without `Rivals`, `OneAtATime` says that one
daemon is up and at most one host on its way, and that only while its daemon polls
for it; `NoneBeside`, that nobody starts a host unless it has seen that none is up,
nor takes up any but its own; `LockHeld`, that the lock is its host's from its
creation to the removal, also when the launch fails, and that a lock about to be reclaimed belongs to
a process that stays dead. With `Named` and `Attached`, which tie descriptor and
connection to the host that serves, `ServingAlways` and `OneProviderAlways` follow.

Of the relay (the second part of `HostLaunchProofs`): `CommittedInOrder` compares two
logs that several controllers wrote one after the other, so the invariant says at each
moment where the rest is. `Prefixed`: what is committed is a prefix of what was said, and
the rest was said in the turn that runs. `Journaled` and `Streams`: the rest is in the
journal or is the end that is kept, and when a controller is there it is all on the
connection or in its queue, in order; what comes twice is recognised by its number.
`Tagged`: the controller commits it for that turn. `Ends`, `Acked` and `Starting` are why
an end cannot be lost or taken for the next one: it is acknowledged when it is committed
and not before, a controller that finds it committed ignores its one repetition, and a
prompt is on its way only behind the acknowledgement, hence never refused. `OneAnswer`
needs its own invariant over that one: `Placed` gives the handler of a request one place
at most (a frame that tells it, the handler that comes, the open request, the decision at
the host, the answer on its way), and only while the host waits; `Deciding`, that one
decision at a time is with the host and its reply is for whoever sent it; `Agreed`, that
whatever is told of a request anywhere, from frame to commit, is one decision, while it
waits the one that the host has recorded.

Of the feed (`ChangeFeedProofs`): `NothingSkipped` speaks of the client's cursor, which
moves only when a frame is read, so every place an event can be on its way has a clause
of its own. `BatchNext` says that the poller has in hand what the log has next,
`BufferOrdered` that the buffer is in order and behind the poller, `BufferWhole` that
after the replay every event is sent, in the buffer or still to be published, and, once
the buffer has overflowed, behind all that is in it. `SentWhole` and `WireWhole` say that
what the stream, or a frame on the wire, leaves behind is before it on the wire or has
arrived; so a connection may break anywhere. The proof did not go through at first: in
the model an event published after an overflow could take a place that had become free,
and be sent past the gap. The code ends such a stream by a random choice among 1024
ready events and the cancellation; the model now says so.

Of the reviews (`ReviewsProofs`): `ReviewerKnows` relates a run in progress to the
conversation of a reviewer whose pane is alive, but a pane that is gone may be brought
back with its conversation, so the invariant `Known` speaks of the conversation, pane or
not. What keeps it: `OnePane`, that a reviewer with a handle is the one in the pane, and
`Prepared`, that a job has dropped the others' handles before it brings up its own;
`JobRuns`, that from the record of a
run to the notice the job's run is the only open one of its reviewer, because those it
supersedes were failed before and the unique index refuses others beside it;
`SeenWhole`, that a restoration has read all the runs that the conversation must know.
For `FeedbackOnceAlways`, `TellInv` says that a worker who was told is remembered as
such, or about to be by a submission at its persisting step, or torn from it by a fault
in between.

Only model-checked, all of it liveness under fairness: `HandoffEnds` of `Handoff`;
`EverythingArrives` of `Outbox`; `InputReopens` of `SessionOps`; `DeathNoticed` of
`Lifecycle`; the liveness of `ChatQueue`; `OrphanExits` of `HostLaunch`;
`SaidIsCommitted` of `HostRelay`; `SeenOnScreen` of `ChangeFeed`; `StaleIsSettled` of
`Reviews`.
Liveness under fairness and ENABLED are out of the prover's reach, as are induction
over data and recursive operators; none of the modules with theorems has any.

## Not modelled

* Handoff: the acknowledgement of a notice and the history of finished
  transitions, how a terminal is proved idle, native history import, worktrees,
  previews and browsers of a killed session.
* Lifecycle: the reaping of containers, an agent restarted in the same shell,
  unsupervised launches, notifications.
* ToolFlight: `waiting_input`, retries after contention, and the texts of
  checkpoints, which the CLI always sends empty (`cli/hooks.go:217`).
* ChatQueue: retry, compaction, approvals, native history and branches.
* HostLaunch: reuse of process ids, Reconcile, the raw profile, a launch that is
  slower than the startup timeout of a daemon that goes on.
* HostRelay: set-up requests, cancellation, requests outside a prompt, the limit of the
  journal; requests that time out or that the provider withdraws, which the controller
  answers itself (client.go:162-171).
* ChangeFeed: the deletion of a session with its events, a replaced database,
  heartbeats, the terminal's subscription, the hub of notifications.
* Reviews: several pull requests, closed ones, overrides of the configuration, the
  reviewer's own activity, re-review requests, the resolution of comments, a failed
  write of the signatures, sessions that are no workers, the minute a worker must have
  been idle, a kill or restoration of the reviewer alone.

Other components are listed in `PROJECT.json` with the reason. HTTP, CLI, most of
the frontend and the adapters stay out: they translate, and their effect on the
core is an outcome the models already choose freely.

## Plan

1. Done: `Handoff`, `Outbox`, `SessionOps`, `Lifecycle`, `ToolFlight`, `ChatQueue`,
   `HostLaunch`, `HostRelay`, `ChangeFeed`, `Reviews`; the proofs named above.
2. Smaller machines: the supervisor's grace period with the run file, the browser
   broker's pending commands, the reactions'
   deduplication, the preview leases.
3. Compositions: `ChatQueue` with the gate of `Handoff` and with `HostRelay` as its
   driver, instead of a driver of its own.
4. Theorems: those of the machines and compositions above, as they come.
