# A TLA+ development of Symphony

Symphony is a scheduler that turns tracker issues into agent dispatches. Its
kernel (`symphony-core`) is a set of ticks that emit dispatch requests and
runners that execute them under concurrency caps, durable leases and
cooperative cancellation; `symphony-state` keeps the durable side in SQLite;
`symphony-cli` wires it together and offers the operator commands. This
directory models that kernel in TLA+, checks the models with TLC on small
instances, and proves with TLAPS, for every instance, all of the safety
properties of the passing runs: their invariants, their step properties and the
three refinements of an abstract specification. What TLC alone checks is liveness.

All paths below are relative to `src/crates/`.

## 1. Inventory

For each component: the state it keeps, what it does, what makes it hard, and
what makes it correct. The module in brackets models it.

### Execution

* **Durable run lease** (`symphony-core/src/{run_lease,lease}.rs`,
  `symphony-state/src/{run_lease_store,repository}.rs`) [RunLease].
  State: `lease_owner` and `lease_expires_at` of a `runs` row; the guard a
  dispatch holds; the runner's map of heartbeats. Operations: acquire (vacant,
  own, or strictly expired), release (unconditional), heartbeat (due when no
  more than the renewal margin is left), release on `Drop` through a spawned
  task. Hard: several scheduler processes, crashes, a store that fails, time.
  Correct: one live dispatch per run; a dispatch never outlives its lease; a
  dead owner's lease is freed; a finished dispatch holds none.
* **`symphony recover`** (`symphony-cli/src/recover.rs`) [RunLease, lease
  half]. Lists expired leases and orphaned workspace claims, and with
  `--apply` clears them one statement at a time. Correct: clears only what is
  expired or orphaned.
* **Dispatch runners** (`symphony-core/src/{specialist,integration,qa,
  followup_approval,budget_pause}_runner.rs`) [DispatchRunner, RunLease,
  Cancellation]. State: the queue they drain, the deferred list, a semaphore, a
  JoinSet, the heartbeat map. `run_pending` walks deferred then queued requests
  through: active-set lookup (specialist only), capacity permit, scope permits,
  cancellation, lease, spawn. Hard: seven ways out of the pass, each with its
  own set of permits to give back; tasks ending or panicking in the middle.
  Correct: permits balance; requests keep their order, are neither lost nor
  doubled, and finitely many of them do not starve; a cancelled request is not dispatched.
* **Recovery runner** (`symphony-core/src/recovery_runner.rs`) [RunLease for
  its lease, ClaimTick for its requests]. Same body without the gate and without cancellation; reconciles
  runs whose owner died.
* **Concurrency gate** (`symphony-core/src/concurrency_gate.rs`)
  [DispatchRunner]. One mutex, a cap and a counter per scope. Correct: all or
  nothing; no counter above its cap, none lost.
* **Runner driver** (`symphony-cli/src/run.rs`) [DispatchRunner, FollowupFiling for
  what the `ApprovedFollowupFiler` does]. A biased `select!` between the shutdown token and a timer; runs the five runners in
  order, awaits the filer and with it the tracker, reaps, and drains against a deadline on
  shutdown. Correct: shutdown ends.

### Emission

* **SchedulerV2** (`symphony-core/src/{scheduler_v2,queue_tick,
  logical_queue}.rs`) [SpecialistIntake]. Runs its ticks one after the other in
  registration order; the token may drop a tick at an await.
* **Intake tick and active set** (`symphony-core/src/intake_tick.rs`)
  [SpecialistIntake]. Publishes the tracker's active issues as one snapshot; an
  error leaves the last one.
* **Specialist tick** (`symphony-core/src/{specialist_tick,routing}.rs`)
  [SpecialistIntake]. State: the set of claims. Prunes claims of issues that
  left, routes, consults the dependency gate, enqueues. Correct: each
  appearance of an issue is requested once, and served.
* **Recovery tick** (`symphony-core/src/recovery_tick.rs`,
  `symphony-state/src/recovery_queue_source.rs`), **integration, QA, follow-up
  and budget ticks** (`symphony-core/src/{integration,qa,followup_approval,
  budget_pause}_tick.rs`) [ClaimTick, Emission]. The same claim protocol over
  sources that are polled. Hard: the source changes between polls and may fail;
  to the recovery tick a failing source looks like an empty one. Correct: each
  appearance at the source is asked for once, and none for ever ignored.
* **Legacy poll loop and state machine** (`symphony-core/src/{poll_loop,
  state_machine,retry}.rs`). State: claims, retry queue with back-off, running
  set. Correct: concurrency bound, one claim per issue, retries in order.

### Control

* **Cancellation** (`symphony-core/src/{cancellation,cancellation_observer,
  cancellation_propagator,dispatcher_cooperation,run_status}.rs`,
  `symphony-state/src/cancel_requests.rs`, `symphony-cli/src/cancel.rs`)
  [Cancellation]. State: a durable table and an in-memory queue, each with
  one pending entry per subject. The command writes a row for a run, or for a
  work item and for every in-flight run below it. Runners look before they
  lease; dispatches look between agent steps. Hard: command, runners, restart
  and dispatches interleave between statements; two keys reach one run.
  Correct: a cancel reaches its dispatch, survives a restart, and stops a
  subtree.
* **Scope contention log and broadcaster, exceeded budgets**
  (`symphony-core/src/{scope_contention_log,scope_contention_broadcaster,
  budget_exceeded}.rs`) [EventStream]. State: the episodes of the last pass, behind a
  mutex. Turn repeated observations into one event per episode, appended to the
  events table and then sent to the bus. Hard: the sink may fail after the dedup state
  has advanced, the process may die between the two, and several runners feed one log.
  Correct: no episode untold, no event on the bus that is not in the table. The **cancellation event log**
  (`cancellation_event_log.rs`) is a set that one call reads and writes.
* **Event bus, status surface** (`symphony-core/src/{event_bus,events}.rs`,
  `symphony-state/src/events.rs`, `symphony-cli/src/{sse,watch,tui,dashboard,
  status}.rs`) [EventStream]. State: the bus with its buffer, the table, a counter of
  subscribers, a cursor and a fetched page per stream. Hard: connections break with
  frames in flight, subscribers fall behind, dials race at the cap, the server is told
  to stop. Correct: who resumes misses nothing, no slot leaks, shutdown ends.

### Work items

* **Edges and dependency reconciliation** (`symphony-state/src/{edges,
  dependency_reconciliation}.rs`) [Decomposition, Closeout; Cancellation for the
  descendant query]. State: typed edges with a status and the outcome of their
  tracker sync. Reconciliation resolves the edges of blockers that have ended
  and releases what they blocked; a required sync that fails parks the child again. Hard:
  two statements per edge, a tracker that lags, writers that look at no status. Correct:
  nothing started early, nothing blocked for ever.
* **Integration and QA queues; parent close, QA rework, blockers**
  (`symphony-state/src/{integration_queue,qa_queue}.rs`,
  `symphony-core/src/{integration,qa,parent_close,qa_rework,qa_blocker,
  qa_blocker_policy,followup_policy,blocker,blocker_gate}.rs`) and the tools that
  write what they read (`symphony-mcp/src/{handoff,qa_verdict}_tools.rs`)
  [Closeout]. The queues are queries over items, edges, integration records and
  verdicts. Hard: agents of three lanes, reconciliation and failed syncs write at once; a verdict goes to the
  tracker before it is committed and is stamped with a time before that. Correct:
  no integration escapes QA, tracker and rows agree, a closed item stays closed.
* **Decomposition** (`symphony-core/src/decomposition*.rs`,
  `symphony-state/src/decomposition_apply.rs`,
  `symphony-mcp/src/decomposition_tools.rs`) [Decomposition]. Persists the
  children of a proposal and the edges between them in three transactions, then
  mirrors the edges under one of three policies. Hard: any of the steps may fail
  or die, and the tick dispatches by the tracker's active set and the open edges, not by
  the rows' statuses. Correct: joins hold, the parent waits for all children, and is offered.
* **Follow-ups** (`symphony-core/src/followup*.rs`, `symphony-state/src/{followups,
  followup_apply,pending_tracker_syncs}.rs`, `symphony-mcp/src/followup_tools.rs`)
  [FollowupFiling]. A tracker issue first, a durable transaction second, by two
  actors. Correct: nothing lost; what is filed twice is accounted for.
* **Workspace claims** (`symphony-state/src/workspace_claims.rs`,
  `symphony-workspace/src/*.rs`). A small durable state machine. A handoff (`symphony-core/src/handoff.rs`,
  `symphony-state/src/handoffs.rs`) is an action of Closeout and Decomposition.

### Edges of the system

Agents and their child processes, **tandem agents** that merge two event
streams, trackers over HTTP, the MCP server's plumbing and its read-only tools, configuration, migrations,
repositories, rendering and argument parsing. Of these only the tandem merge
keeps state over time that is worth a model.

### How the components meet

The intake tick writes the active set; the specialist tick reads it and writes
a queue; the runner reads both, at other moments. All runners share one gate and
one driver. A runner and the pulse share the heartbeat map; two processes share
the `runs` table. The cancel command shares the table with the scheduler, and
the scheduler's in-memory queue with its runners and dispatches. Agents change the
durable graph through the MCP tools while the ticks poll it, and the follow-up
tool and the driver's filer read and write the same rows and the same tracker.

What of this `symphony run` wires today: ticks, queues, runners, driver, bus, status
server. Leases,
the gate, the cancellation queue and the broadcaster are library parts that the runners accept
(`with_leasing`, `with_concurrency_gate`, `with_cancellation`) and the tests exercise; the
modules model them as the library offers them.

## 2. Modules

| module | models | state ↔ code |
| --- | --- | --- |
| `Lease` | what a run lease promises: abstract, no clock, no heartbeat | `owner`, `valid` = what a row says, `valid` being that its deadline is not past; `workers` = who has a dispatch of the run in flight |
| `RunLease` | the lease protocol between processes | `lease` = lease columns of a row; `task` = the spawned future of a run; `reg`/`beat` = `heartbeats` map; `snap`/`detached`/`old` = the `Vec` of cloned registrations a pulse pass walks; `dropRel` = releases spawned by `RunLeaseGuard::drop`; `found` = rows `recover` has listed; `wait` = ticks since a lease was tended |
| `DispatchRunner` | the pass, the gate, the tasks, the driver | `queue`, `deferred`, `parked` (`new_deferred`), `work`, `cur` = the lists and the loop variable of `run_pending`; `free` = semaphore; `inFlight` = gate counters; `task` = JoinSet and outcome; `cancels` = keys of `CancellationQueue`; `turn`, `stage`, `stopping` = `run_runner_loop` |
| `SpecialistIntake` | scheduler, intake, specialist tick, runner lookup | `store` = `ActiveSetStore`; `claimed`; `queue`; `deferred`, `work`, `snap`, `parked` = a pass; `visit`, `emitted`, `done` are history |
| `Cancellation` | command, table, queue, observers | `table` = pending rows; `queue` = `CancellationQueue`; `news` = rows not mirrored yet; `row` = run status; `at` = where a request is; `cli` = progress of the command; `bound` is history |
| `Emission` | what a queue tick promises: abstract, no code | `present`, `visit` = the source; `log`, `asked` = requests made |
| `ClaimTick` | recovery, integration, QA, follow-up and budget ticks | `claimed`, `queue` as in the ticks; `lenient` = which of the two ways to take a failing poll; `running` = handlers; `visit`, `log`, `asked`, `unseen` are history |
| `Decomposition` | one decomposed parent's children | `status` = status class; `linked`, `open`, `failed` = edge rows and their columns; `step` = how far `persist_applied_decomposition` is; `pending` = the loop over edges still to sync; `sweep`, `joining` = a reconciliation under way; `settled` = what the tracker shows as closed; `early`, `demoted` are history |
| `Closeout` | graph, the two queues, handoffs, QA verdicts | `status`, `linked`, `open`, `recs`, `judged` = rows; `unsynced` = the loop over edges to sync; `sweep`, `joining` = a reconciliation under way; `mirror` = the tracker; `draft` = a `record_qa_verdict` call under way; `base` = when the verdict sink was built; `seen` is history |
| `FollowupFiling` | filing of approved follow-ups | `row`, `created`, `items`, `syncs` = rows; `issues` = the tracker; `filing`, `mine` = calls of the tool; `pass`, `held` = a pass of the filer; `faults` is history |
| `EventStream` | dedup log, broadcaster, events table, bus, SSE server and its clients | `active` = `ScopeContentionEventLog::active`; `outbox`, `stored` = the loop over a pass's events; `log` = the events table; `bus` = the channel; `slots` = `SseState::active`; `open`, `at`, `page` = a stream, its cursor, its `pending`; `link`, `wire`, `got` = a client, its connection, its `Last-Event-ID`; `orphans` = streams whose client is gone; `last`, `told` are history |
| `*_proofs` | theorems about the module of that name | |
| `MC*` | instances for TLC | |

Each action is one uninterrupted stretch of the code: up to an await, a
statement against the store, or the release of a lock that another task takes.

**RunLease.** `Dispatch` is `try_acquire_lease`, registration and spawn.
`FinishDispatch`, `Release`, `Deregister` are the tail of the spawned future:
the release and the removal of the heartbeat are two steps because
`pulse_heartbeats` may run between them. `Panic` unwinds: the guard's `Drop`
spawns a release (`DropRelease`), and the heartbeat stays. `BeginPulse` clones
the registrations and lets the map's lock go; `Visit` is one `pulse_observed`
(renewed, not due, contended, or a failing store). `Crash` takes everything but
the row. `RecoverScan` and `RecoverReap` are `symphony recover --apply`. Time is
relative: `left` counts the ticks until expiry, 0 being the last instant at
which the lease holds and -1 any later one; `Tick` ages rows and heartbeats
together, so clock skew between processes is not modelled.

**DispatchRunner.** One module for the five runners, because they share the
body; what differs is in constants (`UsesActiveSet`, `ScopesOf`). The pass is
cut where tasks can interleave: after each permit, the cancel lookup and the
lease. `ParkForCapacity`, `ParkForScope`, `ParkForLease`, `DropMissing`,
`DropMissingRun`, `AbortCancelled` and `Spawn` are the exits of the loop body.
A task gives back scopes and capacity in two steps (`DropScopes`,
`DropPermit`), a panic both. The outcome of the lease is an input here; what it
is worth is `RunLease`. A cancel has the run or the work item of its requests for its key:
an abort drains the run's entry, for every request of that run, and leaves the work
item's. After the runners' passes the driver awaits the filer (`FilerReturns`), whose calls
of the tracker have no bound: the GitHub client is built without a timeout
(`symphony-tracker/src/github/adapter.rs:226-240`), and a pass makes as many calls as there
are approved rows.

**SpecialistIntake.** The scheduler's two ticks alternate (`StartPass`,
`Publish` or `FetchFails`, `SpecialistTick`); the driver's pass runs beside
them, and takes its snapshot after its drain (`Drain`, `Snapshot`), so a
publication can fall between. Routing is the set `Routable`.

**Cancellation.** `CancelCommand`, `Cascade`, `FanOut` are the command's
statements, and `CommandDies` ends it between two of them. `Observe`,
`MarkCancelled`, `Drain` are the pre-lease observation, which releases the
queue's lock before it calls the sink. `CheckStep` is
`DispatcherCancellationCheck`.

**ClaimTick.** `Tick`, `TickPastError` and `TickGivesUp` are one `tick` each, with
an answer, with an error that is counted and passed over (recovery), and with
one that ends the tick (the others). `Orders` fixes the order of the sources and
leaves that of a source's rows open. `Dispatch`, `Handled`, `HandlerFails` stand for
the runner: a failed outcome is discarded by `reap_completed`.

**Decomposition.** `PersistChildren`, `PersistEdges`, `ReleaseChildren` are the
three transactions, `PersistFails` an error of the second or third: the caller
cannot resume, as a second call fails on the children's identifiers. The issues of the
children are at the tracker before the rows, so `Dispatch`, the tick's decision, looks at
open edges only: it may fall before the edges have rows (`early`), or on a child whose row
says `blocked`. `SyncFails` under `required` ends the loop and parks the child, whatever has
become of its edge and of the child itself; `RetrySync` is a later successful retry, of an open
edge. `ReconcileResolves` and `ReconcileReleases` are the two statements between which a crash
or `ReconcileFails` loses a release, which leaves the row blocked and not the child, as the
tick reads no status. An item that is cancelled counts as done for edges and queue. What
does get stuck is a terminal row that is overwritten, by a late release, a late park or the third
transaction: the edges behind it are resolved only while it is terminal (`demoted`).

**Closeout.** `Wants` is what a lane's query returns; the specialist's has no status in it. Agents
of one lane on one item exclude each other, those of different lanes do not. `BeginVerdict`,
`MirrorBlocker`, `MirrorFails`, `CommitVerdict`, `CommitRefused` are one call of
`record_qa_verdict` in its order: state at the tracker, blockers at the tracker,
one transaction. Time is counted in integration records of the item, all that the
QA queue's comparison of timestamps can tell apart. Writers without an agent are the actions of
`Decomposition` seen from here: the edges that reconciliation resolves are those of
decompositions (`Planned`); nothing in the code resolves those of QA, and `Resolve` is external.

**FollowupFiling.** `CreateDirectly` is the tool's first transaction, `ToolFiles`,
`ToolRefused`, `ToolRecords`, `ToolFails` the rest of its call; `PassBegins` is
`list_approved`, the other `Pass` actions one iteration each. `Recorded` is
`persist_applied_followup`, whose updates do not look at the row's status. `Orphaned` is a
`create_issue` that reports an error for an issue it has made: on GitHub a request that closes it
follows the one that creates it (`symphony-tracker/src/github/adapter.rs:530-544`), and any
reply may be lost. Nothing in the repository stores the decision on a proposal: `Decide` is
external.

**EventStream.** `Pass` is `observe_pass` under the lock, which replaces what the log holds by
what this pass saw, whosever pass the last one was; `Persist`, `PersistFails`,
`Emit` are an iteration of the loop behind it, the same for contended scopes and for
budgets. `Dial`, `DialFromZero`, `DialOverCap` and `Refuse` are `events_handler`,
seen from the loop of `symphony watch` that calls it; a refusal raises the counter
and lowers it in two steps. `SendRow` is a poll with its first frame, or a later frame of the
page; a poll that finds nothing or fails changes nothing. `SendLive` and `CutOff`
are the stream without a database. `Lose` leaves the server a stream that it holds
until a write fails (`Reap`). Both ways `run.rs` builds the server are in one run
(`durable`). A sink comes with the database; a broadcaster with neither sends only.

External, modelled from their use: the clock, the tracker, the dependency graph
other processes edit, the emission of requests with a reserved run, and the
mirroring of new `cancel_requests` rows into the in-memory queue. The last is
described (`symphony-state/src/cancel_requests.rs:1-30`,
`symphony-core/src/cancellation.rs:162-174`) and not yet wired; likewise no
dispatcher polls `DispatcherCancellationCheck` yet.

## 3. Runs

| run | shows |
| --- | --- |
| `RunLeaseSafe` | three processes, punctual pulses: `OneDispatchPerRun`, `LeaseOutlivesTask` through crashes, panics, failed pulses and failed releases; the protocol implements `Lease` (`Exclusive`, a refinement) |
| `RunLeaseLoose` | two processes that may stall for any time, late drop-releases, an operator who reaps: `BeatNeverAhead`, and `DeadLeaseFrees` |
| `DispatchRunnerSafe` | two runners, one gate, caps of one: `PermitsBalance`, `ScopesBalance`, `AgeOrder`, `NoneLost` |
| `DispatchRunnerLive` | the same without the active set, two requests of one run and two of one work item: `WorkDrains`, `ShutdownEnds`, `CancelSticks` |
| `Intake` | two issues, one permit: `OncePerVisit`, `Served`; the specialist tick implements `Emission` (`OncePerAppearance`, a refinement) |
| `Cancel` | one command, two sibling runs of a grandchild, a restart, a fault: `CancelSurvives`, `SubtreeStops`, `CancelReachesTask` |
| `ClaimTick` | two sources, either of which may fail, candidates that leave and come back: the tick implements `Emission` (`OncePerAppearance`, a refinement), and `Served` |
| `Decomposition` | a join, two children that may be cancelled, three policies, two failures, a crash anywhere: `JoinKept`, `OfferedComplete`, `NeverStuck`, `Completes` |
| `Closeout` | a parent and two children with an edge of its decomposition, two agents, every handoff and verdict, cancels, reconciliations, failed syncs: `NoStaleVerdict`, `MirroredFirst`, `ClosedIsFinal` |
| `FollowupFiling` | two follow-ups of either route, filed by tool and driver at once, refusals with and without an issue left behind, faults: `CreatedIsTracked`, `IssuesAccounted`, `Filed` |
| `EventStream` | two runners that share a log, a client that resumes and one that does not, three failures of sink, look-up, connection or process: `EpisodesAccounted`, `LiveBehindLog`, `SlotsAccounted`, `GapFree`, `CatchesUp` |

`TypeOK` is checked in `DispatchRunnerSafe`, `Intake`, `Closeout` and `EventStream`; for every
module it is proved (`TypeCorrect`, section 4). One more run ends in a counterexample: the code does not do what a
comment of the repository says.

| run | disagreement |
| --- | --- |
| `StatusHangs` | `ShutdownCompletes`: a client that stays connected keeps the status server from stopping, and `symphony run`, which waits for it, from exiting; `sse.rs:342` says that streams in flight unblock |

Without a database the streams do not end either: they wait for the bus to close, and
the server holds a sender of it. Two tests drop their client before they cancel the
server, and say why (`sse.rs:800`, `watch.rs:621`).

Thirteen further configurations are kept for a reader who wants to see a trace; each
states a sentence of a document or a comment and ends in a counterexample
(`tlc -config <name>.cfg <MC module>`):

| configuration | module | disagreement |
| --- | --- | --- |
| `RunLeaseRevived` | `MCRunLease` | `ReleasedStaysReleased`: a pulse re-acquires a lease between its terminal release and the deregistration; the comment at `specialist_runner.rs:714` says that it cannot |
| `FollowupRefiled` | `MCFollowupFiling` | `CreatedIsFinal`: the tool's call is still at the tracker when the filer lists its approved row; both create an issue, and the second to commit overwrites `created_issue_id` of a row that is final according to `followup.rs:174` |
| `SharedEpisodes` | `MCEventStream` | `EpisodesToldOnce`: with two runners that share a broadcaster a pass of one ends the episodes of the other, whose next pass tells them again, pass after pass; `specialist_runner.rs:328` promises one event per episode, and `scope_contention_broadcaster.rs:16` means the log to be shared; a restart, which forgets all episodes, has the same effect |
| `RunLeasePanic` | `MCRunLease` | `PanicClearsLease`: the heartbeat of a panicked dispatch is never removed, and keeps its lease alive for ever; `run_lease.rs:18` says the lease is cleared |
| `RunLeaseDuplicate` | `MCRunLease` | `NoDuplicateActiveLease`: `release_lease_in` clears the row whoever holds it, so a stalled owner clears its successor's lease; `PLAN_v2.md:85` promises no duplicate active leases |
| `RunLeaseReap` | `MCRunLease` | `ReapsOnlyExpired`: `recover --apply` releases a row that was re-acquired after it was listed; `recover.rs:10` says it reaps expired leases |
| `IntakeBlocked` | `MCSpecialistIntake` | `BlockedNotDispatched`: a blocker opened after a request was emitted does not stop its dispatch; `SPEC_v3.md:55` says that it does |
| `CancelSwallowed` | `MCCancellation` | `CancelReachesTask` with two requests for one run: the one aborted before its lease drains the entry that the running one would have found; `dispatcher_cooperation.rs:48` bounds the wait by one turn |
| `TerminalReopened` | `MCCloseout` | `TerminalStays`: an agent that was at work when its item was closed opens it again with its handoff or verdict, and so does a required sync that fails late, or a late release; terminal classes are documented never to re-enter the pipeline |
| `DoneUngated` | `MCCloseout` | `DoneIsGated`: a handoff or a passed verdict closes a parent whose children are open; the enum's documentation says the kernel downgrades it |
| `RacesAhead` | `MCDecomposition` | `NeverAhead`: between the first two transactions, and for ever if the second fails, a specialist starts on a child whose dependencies are not done, as the tick reads open edges and no status; `decomposition_apply.rs:82` says that the status `blocked` keeps it from that, as does `:115` of a required sync that failed |
| `Overtaken` | `MCDispatchRunner` | `WorkDrains` with work that never stops coming (`BusySpec`): whoever asks after a permit has come back gets it, and a runner whose turn is over has to wait for its next; nothing in gate or driver is fair between requests |
| `ShutdownWaits` | `MCDispatchRunner` | `ShutdownEnds` with a tracker that leaves a call unanswered (`SilentSpec`): the driver awaits the filer in its round; `run.rs:284` says that the driver bounds itself on its drain deadline |

Read in passing and true by construction, so not worth a run: the token is
looked at between walks over the runners only, so a walk in progress still
drains later queues (`run.rs:346`); `select!` drops a tick that awaits
(`scheduler_v2.rs:197`); a failing sink does not keep the cancel entry from being
drained (`specialist_runner.rs:624`); nothing outside the tests drains a
`cancel_requests` row or the entry of a work item.

### Bounds, and why they are enough

* `RunLease`: one run, as runs are independent in every action. Three owners
  where mutual exclusion is at stake: the one that lost the lease, the one that
  took it, and one more; two elsewhere. `Ttl = 3`, `Margin = 1`, `PulseEvery = 2`
  is the tightest instance of `PulseEvery <= Margin + 1` in which a lease can be
  renewed early, at the margin, and not at all; expiries are floored at -1. No
  counter is bounded. The theorems remove these bounds.
* `DispatchRunner`: three requests give a deferred one, a fresh one and one of
  the other runner; caps and permits of one make every exit reachable, two
  permits on one runner make it meet the gate before its semaphore.
  `MaxFaults = 1` lease fault per behaviour (`DispatchRunnerLive` needs it
  finite: a store that fails for ever parks for ever). Requests 1 and 3 are of one run, 1 and
  2 of one work item and of two runners, so that an abort can drain what another request would see.
* `SpecialistIntake`: one permit and two issues, one of which appears twice
  (`MaxVisits`), so that a request of an earlier appearance can meet a later
  one; one failed fetch or look-up.
* `Cancellation`: one command (`MaxCancels`) of any subject, of which
  `--issue` puts up to three rows under two keys; one restart (`MaxBoots`), one
  failure of sink or command (`MaxFaults`).

* `ClaimTick`: two sources with a candidate each, so that one can fail while the
  other answers; two appearances (`MaxVisits`) of each, so that a claim can meet a
  later one; one failing poll (`MaxFaults`).
* `Decomposition`: three children, the smallest proposal with a join; one of those it joins,
  and the joining one, may be cancelled. Two failures, so that both edges of the join, or a
  sync and a reconciliation, may fail; one crash at any point.
* `Closeout`: a parent and two children, any of which may be named as the blocker of
  any other, and one edge of a decomposition. Two agents (`MaxStarts`) are what it takes to
  have an integration recorded while a QA agent is at work. `MaxStarts` also bounds the
  integration records. One crash.
* `FollowupFiling`: two follow-ups, as a pass has a row at its head and one behind
  it; two refusals, with an issue left behind or without, and two faults, of which one may hit
  either filer of one row.
* `EventStream`: two runners that feed one log. One of them has an episode to see, which the
  passes of the other, that see none, make the log forget; what two episodes add is in theorem
  `EpisodesKept` and in `SharedEpisodes`. Three events (`MaxEvents`), the
  least with which a cursor can skip one, over pages of two, so that one may be half
  sent. Two clients, two slots: a stream that nobody reads makes the third. One frame
  in flight (`Window`) and a bus that keeps one event (`Buffer`), so that lagging is
  one event away. Three faults of any kind. That two runners emit at one time is beyond
  this run and in theorem `BusBehindTable`.

`CHECK_DEADLOCK FALSE` is set for every module but `DispatchRunner` and
`RunLease`: a stopped scheduler, and a system in which everything has ended and every
bound is used up, have no step left. `DispatchRunner` says where it stops
(`Exited`), and `RunLease` never stops.

### Fairness

Weak fairness only, on steps the runtime takes by itself: the clock; the
driver's loop, its drain timer and the pass, and the tracker's answers to its filer
(`TrackerAnswers`, without which `ShutdownEnds` fails); spawned futures that are ready; a
pulse pass; the scheduler's ticks and the tracker's answer; the statements of
the cancel command; the ticks of `ClaimTick`; in `Decomposition` the call that
persists, reconciliation, called again and again, with each edge that it visits, and the tracker
closing the relations of closed issues; in `FollowupFiling` the filer's passes, which
the driver starts in every round; in `EventStream` the loop over a pass's events,
dials and their retries, the polls of a stream, delivery, and the keep-alive that
finds a dead connection. A client that stays is not assumed to leave. A retry of a failed sync is not fair: `Completes`
does not need it. A dispatch is assumed to end in `DispatchRunnerLive`, `Intake` and
`ClaimTick` (permits and claims come back only then), and a child's agent in
`Decomposition` (with a handoff that attempts done), and is not assumed to end in `RunLease`
and `Cancellation`. `Closeout` states no liveness.
Never fair: crashes, panics, store failures, refusals, operator commands, shutdown, tracker changes, and in `RunLease` a retry after a panic.

## 4. Proofs

`RunLease_proofs` proves, for any finite or infinite sets of owners and runs and
any TTL, margin and cadence with `Margin < Ttl` and `PulseEvery <= Margin + 1`:

* `TypeCorrect`: `Spec => []TypeOK`.
* `HeartbeatNeverAhead`: `Spec => []BeatNeverAhead`, with no assumption on
  timing or on the operator. A heartbeat is written only together with the row,
  both age together, and no other write lengthens a lease in an owner's name.
* `LeaseInvariant`, `LeaseOutlives`, `MutualExclusion`: under `Strict`, that is
  punctual pulses, spawned releases that run before their owner takes the run
  again, and no operator reaping.

`LeaseOutlivesTask` is not inductive: it says nothing of how much time is left.
`LeaseInv` adds `Covered`, that what is left of a tended lease plus the ticks
since it was last tended is at least `Margin + 1`. A visit that renews makes it
`Ttl > Margin`; a visit that finds the heartbeat not due has `beat > Margin`,
and `BeatNeverAhead` carries that to the row; a tick takes one from the first
term and gives one to the second, and punctuality keeps the second at most
`PulseEvery <= Margin + 1`, so the first stays at least 0. `PassRegistered` says
that what a pass holds is registered or detached, `DropsFollowPanics` that a
pending drop-release belongs to a panicked dispatch and so cannot hit a live
one. `OneDispatchPerRun` follows since a row has one owner. Each of the three
conditions of `Strict` is necessary: dropping it gives the counterexamples of
`RunLeaseDuplicate` and `RunLeaseReap`, or a late drop-release.

* `PromiseKept`, also under `Strict`: `Spec` implements `Promise!Spec` of `Lease`
  (`Exclusive`). It says of steps what the two invariants say of states: while a run
  is worked on its lease is neither passed on nor cleared nor left to lapse, and a
  lease with time left is never taken over, even when nobody works under it.

Every step of the protocol maps to a step of `Lease` or to a stutter: `Dispatch` to
`Begin`, `Release` and `Panic` to `End`, a visit that renews to `Renew`, a
`DropRelease` to `Clear`, a tick to `Lapse`, a crash to `Die`. The lemma `Lone` says where a
step starts: who works on a run holds a valid lease of it and works alone, and a
drop-release that is pending meets the lease of its own owner with nobody at work.
That a tick lapses no lease in use needs `Covered` after the tick, so the whole of
`LeaseInv` on both sides of the step.

`DispatchRunner_proofs` proves, for any list of runners, any finite set of
requests, any scopes, caps and permits:

* `TypeCorrect`: `Spec => []TypeOK`. Two shapes are needed for it: a driver that
  drains is past its last pass (`DriverShape`), and nothing is left over between
  two passes (`PassShape`).
* `OrderKept`, `NoneIsLost`: `Spec => []AgeOrder`, `Spec => []NoneLost`. Neither
  is inductive: an ascending list says nothing of what may still arrive. `ListInv`
  adds `WellListed` (a runner's lists hold what waits for it and nothing else)
  and `BornInOrder`. The argument is the lemma `StepKept`: read as one list
  (parked, held, still in the pass, deferred, queued), a step leaves a runner's
  requests as they are, takes one out that it settles in the same step, or adds
  a younger one at the end. `OneLessKeeps` and `AppendKeeps` say that each keeps
  the list ascending and its members the waiting requests.
* `PermitsKept`, `ScopesKept`: `Spec => []PermitsBalance`,
  `Spec => []ScopesBalance`. `PermitInv` adds both to `ListInv`, which is needed
  to know that the request a pass holds is not yet a task: only then does taking
  or returning a permit change the set of holders by one. `PermitsMoved` and
  `ScopesMoved` say what a step may do to semaphore, counters and holders;
  `PermitsKeep` and `ScopesKeep` do the counting.

* `CancelsStick`: `CancelSticks`, in two parts. `Stuck` is what a request of a cancelled work item
  stays: settled, or waiting and not past the pass's look at its cancel, with the entry still
  there. It is kept by every step because a request that the pass holds waits (`ListInv`), so that
  no step but its own exits settles it, and no step drains a work item's entry. The entry of
  a run is drained by one step only, the abort of a request of that run, for all of them.

The proofs assume `RunnerAssumption`: in particular that requests are finitely
many and numbered, by age.

`SpecialistIntake_proofs`, for any finite set of issues: `TypeCorrect` and
`AppearanceOnce` (`OncePerVisit`). Two requests for one appearance would need the tick
to find no claim for it, which the property does not speak of; `Claimed` says that
a request of the present appearance is covered by a claim and none is ahead
of its issue, `Visits` and `PassShape` support it. `PromiseKept`: `Spec` implements
`Promise!Spec` of `Emission` with the active set as the source (`OncePerAppearance`).
`Publish` is `SourceMoves`, the tick `Ask`. It needs `Covered`, which is `Claimed` for
every request ever made, settled ones included: the history `emitted` keeps them.

The queue of `Cancellation`, which the runners consult, is treated at the end of
`DispatchRunner_proofs` (instance `C`), for any tree of items and any runs:
`CancellationTypeCorrect` and `CancelsSurvive` (`CancelSurvives`). `CancelHeld` says that
a request for which a replayed cancel speaks still finds it in the queue and has not
passed its observation.

`ClaimTick_proofs`, for any finite set of candidates, any list of sources and either
way to take a failing poll: `TypeCorrect`, and `PromiseKept`: `Spec` implements
`Promise!Spec` of `Emission`. Initial states map to initial states. Changes of
the source are `SourceMoves`, or stutter; the three ticks are `Ask` or stutter. The
refinement needs the invariant that what is asked for and still there is claimed:
then the requests of a tick, which are for unclaimed candidates, are none that
were made before, and that a tick forgets a request only when it is lenient.
`AskedOnce` says what the promise comes to: a tick that gives up on a failing source
never makes a request twice (`NoneTwice` of `Emission`). The lenient tick may; that is
what `Emission` lets it forget.

`Decomposition_proofs`, for any acyclic proposal (`DecompositionAssumption`):
`TypeCorrect`, `JoinsHold` (`JoinKept`), `OfferedWhole` (`OfferedComplete`). `Rows`
says that the children get their rows at once and the edges theirs, `Resolved` that
from then on an edge is open until the tracker shows its blocker as closed, `Closed`
that a terminal row means a closed issue. A dispatch finds no open edge into its child,
and so all blockers closed; an agent that started before the edges had rows is in
`early`, of which `JoinKept` does not speak. The queue sees terminal rows only, `Rows`
says that they are all, and `Closed` that their issues are closed. `AlwaysMoves`
(`NeverStuck`) is the safety half of `Completes`: once there are children, one is at
work or can be dispatched, or reconciliation has something to do, or the parent is
offered. It needs the other half of `Closed`, that until a terminal row is overwritten
a closed issue has one, for then an open edge of a closed blocker is eligible, and that
an acyclic proposal has a child, not closed, all of whose blockers are
(`SomeoneMoves`), which can be dispatched unless such an edge is left.

`Closeout_proofs`, for any forest of items: `TypeCorrect`, `VerdictsAreFresh`
(`NoStaleVerdict`), `BlockersAreMirrored` (`MirroredFirst`) and the step property
`ClosedForGood` (`ClosedIsFinal`). `Stamped` says that the newest stamp is what its
verdict's agent looked at, `Told` that a call has told the tracker of the blockers
no longer left, `Called` that it belongs to a QA agent at work, `Rowed` that the edges
of decompositions have their rows. `ClosedForGood` takes each writer in turn: those
with an agent need one at work on the item, and only the specialist lane starts one on
a closed item (`ClosedUnwanted`); reconciliation and the parking after a failed sync
write without an agent, but only to an item that has an edge open, is being released
or waits for a sync, of which `Final` says that it has none. A QA verdict elsewhere
opens no edge that reconciliation resolves: those have their rows already (`Rowed`), and
the table refuses a second one for a pair.

`FollowupFiling_proofs`, for any finite set of follow-ups and any number of refusals
and faults: `TypeCorrect`, `CreatedRowsTracked` (`CreatedIsTracked`), `IssuesBounded`
(`IssuesAccounted`). Among the faults are the errors that `create_issue` returns although
the issue has been made: each leaves one that nobody knows of (`Orphaned`). The bound on issues is not inductive, as it does not say who
may still file. `Counted` attributes every issue beyond the faults to one of two
turns: `ToolTurn`, which a follow-up uses up when the tool's call leaves `filing`, and
`PassTurn`, which it uses up in the last pass that shows it. Because a pass lists
each row once (`Passing`, its rows ascend) and only approved rows are listed, no turn
comes back without a fault.

`EventStream_proofs`, for any runners, logs, keys and clients and all limits that
`EventStreamAssumption` admits: `TypeCorrect`, `SlotsKept` (`SlotsAccounted`),
`BusBehindTable` (`LiveBehindLog`), `EpisodesKept` (`EpisodesAccounted`) and the step
property `NoGaps` (`GapFree`).

* `SlotsAccounted` is inductive only with the types and with `Links` (a stream that is
  served has a client, frames in flight have a connection): a stream that ends must
  have been counted, as an open one or as an orphan. The three are one invariant,
  `ServerInv`. `slots` is compared with cardinalities; the lemmas about them are
  stated once.
* `LiveBehindLog` needs to know what is between table and bus: `Ahead` adds the event
  that a runner has stored and not sent, `Outboxes` says that an outbox holds events of
  its runner only, so that two runners never have the same key between the two.
* `EpisodesAccounted` needs `Remembers`: of what a runner can observe, its log takes
  nothing for told that the runner's last pass did not see. Passes of other runners
  replace the log's set, but only by what they saw themselves, so it holds for one log
  per orchestrator as for one per runner, and an episode that begins is told. That it is
  told only once does not hold: `SharedEpisodes` is the counterexample.
* `GapFree` needs `InStep`: the cursor kept, the frames in flight, the cursor of the
  stream and its fetched page are consecutive numbers. A poll starts the page behind
  the cursor, a frame moves the cursor by one, a delivery the cursor kept.

The assumptions on constants are the ones the modules state (`RunLease`: `Margin < Ttl`
and `PulseEvery <= Margin + 1`, with `Strict` where said; the others: finite sets and
acyclic graphs).

Model-checked only: the liveness properties (`DeadLeaseFrees`, `WorkDrains`,
`ShutdownEnds`, `Served`, `SubtreeStops`, `CancelReachesTask`, `Completes`, `Filed`,
`CatchesUp`), which are out of the prover's reach as they rest on fairness. The theorems hold
of what they need besides: that nothing is lost (`NoneLost`), that a cancel survives, that a
decomposition always has a step to take (`NeverStuck`).

## 5. Not modelled

Everything listed under `not_modelled` in `PROJECT.json`, with its reason: agents and
trackers are external processes, configuration, prompts, migrations, rendering and
argument parsing keep no state over time, and what is left is in the plan. Inside
the modelled parts: log lines, report counters and observers of a pass; the parsing of
frames; the rounding of the bus's capacity to a power of two; changes of caps at run time; jitter and
intervals of the scheduler; the routing rules; clock skew between processes;
payload validation of the tools, beyond what a guard depends on; waived blocker
gates; the approval of a decomposition; pull requests; the pauses that the budget bridge
enqueues. The policies of parent close, QA
rework and follow-ups are pure functions that no code outside the tests calls, so a
model would not say anything of the running system.

## 6. Plan

In order of weight for the system:

1. `PollLoop`: the legacy loop's claims, retry queue with back-off,
   reconciliation, concurrency.
2. `WorkspaceClaims` with the other half of `symphony recover`.
3. `Tandem`: merging two event streams under cancellation.

Theorems worth proving next: safety halves of other liveness properties, as `NeverStuck`
is of `Completes` (a settled pass leaves nothing parked without a reason; an approved
follow-up is always in reach of a filer); that the closure of the cancel command's
descendant query, which is computed by iteration, holds every descendant; from
`CancelSurvives` and `CancelSticks`, one statement over the composition of the two
modules.
