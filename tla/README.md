# Verification of the gateway's work coordination

OpenClaw's gateway is one long-lived Node.js process. Messages from channels,
RPC requests, cron ticks and heartbeats become *work*: agent runs and commands
that are serialized in lanes, admitted behind fences that close for a restart or
a host suspension, and answered through a durable outbound queue. This project
specifies the coordination core in TLA+, checks it with TLC on small instances
and proves most of its safety properties with TLAPS for every instance.

All source paths below are relative to the repository root, which is the
directory `src/` here (so the TypeScript sources are under `src/src/`).

## 1. Inventory

| Component | State | Operations | Talks to |
|---|---|---|---|
| Command lanes, `process/command-queue.ts` | per lane: queue, active task ids, limit, generation; drain waiters | enqueue, pump, completion, task timeout, set limit, clear, reset one or all lanes, wait for active tasks | asks admission before each enqueue; called by agent runs, cron, recovery, run loop |
| Root work admission, `process/gateway-work-admission.ts` | restart drain and signal flags with a generation, suspension phase with a generation and a callback, active roots with reference counts, parked waiters; one root per asynchronous chain (AsyncLocalStorage) | begin a root (try, when open, independent, continuation), retain, release, signal, mark draining, suspend lease (commit, rollback, release), reset, wait for roots | used by request dispatch, timers, lanes, coordinator, run loop |
| Host suspension coordinator, `infra/gateway-suspend-coordinator.ts` | the current entry (held or recovering) with its timer and lease | prepare, status, resume, expiry, recovery retry, invalidation by a restart | takes a suspension lease, pauses and resumes the cron scheduler, inspects active work |
| Outbound durable delivery, `infra/outbound/*`, `infra/delivery-queue-sqlite.ts` | rows (pending, acknowledged, failed) with send evidence and retry count; in-process claims | enqueue, mark send started or dispatched, record results, ack, fail, claim, drain, recover, reconcile | channels' adapters, SQLite |
| Heartbeat wake, `infra/heartbeat-wake.ts` | pending wakes per target, one timer, running flag, handler generation | request, timer, batch, set handler, dispose | cron and channels request; the heartbeat runner handles |
| Session lifecycle admission, `sessions/session-lifecycle-admission.ts`, `session-work-admission-handoff.ts`, `shared/store-writer-queue.ts` | identity locks, active mutations and work by identity, idle promises, writer queue | begin, release, hand off, interrupt; exclusive mutation with drain; store maintenance | agent turns, session store, gateway fence |
| Lane suspension, `agents/session-suspension.ts`, `gateway/server-lanes.ts` | the session's suspension record, resume timers by lane, deadlines set aside at a close | suspend, roll back, resume, close, start, reload | lanes, session store |
| Embedded runs, `agents/embedded-agent-runner/run.ts`, `agents/lanes.ts`, `tools/sessions-send-tool.ts` | nested session, global and cron lane tasks; abort and release signals, progress | run, send to another session and wait, abort, note progress | lanes |
| Gateway lock, `infra/gateway-lock.ts` | lock files by state directory and configuration, SQLite coordinator transactions | acquire, judge the owner, reclaim, release, read the port | operating system |
| Follow-up queue, `auto-reply/reply/queue/*`, `utils/queue-helpers.ts` | queued messages, dropped ones with their summary, in-flight sets, a drain coroutine | enqueue, drop, drain (single, collected, summary, retry), cancel, defer, clear | the session's reply lane |
| Run loop and restart, `cli/gateway-cli/run-loop.ts`, `infra/restart.ts` | signal and shutdown state | signals, drain with deadline, in-process restart | marks draining, resets lanes and admission |
| Cron service, session write lock, approvals, channels, agents, configuration | see `PROJECT.json` | | |

What is hard: JavaScript runs one callback at a time, so nothing is preempted,
but every `await`, timer and promise reaction is a point where any other callback
may run first. The risks are stale completions after a reset, leases used after
the fence moved on, waiters nobody wakes, timers that race the event they guard,
lists that change while a drain awaits, values of AsyncLocalStorage that outlive
what they name, a scheduler that fails to resume; and, across processes, crashes
between a platform's acceptance and the row that records it, and lock files whose
process id belongs to somebody else by now. `PROJECT.json` lists the hazards at
their source lines, with the properties that cover each.

What makes each component correct:

- lanes: no accepted command is lost or answered twice; slots are held by exactly
  the awaited tasks of the current generation; no idle backlog; dispatch order;
  no forgotten drain waiter; the task timeout neither early nor late;
- admission: reference counts match leases; no chain is parked at an open fence;
  restart beats suspension; a stale lease moves nothing; drained stays drained;
- suspension: never orphaned, fail closed, quiet while held, always ends;
- lanes and admission together: a drained gateway takes no lane work;
- delivery: an intent is sent, given up openly or retried; no payload is accepted
  twice, whatever crashes and replays come between; replays are bounded;
- heartbeats: every wake is served, none loses its priority, batches do not pile up;
- sessions: a lease stays valid while held, a mutation is alone, nobody waits for ever;
- lane suspension: a lane at zero always comes back, in a closed gateway too;
- nested lanes: no circular wait but through a bounded one;
- gateway lock: one owner, and no dead owner for ever;
- follow-up queue: each message in one place, at most one turn, always settled.

## 2. Modules

| Module | Models | Notes |
|---|---|---|
| `CommandQueue` | `command-queue.ts` | one action per public call or task continuation |
| `LaneTaskTimeout` | `runQueueEntryTask` in `command-queue.ts` | one entry, explicit clock |
| `WorkAdmission` | `gateway-work-admission.ts` | chains are the environment |
| `SuspendCoordinator` | `gateway-suspend-coordinator.ts` | extends `WorkAdmission` |
| `GatewayWork` | lanes and admission together | instantiates `CommandQueue` and `WorkAdmission` over shared state |
| `DeliveryIntent` | the promise of the outbound queue for one intent | abstract; `DeliveryQueue` implements it |
| `DeliveryQueue` | `outbound/deliver.ts`, its storage and its recovery | one intent, crash at any point |
| `HeartbeatWake` | `heartbeat-wake.ts` | ticking timer, overlapping batches |
| `SessionLifecycle` | session lifecycle admission, hand-off, writer queue | one store |
| `LaneSuspension` | `session-suspension.ts`, `server-lanes.ts` | one session |
| `NestedLanes` | lane names and nesting of agent runs | the lane itself is `CommandQueue`'s |
| `GatewayLock` | `gateway-lock.ts` | processes, files, process ids |
| `FollowupQueue` | `auto-reply/reply/queue/*` | one session key |
| `CommandQueueProofs`, `AdmissionProofs`, `AgentLaneProofs`, `DeliveryQueueProofs`, `HeartbeatWakeProofs`, `GatewayProofs`, `SessionLifecycleProofs`, `FollowupQueueProofs` | theorems | extend the component's module; `CommandQueueProofs` is about `LaneTaskTimeout` too, `AdmissionProofs` about `WorkAdmission` and `SuspendCoordinator`, `AgentLaneProofs` about `LaneSuspension` and `NestedLanes`, `GatewayProofs` about `GatewayLock` and `GatewayWork` |
| `MC*` | instances for TLC | constants in the `.cfg` files |

An action is one synchronous stretch of code: a public function up to its first
`await`, or the continuation that runs when a promise settles or a timer fires,
with every state change that stretch makes. Names follow the source. A name that
says what a plausible slip would do (`PumpCountOnce`, `RearmNothing`, ...) is a
mutant of the definition that follows it and is used by no action.

**CommandQueue.** An entry is its sequence number; task ids are compared only for
equality and an entry starts once, so the same number stands for both. `body` is
the caller's task function (`unwinding`: still running after its timeout freed the
slot), `promise` what the caller of `enqueueCommandInLane` was told. `DrainLanes`
is `drainLane` with its pump loop in closed form: as many queue heads move to the
active set as there are free slots. The `draining` flag is FALSE whenever the
event loop gets control and is not part of the state. `waiter` is a call of
`waitForActiveTasks`.

**LaneTaskTimeout.** `CommandQueue` lets a timed task time out at any moment; this
module says when. `timer` is `timeoutHandle` with its callback, `onAbort` and
`onRelease` the registered listeners. A due timer is served before the clock moves
on (`Tick`), which is what an idle event loop does; a busy loop only delays it.

**WorkAdmission.** `currentRootWork[c]` is what `getStore()` returns in chain `c`.
`lease[i]` is one release closure; leases and suspension leases may be used at any
later time, also after a reset. `AdmissionRound` is one turn of the loops in
`beginGatewayRootWorkAdmissionWhenOpen` and
`runWithGatewayIndependentRootWorkAdmission`; a waiting chain goes round again in a
later step (`AdmissionRetries`), when the fence may have closed again.
`suspendInvalidated` is the generation whose callback is registered.

**SuspendCoordinator.** The code is synchronous, so `prepareGatewaySuspend` is one
action with four outcomes: refused (active work or an error, rolled back), stuck
(refused, and the scheduler failed to resume), stuckCommitted (the same after an
error past the commit) and ready. `current.reopen` is the lease operation bound to
`reopenAdmission`. Time is abstract: a lease may be expired in any call and an
armed timer may fire at any moment. The scheduler is external.

**GatewayWork.** A lane task is a chain. `pumpRoot[e]` is the AsyncLocalStorage store
of the pump that started `e`: the enqueuer's if a slot was free, otherwise that of
the task whose completion pumped the lane.

**DeliveryQueue.** `row` is the SQLite row, `intent` what was enqueued (whether it
is exact, best effort, how many payloads), `run[o]` the progress of an owner: the
live send or a drain. A payload stands for one platform send. Every SQLite call
takes effect or throws (`faults`), the process dies between any two steps
(`Crash`: claims and runs are gone, the row stays). `accepted[p]` counts what the
platform really took, which the code cannot see. An adapter that reconciles
answers truthfully or not at all, and adapters used for exact intents report the
dispatch. `PastEnqueue` is microtask timing: the live send asks for the claim two
microtasks after its insert, so a drain can load and claim the entry in between,
but comes to its own next step only afterwards. Claims are in-process, as in the
code: two gateways on one database are excluded by the gateway lock.
`DeliveryIntent` is the promise in three variables, `fate` (open, settled, dead),
`copies` and `excused`: the platform accepts no payload twice, an intent is settled
only when every payload has a copy or was given up on purpose, after that only an
excused payload of an unrecorded send may still arrive, and nothing follows a dead
letter.

**HeartbeatWake.** `pendingWakes[t]` is the priority of the pending wake, `timer` the
armed timer with the ticks it has left, `batch[s]`/`todo[s]` a batch of the async
callback with the wakes it still has to handle. `SetHandler` resets `running` under a
batch that still awaits, so several batches can be alive. The reason text and the
time of the original request are data and left out.

**SessionLifecycle.** A lock is a queue whose head holds it, as in
`runQueuedStoreWrite`; the nested releases wait for nothing and are one step. `Work`
goes through `waiting, locking, asserting, barrier, revalidating, leased`, a
`Mutation` through `queued, activating, preparing, draining, starting, writing,
finishing`. `version[i]` is what the store says of an identity and `expected[w]` what
work was admitted for. An in-band mutation (`InBand`) is a rollover that a turn
starts itself, with its own lease. `Plan`/`CommitMaintenance` is store maintenance
in the writer queue.

**LaneSuspension.** `chain` is `suspensionWriteChain`, `step[r]` how far request `r`
is between its awaits, `timers` and `cleared` the armed and the set-aside deadlines
by lane, `record` the session entry's `quotaSuspension`.

**NestedLanes.** `Path(r)` is the sequence of lanes that a run enters, from the names
that `resolveGlobalLane`, `resolveCronAgentLane` and
`resolveNestedAgentLaneForSession` give; `held[r]` how many of them it is in. Lanes
start the oldest waiter when a slot is free, which is what `CommandQueue` shows of
them. Circular waits through slots of the main lane exist: a turn can send to a
session whose turn waits for the sender's slot. They are harmless only because the
wait for an answer is bounded, which is what `CirclesNeedASend` and `EveryRunEnds`
say.

**GatewayLock.** A process has a path of locks (its state directory, then its
configuration), `held[p]` of which it has. `coordinator[l]` is the
`BEGIN EXCLUSIVE` transaction beside a lock file; the operating system ends it when
the process dies. `JudgesFile` reads the file and the process table in one step, and
each reading may fail. So may every removal of a file (`Removed`), in a release and
where a failed start is unwound; the coordinator is given back all the same. `left` in a
file's content is a history variable: a process that still runs tried in vain to
remove this file. No action reads it. Process ids are reused, and may belong to
programs that are not gateways (`foreign`). A gateway of an older version, which has a file but no
coordinator and no start time, is external and only there from the beginning.

**FollowupQueue.** `queue[i]` is a `FollowupQueueState` object (items, summary
sources, elided sources, `droppedCount`, `inFlight`), `drain[i]` the coroutine that
`scheduleFollowupDrain` started on it, `live` the object registered for the key. A
cleared queue may still be drained by its coroutine while a new one is
registered. `lane` is the session's reply run. Queue objects are numbers and used
again when nothing refers to them. `Withdraw` also covers an admission that its
session's lifecycle invalidated ("replaced").

## 3. Runs

Each component has one passing run, with its safety and liveness properties
together. The larger invariants are conjunctions of named parts, each with its own
comment in the module.

| Run | Instance | Shows |
|---|---|---|
| `lanes` | an ordinary and a probe lane, two entries, all priorities, limits 0..2, one reset, a waiter | `LaneInv` (`NoLostEntry`, `SlotsMatchTasks`, `QueueInOrder`), `NoIdleBacklog`, `WaitersInformed`, `StartsAsAllowed`, `EveryCallReturns` |
| `task_timeout` | 12 ticks, timeout 3, grace 2 | `HeldWithinDeadline`, `NothingLeftArmed`, `TimeoutHasReason` |
| `suspend` | two chains, two roots, a retained continuation, a drain call, one prepare at a time, restart or reset | the admission invariants (`RootsAreCounted`, `FenceInv`, `NoLostDrainCall`, `DrainedStaysDrained`) and the coordinator's (`NoOrphanFence`, `SchedulerInv`, `QuietWhileHeld`), `GatewayComesBack` |
| `gateway_work` | one lane, two entries, one caller, two roots | `DrainedTakesNoLaneWork` |
| `delivery` | two payloads, live send and two drains, one crash, one failing SQLite call, two retries | `ClaimInv`, `AcceptanceLeavesTrace`, refinement of `DeliveryIntent` (`KeepsPromise`), `ReplaysEnd` |
| `delivery_identity` | the same, with sends accepted without a message id | violation of `AtMostOnce`, see below |
| `heartbeat` | two targets, two requests each, two priorities, two handlers, one throwing batch | `WakeInv`, `RunsAreBounded`, `WakesAreKept` |
| `sessions` | an abortable turn and a reset over a key and an id, a rollover inside the turn, a turn begun in the writer, one maintenance; deadlock is checked | `LeaseInv`, `MutationInv`, `ClosedAdmitsNothing`, `EverybodySettles` |
| `suspension` | main, nested and unmanaged lane, four suspensions, one close and start, one reload | `SuspensionInv`, `NestedStaysSuspended`, `LaneResumes` |
| `nested` | two turns, three cron runs and two sent turns in two sessions, lanes of one slot | `NestingInv`, `EveryRunEnds` |
| `gateway_lock` | a gateway and a maintenance command, three starts on two process ids, one other program at a time, an older gateway, failing inspection, files that cannot be removed | `SingleOwner`, `FilesMatchOwners`, `OrphanIsReclaimed` |
| `followup` | two messages (one cancelable) and a retry in a queue of one, each message collected with summaries or single with a dropping policy, another turn, one failure, one stop | `QueueInv` (`NothingLost`, `CountsAgree`), `NoIdleBacklog`, `PresentsRightly`, `EverythingSettles` |

**Bounds.** Two lanes and two entries are the least that show a reset or a waiter
across lanes and an order among queued entries (limit 0 holds both); limits 0..2
cover paused, serial and parallel. One reset per lane makes a completion stale. Two
chains are a parent and its detached work, or a request and a waiting one; two
roots let one be retired while another lives; two generations let a stale lease meet
a newer fence. Clock, timeout and grace (12, 3, 2) leave room for three renewals
followed by a whole grace period. Two payloads are the least of which one can be
accepted and the other fail; two drains with the live send the least that compete
for a claim while a third is stale; the crash and the fault may fall anywhere.
Two handlers make a batch of a replaced one, one throwing batch a batch that is
queued again under another. A work and a mutation that share two identities are
the least for a lock order; the third process blocks the writer. Four suspensions
give every kind of lane one and the main lane two that overlap. Seven runs in
two sessions are the least that fill the main and the cron lane with runs of both
sessions and leave a sent turn each. The third start of the lock run reuses a
process id. A queue of one with three messages overflows while a turn runs; two settings switch
both the mode and the drop policy of a queue with work in it. Runs
do not check deadlock where, with finite bounds, the system stops.

**Fairness.** Assumed is only that what the runtime schedules happens:

- `CommandQueue!FairSpec`: armed timers fire; nothing is assumed of task functions.
- `SuspendFairSpec`: a resolved promise is followed by its microtask; expiry and
  retry timers fire; the scheduler does not fail to resume for ever. A host that
  renews its lease for ever keeps the gateway suspended by design and is excluded.
- `DeliveryQueue!LiveSpec`: calls run to their end; drains keep coming (channels that
  reconnect, the periodic drain at `extensions/whatsapp/src/auto-reply/monitor.ts:567`,
  startup recovery); an entry claimed again and again is past its backoff some time
  (strong fairness of `AdmitEntry`).
- `HeartbeatWake!LiveSpec`: time passes, the timer fires, batches end, and a target is
  not busy at every single attempt (strong fairness of `WakeRuns`).
- `SessionLifecycle!FairSpec`: whoever heads a queue goes on, and maintenance ends.
  Nothing is assumed of running work: mutations must end although it never releases.
- `LaneSuspension!FairSpec`: time passes, timers fire, a closed gateway starts again.
- `NestedLanes!NestedFairSpec`: lanes serve their queues, turns end, bounded waits end.
- `GatewayLock!FairSpec`: processes go on, sleeps end, files age; the disk and the
  process inspection do not fail a gateway at every attempt, and it gets its turn
  among the coordinator's clients; maintenance commands wait for bounded time. A
  gateway whose start fails is started again by its supervisor or by the retry at
  `cli/gateway-cli/run.ts:536`.
- `FollowupQueue!FairSpec`: debounce timers fire, drains go on, turns end, a free reply
  lane goes to who waits for it.

**Disagreements with a comment, a document or a test.** `delivery_identity` is a
listed run: a payload the adapter sent without a message id leaves no result, so when
a later payload fails before the platform the catch at
`infra/outbound/deliver.ts:1753` looks only at the error that was thrown, and the
intent is recorded as never sent and replayed whole. The trace has a required
intent; with best effort `partialFailuresAreProvenNotSent` (`deliver.ts:1610`) comes to
the same, although
`infra/outbound/delivery-queue-storage.ts:157` says that such a retry "provably
cannot duplicate a recipient-visible send". Ten more are kept as configurations
that TLC refutes; `tlc -config <file> <module>` shows each:

| Configuration, formula | What the code does |
|---|---|
| `MCLaneTaskRelease`, `ReleaseEndsTask` | When the abort signal fired before the lane started the entry, `runQueueEntryTask` arms the grace period and returns before it registers the release listener (`command-queue.ts:346`); `command-queue.types.ts:12` says the signal ends the task. The embedded runner, the only user, aborts from inside the task and does not meet it. |
| `MCGatewayWorkSpawn`, `AdmittedTaskMaySpawn` | A queued task runs in the root of the task that freed its slot (`command-queue.ts:284`); when that root is released its own enqueues are refused, although its enqueuer is an admitted root and every fence is open ("Existing admitted roots may finish spawning", `gateway-work-admission.ts:132`). |
| `MCDeliveryEvidence`, `EvidenceSurvives` | The dispatch mark of a later payload sets `unknown_after_send` back to `send_attempt_started` (`deliver.ts:1531`), which recovery may replay; `delivery-queue-recovery.ts:702` says "Never overwrite concrete send evidence with a generic retry state." |
| `MCDeliveryAbort`, `AbortAcks` | With best effort an abort is a partial failure like any other and the entry stays pending (`deliver.ts:2520`); `deliver.test.ts:4495`: "acks the queue entry when delivery is aborted". |
| `MCHeartbeatCooldown`, `CooldownKept` | A request made while the handler runs arms a normal timer, which the busy skip that follows keeps (`heartbeat-wake.ts:200`); `:194` says "Keep retry cooldown as a hard minimum delay". |
| `MCSessionWriterBehind`, `WriterNotBehindItself` | Work that a writer callback begins may find its identity lock held by an admission queued at the same writer (`session-lifecycle-admission.ts:462`); `:470` says re-entering the lane keeps the writer from waiting "on work queued behind itself". |
| `MCLaneSuspensionLimit`, `ResumesToConfigured` | The resume timer carries the limit of the time of suspension (`session-suspension.ts:195`) and sets the lane back to it after a reload; `session-suspension.test.ts:54`: "auto-resumes main lane to configured agent concurrency". |
| `MCFollowupCap`, `CapKept` | Messages of a collected turn that waits for the lane do not count against the cap; when the turn is deferred they count again, beside those that came meanwhile (`drain.ts:1295`); `docs/concepts/queue.md:67`: "max queued messages per session". |
| `MCFollowupSummary`, `SummaryCountsAll` | Sources elided while a summary waited for the lane are completed with it although it did not count them (`drain.ts:1046`); `docs/concepts/queue.md:68` promises a summary. |
| `MCFollowupPolicy`, `SummaryIsSent` | When a later message switches the policy while a summary is due, the drain reschedules itself without end (`drain.ts:1361`). `EverythingSettles` excludes this state by name (`SummaryStranded`). |

## 4. Theorems

The theorems hold for every value of the constants that the named assumptions of
the modules allow; the bounds on counters (`MaxRoots`, `MaxGeneration`, `MaxEntries`,
`MaxTime` and so on) are arbitrary naturals and the sets of lanes, chains, drains,
targets, requests or processes arbitrary. Two theorems have a hypothesis of their
own, marked below. Each proof module starts from an inductive invariant that TLC
checked first, has a lemma per operation, and ends in the temporal theorems.

- `CommandQueueProofs`, the timeout race: `LaneTaskInv` (types, which timer and listeners are armed
  while the lane awaits the task, nothing armed otherwise), hence
  `HeldWithinDeadline`, `NothingLeftArmed` and the action property
  `TimeoutHasReason`. The deadline alone is not inductive: it needs that an awaited
  task always has a timer ahead, and that this timer is never later than the
  deadline.
- `CommandQueueProofs`, the lanes: `QueueInv`, hence `LaneInv`, `NoIdleBacklog`, `WaitersInformed`
  and the action property `StartsAsAllowed`. An action of `CommandQueue` changes some
  lanes and then drains them, and `NoIdleBacklog` is false in between. `Mid` is
  what holds there: each entry's promise, body and place in a queue fit, queues are
  in order, slots are those of running tasks. `DrainKeeps` shows that a drain keeps
  it and `DrainRestores` that it brings `NoIdleBacklog` back. What makes
  `SlotsMatchTasks` inductive is `PastFit`: a task was started in its lane's current
  generation or an earlier one, so a reset makes every completion before it stale.
  The pump in closed form needs the cardinality of what it starts (`PumpFacts`),
  the insertion by priority that a least index exists (`LeastIndex`). Waiters need
  that a captured task was started (`CapturedWereStarted`).
- `AdmissionProofs`, admission: `AdmissionInv`, which joins the fence invariants, the parked
  waiters and the drain calls with `RootsLive` and `ChainsLive` (the active set is the
  created, unreleased roots; leases and chains name created roots). Hence
  `TypeOK`, `FenceInv` with its parts `NoLostOpenWaiter`,
  `RestartSupersedesSuspension` and `FenceHasItsCallback`, `NoLostDrainCall` and
  `DrainedStaysDrained`. On top of it `CountInv` gives `RootsAreCounted` and
  `RootsEndWithTheirLeases`, with the finite-set theorems for the cardinality of the
  open leases.
- `AdmissionProofs`, coordinator: `CoordinatorInv`, hence `NoOrphanFence` and
  `SchedulerInv` with its parts `SuspendTypeOK`, `FailClosed` and
  `NoResumeUnderLease`, of `SuspendSpec`. `FailClosed` is not inductive: it needs
  `PausedHasOwner` (a paused scheduler belongs to an entry or to a draining
  restart), `NoOrphanFence` (an entry has a closed fence), and `FenceHasItsCallback` (a
  restart drops the entry of the fence it opens). Every step of the composed system
  is one of admission or one of a prepare request (`StepIsAdmissionsOrRequests`), so
  the admission invariants carry over (`AdmissionHoldsUnderCoordinator`,
  `DrainedUnderCoordinator`). With them `QuietWhileHeld`: a live root behind the fence
  could reserve another one, but the only live root is the prepare request's, it is
  private to that request's chain (`PrepareRootIsPrivate`) and stays so
  (`HeldRootIsInert`).
- `AgentLaneProofs`, nested lanes: `NestInv`, hence `NestingInv`, for any runs, sessions and numbers
  of slots. `NestInv` says that a run queues for the next lane of its path, once, and
  has slots in lanes it has entered only. That no circle of runs waits for slots alone
  follows from ranks: each path goes from the cron lane to the session's and then to
  an inner one (`PathFacts`), so a waiting run is blocked by one that waits for a lane
  of higher rank (`WaitsClimb`), and there are three ranks.
- `SessionLifecycleProofs`: `SessionInv`, hence `LeaseInv`, `MutationInv` and the action
  property `ClosedAdmitsNothing`, for any work, mutations and identities. The three
  kinds of queue are tied to the phases of the processes (`QueuesFit`). The mutation
  locks make active mutations of an identity one at most (`CountsFit`). The identity
  locks, held from the second check to the lease and around the activation, keep work
  under admission and active mutations apart (`Apart`); so nothing registers behind a
  drain, and what a mutation waits for is all there is (`DrainFits`). The writer's
  queue keeps the last check before a lease out of a sweep between its plan and its
  commit (`PlanFits`). Lemmas on a lock's queue (`LockSame`, `LockJoin`, `LockLeave`,
  `LockAgain`) and on the writer's serve all actions; `WorkKeeps` and `MutationKeeps` say
  what is left to show for a step of one process.
- `DeliveryQueueProofs`: `ClaimParts`, hence `ClaimInv`: at most one owner, and a drain
  decides on the row as it is. Needed besides are `RowIsFresh` and `RunsMatchRow`
  (each stage of a run has read or written what it believes of the row). On top
  of it `ResultsAreReal` gives the action property `ReplayIsPaidFor`, and
  `PromiseParts` gives `AcceptanceLeavesTrace` and the refinement `KeepsPromise`: every
  step of the queue, crashes and failing database calls included, is a step of
  `DeliveryIntent` or a stutter. The core is that an attempt is marked in the row
  before the platform can accept (`AttemptIsMarked`), payloads are accepted in order
  (`AcceptedInOrder`), and a run that counts no failure has everything accepted
  (`FailuresAreKnown`, `CleanMeansDone`). `PromiseInvariant` and what follows from it
  assume `~IdentitylessSends`; without it the refinement is false, which is what
  the run `delivery_identity` shows.
- `HeartbeatWakeProofs`: `HeartbeatInv`, hence `WakeInv`, `RunsAreBounded` and the action
  property `PriorityKept`. The bound on runs needs that each wake in a batch was
  paid for by a request or a throw (`RunsArePaid`, `TodoWasTaken`), the bound on
  batches that a handler free to start one at once still has its licence for it
  (`BatchesAreLicensed`).
- `AgentLaneProofs`, lane suspension: `LaneInv` and `RequestInv`, hence `SuspensionInv` and the action
  property `NestedStaysSuspended`. That a record was enforced needs the order of the
  write chain: only its head is past the chain (`ChainSerializes`), and what a later
  request remembers as the previous record has been dealt with (`RecordsInOrder`).
- `GatewayProofs`, the lock: `LockInv`, hence `NobodyShares` (the first half of `SingleOwner`)
  and `FilesMatchOwners`, on every platform and with every failing inspection: the
  coordinator's transaction excludes, the files only inform. `LockInv` says of the
files that one which names a living process is of a lock it owns and has not begun to
give back, or one it tried in vain to remove (`FilesNameOwners`). `SingleOwner` as a
  whole, which has the gateway of an older version in it, is proved under
  `Inspectable` (not Linux, or command lines can be read). Otherwise it is false when a
  file is stale as well: TLC shows an older gateway robbed, the case that the
  comment at `infra/gateway-lock.ts:225` concedes.
- `GatewayProofs`, lanes and admission together: `WorkInv`, hence the action property
  `DrainedTakesNoLaneWork`. A lane task runs in the root of whoever pumped its lane, so
  the invariant covers the roots that lane continuations carry (`pumpRoot`) as well as
  those of chains: each was created before, and a created root that is not released
  is active (`RootsFit`, `ChainsFit`). Hence whoever is let through a closed fence
  proves that the gateway is not drained (`LiveIsActive`). Besides,
  `LanesAsInCommandQueue` shows that the composition does to the lanes nothing but
  what `CommandQueue` allows, for which `CommandQueueProofs` holds.
- `FollowupQueueProofs`: `FollowInv`, hence `QueueInv`; on top of it `NoIdleBacklog` and the
  action property `PresentsRightly`; for any messages, cap, settings and number of
  queue objects. `FollowInv` says of each queue object that its lists share no
  message and its counter counts them (`Listed`), and that its coroutine has a batch
  exactly while it delivers one (`DrainFits`). What a registered queue's coroutine
  delivers is still in the lists, protected from overflow, until the turn is
  admitted (`Fresh`, `BatchStays`); a cleared queue is empty and left to its
  aborted coroutine (`Stale`), which has no message that is still queued
  (`BatchesKnown`). So each action need only be shown to be one of two kinds of
  step: something arrives, evicting what is not protected (`Arrives`), or one
  coroutine moves, settling some of its messages and handing others to a turn
  (`DrainMoves`); each kind preserves the invariant. For `NoIdleBacklog`, a step leaves
  a backlog alone (`Forgotten`) only if it ends a drain or the turn that holds the
  lane, and each of these looks for work again. For `PresentsRightly`, who is listed
  or in a batch not yet admitted has had no turn, and nobody is in two batches
  (`TurnsFit`). `removeQueuedItemsByRef` is a recursive function (`Without`), whose
  properties are shown by taking a least counterexample (`LeastNumber`).

Only model-checked: everything under fairness (`EveryCallReturns`, `GatewayComesBack`,
`Settles` in `ReplaysEnd`, `EveryWakeIsServed` in `WakesAreKept`, `EverybodySettles`,
`LaneResumes`, `EveryRunEnds`, `OrphanIsReclaimed`, `EverythingSettles`), because the
prover has no rules for fairness and ENABLED. No safety property of a passing run is left
to TLC alone.

## 5. Not modelled

- Lanes: `onWait` callbacks, snapshots, diagnostics, the repair of queue state left
  by an older bundle. Active work: the counts and descriptions (one Boolean here).
- Delivery: formatting, chunking, hooks and mirrors; several intents (they share
  nothing but the drain's order); the backoff's arithmetic (an entry may be due or
  not); an `AbortError` that the adapter itself raises (`deliver.ts:664`, acknowledged
  at `:1696`).
- Sessions: reentrant mutations nested in their own context, mutation kinds, the
  revalidating read of a rollover under the writer
  (`auto-reply/reply/session.ts:378`), stores
  other than file-backed ones, several stores.
- Lane suspension: the deferred choice of the suspended scope.
- Nested lanes: timeouts and resets inside the lanes (`CommandQueue` has them).
- Gateway lock: the second read of a file between judging and removing it is part of
  `JudgesFile`. A file without a start time whose process id was given to a gateway
  is waited for, as the code intends, and is outside `OrphanIsReclaimed`. So is the file
  that a living process could not remove: its own retry judges it alive and waits
  until the retry's time limit (`cli/gateway-cli/run.ts:536`) ends the process, and then
  the file is an orphan. A release of the coordinator always ends the transaction. After
  a release that throws (`run-loop.ts:180`) the gateway ends; the model lets it also
  start again. The second release in the `finally` (`run-loop.ts:991`) is left out. Whether
  a process id is alive is exact here, while `shared/pid-alive.ts:31` takes `EPERM` for dead.
- Follow-up queue: `dropAbortedFollowups` (`drain.ts:777`) is one step. It awaits the turn of
  an aborted message and then removes by index, but that turn returns before any
  await (`followup-runner.ts:596`), so no enqueue comes between. Several delivery contexts (cross-channel and individual collect
  drains), durable admission lifecycles, `refreshQueuedFollowupSession`, the expiry of
  the deduplication cache, drop policy "new" in the run's instance; a queue's cap
  is constant.
- The cron scheduler itself, approvals, the session write lock, the run loop's
  signals, and the components marked so in `PROJECT.json`. Channels, models, memory,
  media, configuration, UI and native apps, by far the most of the repository, are
  adapters or data transformation without coordination of their own.

## 6. Plan

1. Done: lanes, task timeout, admission, suspension, their composition, outbound
   delivery with its refinement, heartbeat wakes, session lifecycle, lane suspension,
   nested lanes, gateway lock, follow-up queue; proofs of the safety properties of
   all of them.
2. `CronService`: timer arithmetic, catch-up after a restart, manual runs.
3. `RunLoop`: restart signals, drain deadlines, order of shutdown steps, composed with
   admission and lanes.
4. Exec approvals and the session write lock.
