# QEAgent in TLA+

QEAgent ("agentic QE") is a TypeScript program that runs fleets of
quality-engineering agents.  A *queen* coordinator takes tasks, queues them by
priority, chooses a domain for each, watches the result and
retries; around it stand circuit breakers, a claim service, CRDT replicas, an
event bus, schedulers and adapters.  This directory holds TLA+ models of the
coordination core, the TLC configurations that check them on small instances
and proofs, checked by TLAPS, of what matters most.  Sources are named from
the repository's root: `src/coordination/...`, `tests/...`.

## 1. Inventory

### 1.1 Concurrency in this program

Everything runs in one Node process.  A piece of JavaScript is never
interrupted, but nearly every operation is `async` and awaits something
(storage, the event bus, the agent coordinator, a plugin), and at each `await`
any other handler may run.  The hazards are therefore those of cooperative
threads: state that is read before an await and used after it, counters that
are raised here and lowered there, callbacks that arrive after somebody changed
his mind, timers that overlap.  Crashes matter where something is persisted
(`.agentic-qe/memory.db`); messages between machines only exist in the CRDT and
federation parts.

### 1.2 The components

| Component | State | Operations | Interacts with | What is hard, and what makes it correct |
|---|---|---|---|---|
| **Queen: task life cycle** `coordination/queen-task-management.ts`, `queen-coordinator.ts`, `queen-event-handlers.ts`, `queen-work-stealing.ts` | `tasks` (execution records), `taskQueue` (a list per priority), `domainQueues` (a list per domain), `runningTaskCounter` | submitTask, cancelTask, processQueue, assignTask(ToDomain), handleTaskCompletionCallback, handleTaskCompleted/Failed, handleDomainEvent, triggerWorkStealing, clean-up | plugins (`executeTask`, completion callback), `DomainTaskExecutor` (events), breakers, agent coordinator, event bus | several assignments suspended at once, late reports, retries, stealing. The counter covers what runs, the limit is kept, no task is lost or doubled, each one settles |
| **Domain breakers** `coordination/circuit-breaker/` | per breaker: state, failure times, openedAt, half-open successes; the registry's map and cascade links | canExecute, execute, recordSuccess, recordFailure, getState, forceOpen, reset, configureBreaker, cascade | queen (canExecuteInDomain, record*) | no timer, late results, re-entrant cascades, replaced breakers. Open for the timeout, closes after a streak, a bounded blast radius, recovery |
| **Queen: start, save, shutdown** `queen-lifecycle.ts` | the `queen:state` key | loadState, saveState, dispose | memory backend | restart: what was queued is queued again, a running task is not lost |
| **Claims** `coordination/claims/claim-service.ts`, `claim-repository.ts` | claim rows by id, indexes by claimant, status, domain | createClaim, claim, release, steal, handoff, updateStatus, escalatePriority, expireStale | repository (all async), event bus | every operation is read, check, await, overwrite, without a version. One claimant at a time; a finished claim stays finished; no theft or holder is forgotten |
| **Handoffs, work stealing** `claims/handoff-manager.ts`, `work-stealing.ts` | pending handoffs; agent activity | requestHumanReview, requestAgentAssist, completeHandoff, cancelHandoff, clean-up; checkAndSteal | claim service | a limit checked after an await, a handoff answered late; idle agents computed before awaits |
| **CRDT memory** `memory/crdt/`, persisted by `kernel/unified-memory.ts` | G-/PN-counters, LWW registers, OR-sets; version, pending changes, delta history | increment, set, add, remove, merge, applyState, getDelta, applyDelta, persist, restore | other replicas | lost, repeated, reordered states, clocks that disagree, crashes. Replicas that saw the same updates agree; a remove only removes what it saw; deltas leave no gap |
| **Task DAG and scheduler** `coordination/task-dag/` | tasks, three copies of the edges, statuses | addTask, removeTask, start, complete, fail, clear, schedule; sort, cycles, critical path, schedule order | a dispatcher | cycles and unknown ids are allowed in; removal and re-addition; the dispatcher starts its batch late. Nothing starts early, no wake-up or cascade is lost |
| **Event bus, cross-domain router** `kernel/event-bus.ts`, `coordination/cross-domain-router.ts` | subscriptions, history, correlations with timers | publish, subscribe, correlate | every component | handlers run in parallel and are awaited; a correlation times out while an event is handled |
| **Task executor** `coordination/task-executor.ts` | handlers per task type | execute, publish result | queen (events) | a result reported twice or after a cancellation (part of the queen's environment) |
| **A2A tasks** `adapters/a2a/tasks/` | tasks with a status, indexes, artifacts | create, transition, cancel, evict | transports | the transition table; indexes agree with the tasks; no eviction of live tasks |
| **Mailboxes** `agent-teams/mailbox.ts`, `federation/federation-mailbox.ts` | queues with limits, retries, services' health | send, broadcast, receive, expire, flush | agents, remote services | full boxes, redelivery, a service that is down when the retry comes |
| **Dynamic scaling** `dynamic-scaling/dynamic-scaler.ts` | agent count, last scaling time | evaluate, execute | agent coordinator | cooldown and bounds, decision and execution apart |
| **Workflow orchestrator**, **protocol executor** | executions, step results, approvals | start, run steps, approve, pause, cancel | event bus, domains | cancellation between two awaits, parallel steps |
| **LLM breakers** `shared/llm/circuit-breaker.ts` | as the domain breakers | as above, forceHalfOpen | providers | as above, without cascades |
| **Quality daemon** `workers/quality-daemon/` | a priority queue with persistence | enqueue, dequeue, tick | workers | priorities and debouncing |
| **Agent coordinator** `kernel/agent-coordinator.ts` | agents with a status, a limit | spawn, stop, canSpawn | queen | agents outlive the records that name them; the limit counts all of them (in `QueenTasks`) |
| Consensus engine, competing hypotheses, fleet tiers, min-cut, memory branches, unified memory, HNSW, MCP transport, learning, routing, governance, the domains, CLI, init, integrations | — | — | — | numerical, I/O or rule tables; the reason of each is in `PROJECT.json` |

`PROJECT.json` lists the same parts with their files and, under `hazards`, each
hazard at its line with the properties that cover it or the reason why none does.

## 2. The plan

Order: the parts whose state is shared by most actors come first.

1. **`QueenTasks`** — done; proofs in `QueenTasksProofs`, `QueenQueuesProofs` and
   `QueenOneCopyProofs`.
2. **`DomainBreaker`**, with the abstract **`TimedBreaker`** — done, the
   refinement included; proofs in `DomainBreakerProofs`.
3. **`TaskDag`** with **`DagSort`**, **`DagOrders`** and **`DagCycles`** — done;
   proofs in `TaskDagProofs`.
4. **`CrdtReplicas`** and **`CrdtDeltas`** — done; proofs in `CrdtReplicasProofs`
   and `CrdtDeltasProofs`.
5. **`Claims`** with the abstract **`ClaimLock`** — done, the refinement
   included; proofs in `ClaimsProofs`.
6. **`QueenPersistence`** — saveState, loadState, dispose and a restart on top
   of the queen's queue; the two namespaces of the key-value store.
7. **`A2ATasks`**, **`EventBus`** with the router, **`Mailboxes`**,
   **`DynamicScaler`**, **`Workflows`**, **`PriorityQueue`** and the LLM
   breaker, in this order, as small modules.
8. Proofs: every safety property of a passing run is a theorem; what is only
   model-checked is the liveness.  New modules get theirs as they are written.

Runs are kept few: one per question, several properties to a run where their
hazards share an instance.  Type invariants, which are proved for every instance,
are not repeated in every run, and of the
disagreements with the repository's own words only two keep a run; the others
are described beside the module that shows them.

## 3. `QueenTasks`

### 3.1 How it corresponds to the code

An `async` function that is suspended at an `await` is a **frame**: a record
with a program counter (`pc`), who waits for it (`by`) and its local variables.
An action runs one frame, or one handler that starts, from an await to the next.

| Model | Code |
|---|---|
| `status`, `domain`, `retries`, `agent` | `tasks.get(id)`: status, assignedDomain, retryCount, assignedAgents |
| `orphans` | agents still running that no record names (the records are overwritten by a retry) |
| `counter` | `runningTaskCounter` |
| `queue`, `domainQueue` | `taskQueue` (by priority), `domainQueues` |
| `frames` | suspended calls of submitTask, processQueue, assignTaskToDomain, triggerWorkStealing |
| `callbacks`, `events` | completion callbacks the plugins owe, TaskCompleted/TaskFailed events not yet published |
| `SubmitDirect`, `SubmitQueued` | submitTask: with a slot free (the slot is taken before the first await), or into the queues |
| `RouteAccepted`, `RouteBreakerOpen`, `Assign`, `Deliver`, `PluginRefuses`, `Refused` | assignTask and assignTaskToDomain: the choice of the domain, the breaker, the agent, the record, the plugin, and the error paths back to the caller |
| `Dequeue`, `DrainStops` | one round of processQueue's loop, its end |
| `CallbackReport`, `CallbackUnknown` | handleTaskCompletionCallback |
| `TaskCompleted`, `TaskFailedRetry`, `TaskFailedForGood`, `EventUnknown` | handleTaskCompleted, handleTaskFailed |
| `DomainEvent` | handleDomainEvent: a queue pass that nobody's report started |
| `CancelTask`, `CleanUp` | cancelTask; the removal of old finished records |
| `StartStealing`, `StealTask`, `StealMovesOn` | triggerWorkStealing, its two nested loops as `thieves`, `victims`, `left` |

Abstractions.  A task is a number in the order of `createdAt` (what
taskComparator sorts by), with a constant priority and domain lists; payloads,
metrics, traces, audit entries, teams, hooks and the agent tier are left out.
The breaker's verdict and the domains' health are nondeterministic when
`Faults`, and always favourable when not: `DomainBreaker` is not composed with
this module.  The microtask hop after a resolved await is sometimes merged with
the action before it and sometimes an action of its own; where it is split the
model has more interleavings than the program.  A task number may be submitted
again after its submission was refused, as the caller may.  No task names one
domain twice among its targets (`QueenAssumption`): the code would enter it in
that domain's list twice, and no caller in `src/` does so.  A second
submission of a known task, and exceptions thrown by the event bus or the
memory, are not modelled.

### 3.2 Properties

- Proved only: `TypeOK`, and `AgentLimit` (the agent pool's bound, over the agents of
  records, of suspended assignments and of records overwritten since).
- `CounterCovers`: the counter is never below the running tasks plus the
  assignments that took a slot.  `CapacityRespected` follows: at most
  `MaxConcurrent` tasks run.  `CounterExact`: no slot leaks either.
- `QueuedIsHeld`: a task recorded as queued is in its list or being assigned.
- `OneCopy`: it is in at most one place: list, frame, callback or event.
- `DomainQueuesMirror`: the per-domain lists, which stealing and load balancing
  read, agree with the priority lists after every path that adds or removes.
- `OldestFirst`: lists stay ordered by age, also after a retry.
- `NoStrayAgents`: no agent outlives a cancelled task or one that a plugin completed,
  as long as its record is the task's; agents of overwritten records are `orphans`.
- `FinishedStaysFinished`: late reports never bring a finished task back.
- `QueuedSettles` (liveness): what is queued is run and reported.

### 3.3 Runs

Two domains and three tasks: task 1 names both domains, task 2 none (so
its type's map is used), task 3 is the only one of priority p0.  Three tasks are the
least that let one run, one be assigned and one wait; three frames let a
submission, a queue pass and a report's pass overlap; frames are symmetric.
Where a fourth dimension is open (stealing, cancellations, agents) the frames
are two.  `AtLeastZero` models `Math.max(0, …)`.

| Run | Instance | Shows |
|---|---|---|
| `QueenEvents` | no plugins: domains report by events; cancellations, failures with one retry, unhealthy domains, open breakers; no room for agents; 2 slots, 3 frames | `CounterCovers`, `CapacityRespected` |
| `QueenPlugins` | one domain with a plugin, the other reporting by events; failures with one retry, no fault, refusal or cancellation; 2 slots, 2 agents, 3 frames | `CounterExact`, `QueuedIsHeld`, `OldestFirst`; the first two are false with faults or a second execution, see 3.5 |
| `QueenMixed` | one plugin, stealing, cancellations, failures, refusing plugins; 1 slot, 1 agent, 2 frames | `OneCopy`, `DomainQueuesMirror`, `NoStrayAgents`, `FinishedStaysFinished` |
| `QueenLiveness` | no plugins, no retries, 1 slot, 2 frames, fairness | `QueuedSettles` |

Deadlock is checked in every run.

### 3.4 Fairness

`WF(Resume(f))`: a promise that was resolved is resumed by Node's event loop.
`SF(∃ f: Report(t, f))`: the work a domain accepted ends and is reported, and
the report finds a frame to run in.  Strong fairness because the frames, a
bound of the model, may all be taken again and again; the program has no such
bound.  Submissions, cancellations, stealing and faults are not fair: no
liveness rests on them.  The code does *not* enforce that a domain's work ends:
runTaskAsync has no timeout.  It is an assumption about the domains.

### 3.5 What disagrees with the repository's own words

`QueenDroppedTask` is a run whose counterexample shows it: processQueue ignores
the error of assignTask; with an open breaker or no healthy domain the task is
gone from the queues, its record stays `queued` and its slot is never returned,
so `QueuedIsHeld` fails.  The quotation is in `PROJECT.json`.

More are the reason why the passing runs leave something out.  Setting the
constants back reproduces them:

- `Stealing = TRUE` in `QueenEvents`: triggerWorkStealing assigns without taking a
  slot (queen-work-stealing.ts:70), so `CounterCovers` and `CapacityRespected` fail with
  stealing enabled, the default.
- `PluginDomains <- OnePlugin` in `QueenEvents`: cancelTask gives the slot back
  and does not stop the plugin; its late callback gives the slot back once more
  (queen-task-management.ts:473) while the next task runs: `CounterCovers` fails, and
  with `MaxConcurrent = 1` also `CapacityRespected`.
- `ExecutorRuns = TRUE` in `QueenPlugins`: an MCP handler submits a task, which a
  plugin runs, and runs it a second time with the executor; both reports lower
  the counter, and `CounterExact` fails.
- `RetryLimit = 1` in `QueenLiveness`: assignTaskToDomain resets `retryCount`
  (queen-task-management.ts:361), so a task that always fails is retried for
  ever and `QueuedSettles` fails.

A cancellation is not always final: a task that is cancelled after processQueue
took it out of the queue and before assignTaskToDomain writes its record
(queen-task-management.ts:364) is `running` afterwards, although cancelTask said ok,
and a late TaskFailed event queues a cancelled task again
(queen-event-handlers.ts:285).  `FinishedStaysFinished` is therefore about completed and
failed tasks only.

Met as well: one pass of processQueue takes one task per priority in
turn, although its comment says highest priority first; handlers of
TaskCompleted/TaskFailed do not stop the task's agent, and a retry overwrites
the record that names it (the model counts such agents in `orphans`);
`cancelTask` frees a slot and starts no queue pass, so a waiting task waits for
the next report or domain event; saveState writes `queen:state` in namespace
`queen-coordinator` (queen-lifecycle.ts:90-102) and loadState reads the default
namespace (64-85), and dispose saves before it cancels.

### 3.6 Proofs

For every number of tasks, domains, priorities, frames, slots and every setting
of the switches unless stated otherwise, from `QueenAssumption`.

`QueenTasksProofs`:

- `TypeCorrect`: `Spec => []TypeOK`.  Inductive invariant `TypeInv`: `TypeOK` and
  `FramesInRange`: a suspended assignment has a task, and only a queue pass
  between two lists may have run past the last priority.  Without it the next
  step of a frame could write to a record that does not exist.
- `CounterCoversAlways`, `CapacityAlways`: under `EventsOnly`, that is, no plugin
  and no stealing, `[]CounterCovers` and `[]CapacityRespected`, for every
  combination of cancellations, failures, retries and faults.  With plugins or
  stealing they are false (3.5).  Inductive invariant `CapacityInv`: `TypeInv`,
  `CounterCovers`, the counter is within the limit, and every frame that will
  write a record has paid.  `CounterCovers` alone is not inductive: a frame
  past `Assign` that had not paid would break it at its next step.  The steps count
  with two lemmas: `SlotTaken` (one more frame and one more in the counter) and
  `SlotGivenBack` (one task fewer and one less, with `AtLeastZero`).

`QueenQueuesProofs`:

- `OldestFirstAlways`: `[]OldestFirst`, unconditionally.  `QueueMoves` sums up what any
  step does to a list: nothing, an insertion at the place binarySearch finds, the
  removal of the head or of the first copy of a task.  Each keeps it sorted;
  repeated tasks are allowed, as a task may be enqueued twice when the executor
  runs it a second time.
- `QueuedIsHeldAlways`: under `NeverRefused`, that is, no open breaker, no unhealthy
  domain and a domain for every task, `[]QueuedIsHeld`.  When an assignment is
  refused it is false: that is the finding of 3.5.  The invariant `HeldInv` adds
  that no frame is at `"refused"`.
- `AgentLimitHolds`: `[]AgentLimit`, unconditionally.  `AgentInv` counts the agents of
  the records, those a frame has spawned for a record it has still to write, and
  `orphans`: a step moves an agent from one to another and adds one only after
  canSpawn.

`QueenOneCopyProofs`, under `SingleReport`, that is, `ExecutorRuns = FALSE` (an
execution by both a plugin and the executor is the third entry of 3.5):

- `OneCopyAlways`, `DomainQueuesMirrorAlways`, `FinishedStaysFinishedAlways`.  The
  inductive invariant `PlaceInv` says where each task is.  No list repeats a task,
  and the domains' lists hold who waits (`ListsAgree`); who waits is recorded as
  queued and owes no report, and at most one report is owed, by a running or a
  withdrawn task (`TaskFits`); the record says what the program counter of the frame
  supposes (`FrameFits`), except where a cancellation came between two awaits
  (`Withdrawn`); and a task in a frame is in no list, owes nothing and is in no other
  frame (`FrameAlone`).  `OneCopy` alone is not inductive: a report of a task that
  waits would enqueue it again.
- `NoStrayAgentsAlways`: `StrayInv` adds that no cancelled record, and no record a
  plugin completed, names a running agent.  A cancelled record that an assignment
  overwrites is a running one from then on (3.5).
- `CounterExactAlways`: under `ExactSlots` (`SingleReport`, `NeverRefused`, no stealing, no
  rejecting plugin, and no plugins where tasks are cancelled) `[]CounterExact`.
  Each of the conditions is needed, see 3.5.  `ExactInv` adds to `PlaceInv` that every
  frame that has to has paid.

`QueuedSettles` is liveness and model-checked only.

## 4. `DomainBreaker` and `TimedBreaker`

### 4.1 How they correspond to the code

| Model | Code |
|---|---|
| `breaker` | the `DomainCircuitBreaker` objects: state, failureTimestamps, openedAt, halfOpenSuccesses |
| `version` | which object the registry's map holds: configureBreaker puts a new one, calls under way keep the old one |
| `calls`, `tasks` | `execute` calls under way in one object; tasks let through by canExecuteInDomain, whose results go to whatever object is registered then |
| `Seen` | getState: an expired `open` becomes `half-open` when somebody looks |
| `Admit`, `Execute` | canExecuteInDomain, executeInDomain: both look first |
| `RecordSuccess`, `RecordFailure` in `TaskEnds`, `CallEnds` | recordSuccess, recordFailure with the sliding window |
| `Open`, `Targets`, `Reached` | transitionTo('open') and propagateCascade; the handlers run inside the transition and cascade in turn, so one opening forces open all that is reachable through domains not yet open, within one step |
| `Look`, `ForceOpen`, `Reset`, `Configure` | the statistics and health queries, forceOpen, reset, configureBreaker |
| `Tick`, `Heals` | time passes; from some moment on no work fails (history, for liveness) |

Time is kept as ages, up to the longest value that is compared with; this
makes the state space finite without a bound on time.  `forced` is a history
variable: the domains an operator forced open since the last tick.  Statistics
counters, error texts and event forwarding are left out; resetAll is a sequence
of `Reset`s.  `BreakerAssumption` asks for positive thresholds and timeouts, as
all presets have: with `resetTimeoutMs` 0 and a cycle of cascade targets the
re-entrant forceOpen would not end.

`TimedBreaker` is the promise: a domain is closed, open for its whole timeout
by a timer that fires by itself, or half-open with a streak of successes; the
domains that open together are closed under "depends on".  The mapping is
`mode` = what getState would answer, `wait` = what is left of the timeout,
`streak` = the half-open successes.  That a breaker is only moved when somebody
looks, and that late results arrive in a state they were not meant for, is what
makes the refinement worth stating.

### 4.2 Runs

Domain d1 has the tight preset (one failure opens, two successes close), the
others two failures and one success; timeouts and windows are scaled to 1 or 2.

| Run | Instance | Shows |
|---|---|---|
| `BreakerCascade` | three domains, d1 takes d2 along, d2 and d3 each other; one task a domain; fairness | `OnlyTargetsFollow` (blast radius), `KeepsPromise` (refinement), `Recovers` (liveness) |
| `BreakerOperated` | two domains, d2 takes d1 along; d2 has an operator, one replacement, two tasks and a call, d1 one task | `TypeOK` (with the bounds on streak and age), `ClosedIsQuiet`, `OpeningsHaveACause` (blast radius of replaced breakers) |

The lasso is the smallest graph with a chain and a cycle, the two shapes in
which the re-entrant cascade could run on or stop early.

In `BreakerOperated` every domain closes after one success, and failures of d1 count
for one tick, which keeps it small.  `OnlyTargetsFollow` is false in it: the late
failure of a call opens the breaker of d2 that was replaced, which takes d1 along
while d2's own is closed.

Fairness: time passes (`WF(Tick)`); work keeps being offered
(`SF(Admit(d))`: strong, as the breaker may close and open meanwhile); work ends
(`WF(TaskEnds)`, `WF(CallEnds)`).  Without the second `Recovers` is false by design:
a half-open breaker closes only on successes.

### 4.3 Met, without a run

A half-open breaker lets every request through, where the comment at
domain-circuit-breaker.ts:126 says "limited requests".
A replaced breaker stays wired to the registry: when a call it let through
fails it may open, and cascade, although its domain's breaker is closed
(breaker-registry.ts:165-174).  `OnlyTargetsFollow` is therefore checked
with no replacement, and `OpeningsHaveACause`, in `BreakerOperated`, says what holds
with one.
forceOpen on an expired `open` does nothing
(domain-circuit-breaker.ts:349): the next look makes it half-open.  Tasks that
a plugin runs record nothing with the breaker, as the completion callback does
not report to it.

### 4.4 Proofs (`DomainBreakerProofs`)

For every set of domains, configuration and cascade graph, from
`BreakerAssumption`:

- `BreakerTypeCorrect`: `Spec => []TypeOK`, with `successes < SuccessThreshold` and
  `since <= ResetTimeout` as its content.
- `ClosedIsQuietAlways`: `Spec => []ClosedIsQuiet`.
- `BreakerImplementsPromise`: `Spec => KeepsPromise`, the refinement.

Inductive invariant `Inv` = `AllGood /\ FutureIsNew /\ CountersOK`: every breaker's
record is well formed, counts successes only while half-open and, when closed,
holds fewer failures than the threshold (that is why `ClosedIsQuiet` survives
the passing of time: a window only loses failures); and breakers of versions
not yet in use are fresh (that is why configureBreaker maps to `TReset`).  The
refinement has one lemma per kind of step: `OpenTrips` (a cascade is one
`TTrip` of all the domains reached), `ClosingCloses`, `CountingProbes`, `EndsImplements`,
`TickImplements`, and `SameViewStutters` for steps that leave what getState would
answer unchanged.

- `OpeningsAlwaysHaveACause`: `Spec => OpeningsHaveACause`: a domain that opens although no
  failure of its own was recorded and nobody forced it is the target of a breaker
  of another domain that opens in the same step.  That breaker may have been
  replaced (4.3); nothing else is assumed.
- `OnlyTargetsFollowAlways`: `Spec => OnlyTargetsFollow` if `MaxVersion = 0`, that is, if
  no breaker is replaced.  Apart from tests, configureBreaker is only called by
  configureCriticality, and that by nobody.

Both rest on `Inv` and on `ReachedFrom`: a breaker that a cascade reaches is
its source or the target of another breaker that it reaches.

`Recovers` is liveness and model-checked only.

## 5. `TaskDag`, `DagSort`, `DagOrders` and `DagCycles`

### 5.1 How they correspond to the code

| Model | Code |
|---|---|
| `status` | the task records: absent, pending … cancelled |
| `forward`, `reverse`, `blocks` | forwardEdges, reverseEdges and the `blocks` arrays in the records: three copies of the edges, edited one by one |
| `offered` | what schedule() returned and the dispatcher has not started yet |
| `AddTask`, `RemoveTask`, `Clear` | addTask with any blockers, the task's own id, unknown ids and cycles included; removeTask, which unblocks dependents; clear |
| `Complete`, `Unblocked`; `Fail`, `Cascade` | complete and unblockDependents; fail and cascadeCancellation, which recurses through whatever is pending, blocked or ready |
| `Schedule`, `Dispatch` | schedule(): the best ready tasks up to what `maxConcurrent` leaves; a dispatcher that starts them one at a time, later |
| `DagSort` | topologicalSort (Kahn): `Kahn[n]` is the queue and the degrees after n turns of the loop.  The queue keeps what was shifted from it, so what is sorted is its first n tasks |
| `DagOrders` | getCriticalPath, computeTopologicalLevels and getScheduleOrder over the graph of the moment; `Relaxed`, `PathBack`, `Levelled` and `InLevels` are what their loops have after n turns |
| `DagCycles` | detectCycles (depth first with colours).  The calls of dfsCycles under way are `stack`, with detectCycles itself as its last frame; `todo` is what each has not followed yet.  A turn calls (`Enter`), reports (`Report`), passes (`Pass`) or returns (`Leave`), and `Searched[n]` is what n turns lead to |

Time stamps, events and statistics are left out.  JavaScript iterates Maps in
insertion order; the models take some fixed order instead, and no property may
depend on it.  The dispatcher is the environment, as the repository has none
that is wired to the scheduler: it asks, starts what it was given, asks again.

### 5.2 Properties

- `EdgesMirror`: the three copies of the edges agree.
- `StartsAfterBlockers`, `NoLostWakeup`: a task is ready or running only when all
  it is blocked by has completed, and blocked only while something has not; also
  when a blocker completes, is removed and is added again.
- `NobodyWaitsForTheDead`: a failure reaches everything behind it.
- `WithinLimit`: the limit holds although the batch is started later than it was
  counted.
- `EveryTaskEnds` (liveness): once nothing is added, every task ends, unless it
  waits for an unknown id or for a cycle.
- `SortIsTopological`, `CyclesAreReal`, `CriticalPathIsLongest`, `ScheduleOrderRespects`:
  the algorithms against what the graph is, in every reachable graph.
- Proved only: `TypeOK`, and `OnlyWaitingIsCancelled` (a cascade takes no work in
  progress).

### 5.3 Run, bounds and fairness

`DagGraph`: three tasks, one more urgent, two at a time.  Three ids give
chains, forks and joins, cycles of one, two and three tasks, blockers nobody has added,
and the removal of a task in the middle.  Deadlock is checked.  Fairness: the dispatcher
keeps asking, starts what it was given, and started work ends.  Additions,
removals and failures are not fair.

`LateAdds = FALSE` keeps callers from naming a blocker that has already failed.
With `LateAdds = TRUE` `NobodyWaitsForTheDead` fails: addTask computes `blocked`
for such a task (dag.ts:64) and only fail() cascades, so it waits for ever and
isComplete never becomes true, although types.ts:21 describes 'cancelled' as
"Cancelled due to upstream failure".  The other safety properties are proved for both values.
A second dispatcher that asks before the first has started its batch would be
given the same tasks (scheduler.ts:110); the limit is stated for one.

### 5.4 Proofs (`TaskDagProofs`)

For every finite set of tasks, priority and limit: `DagTypeCorrect`,
`EdgesAlwaysMirror`, `NothingStartsEarly`, `NoWakeupIsLost`, `RunningIsNeverCancelled`,
`FailuresReachEverybody` (if `~LateAdds`) and `LimitHolds`.  Inductive invariant
`GraphInv`: `TypeOK`, `EdgesMirror`, `StartsAfterBlockers` and `NoLostWakeup`
together.  None of the last three is inductive alone: unblocking finds the
dependents by reverse edges and decides with forward ones, so a wake-up is only
right if the edges mirror.  The cascade is used through two facts: it takes only waiting
tasks (`CascadeTakesWaiting`) and is closed under dependents (`CascadeClosed`).
`LimitHolds` strengthens the limit to `Reserved`: running and offered tasks
together stay below it.

`SortAlwaysTopological`: `Spec => []SortIsTopological`: in every reachable graph of
any finite size the sort throws exactly when there is a cycle and otherwise lists
every task once, after its blockers.  `EdgesMirror` is needed, as degrees are counted
on forward edges and lowered along reverse ones.  `KahnAlwaysFits` is the loop's
invariant: after n turns the queue repeats nobody, a task's degree is the number of
its blockers not yet sorted, the queue holds exactly the tasks of degree zero, and
each task has its blockers before it.  It is proved by `CountUp`, induction
over the turns as a set, with a least counterexample.  When the loop ends early every
task left has a blocker left (`UpstreamOfBlocker`), and in a finite graph that is a cycle
(`StuckIsCyclic`); a sorted graph has none (`SortedIsAcyclic`).

`CriticalPathAlwaysLongest`: in every reachable acyclic graph the critical path is a
chain and no chain is longer.  The loop's invariant, `DistancesFit`, says after n turns
of a task's distance that it is its predecessor's plus one (1 without one), no less
than that of any blocker that had its turn plus one, and no more than its place in
the sort.  The first gives the chain that `PathBack` walks (`BackFits`), the second
that no chain outruns the distances (`ChainCounts`), the third that the walk is over
after as many turns as there are tasks.

`ScheduleOrderAlwaysRespects`: the schedule order lists every task once, after its
blockers, whatever the priorities.  A level lies between 1 and the place in the sort
and above the levels of the blockers (`LevelsFit`), so the levels 1 to N cover
every task; after n of them the order has the tasks of these levels, once each, with
levels that do not fall (`LevelsListed`).  That a sorted sequence exists for the
comparison the scheduler uses is `CanBeSorted`, from `BeforeIsStrict`.

Both rest on `SortedPlaces` (a sort that did not throw gives each task one place,
after its blockers').

`CyclesAlwaysReal`: in every reachable graph detectCycles reports something exactly
when there is a cycle, and each report is one.  The invariant of the search,
`SearchFits`, has three parts.  The stack is a path of dependencies, the parent of
each task on it is the frame below (`StackFits`), and the grey tasks are those of the
stack.  Every report is a cycle: at a grey task, the walk along the parents goes
down the stack and stops above that task, where the dependency closes it
(`WayFits`, `WayBackIsCycle`; `StackIsShort` bounds the walk).  And as long as nothing
was reported, what a call has followed is black or the call above it, so black tasks
lead to black ones only and none is upstream of itself (`FinishedIsAcyclic`).  This
last part is what a missing report would break: it needs that the tasks on the stack
are grey and not white or black.  That the search is over after
`SearchTurns` is a measure: `Work`, the dependencies to follow and the calls to
return from, shrinks with each turn until the stack is empty (`TurnSearches`,
`SearchEnds`).  A cycle of reports makes the graph cyclic by `StuckIsCyclic`.

`TurnsDefine` shows for each of the six recursive functions of `DagOrders` and
`DagCycles` that its definition has a solution.  They assume `OrdersAssumption`: the
value for "no parent" is not a task.

Of `TaskDag`'s properties only `EveryTaskEnds`, liveness, is model-checked alone.

## 6. `CrdtReplicas` and `CrdtDeltas`

### 6.1 How they correspond to the code

`CrdtReplicas` follows one key, of any of the four types, through all replicas.

| Model | Code |
|---|---|
| `rep` | each node's store; `seen` names the updates it is made of (history, for the properties) |
| `clock` | each node's `Date.now()`, unsynchronised; it may stand still between two writes |
| `Set`, `Increment`, `Decrement`, `Add`, `Remove` | the updates; `set` drops a write whose stamp is not newer, `remove` buries every tag it knows |
| `Merge` and its parts | applyState: newest stamp, maximum per node, union of tags and of tombstones |
| `Exchange`; `Send`, `Deliver`, `Lose` | merge(other); snapshots of getState that arrive late, again, at anybody, or never |
| `Persist`, `Crash`, `Restored` | crdtPersist, a new process, crdtRestore |

`CrdtDeltas` follows versions and the history.  A key's data is the set of
updates it is made of: the first module shows that this set decides the data and
that merging is union.

| Model | Code |
|---|---|
| `version`, `pending`, `history` | the same; an entry holds whole keys and the version it goes up to |
| `Flush`, `Relevant`, `Merged`, `Answer`, `IsNull` | flushDelta with the trimming to `maxDeltaHistory`; getDelta, which puts together the entries after the asked version, later ones over earlier ones |
| `Applied` | applyDelta and applyState: each key that comes is merged and noted; the version becomes larger than both |
| `told` | what a peer must remember: the `toVersion` of the last answer it took from each store |
| `trimmed`, `gap` | history: how far a store has forgotten, and who took an incomplete answer |

The transport and the caller of getDelta are not in the repository: the models
let messages be lost, repeated, reordered and misdirected, and let a peer take
only deltas that connect to what it was told.  Left out: deletions, clear,
compaction, listeners, the convergence tracker.  Amounts other than 1 are
sequences of increments.

### 6.2 Properties

- `RegisterIsNewest`: each copy's register is the newest of the writes it has seen.
- `CounterIsOfSeen`: each increment seen counts once.  `NoIncrementLost`: none is
  lost, unless its node crashed before it was persisted.
- `AddWins`: tags and tombstones are those of the adds and removes seen, so a
  remove takes back only what it had seen.
- `StrongConvergence`: copies that have seen the same updates are equal.
- `Converges` (liveness): replicas that keep merging agree in the end.
- `NothingMissed`, `DeltaConnects`: a peer that comes up to the versions it is given
  has everything, and so does whoever a late or repeated answer reaches,
  as long as the store still has the entries since.
- `VersionsMoveOn`: a store moves past every version it has given out before its
  data changes.
- Proved only: `TypeOK` of `CrdtReplicas`, `OneValuePerStamp`, `NothingForgotten`.

### 6.3 Runs, bounds and fairness

`Crdt`: two nodes, clocks of two instants, three updates, one snapshot under way
and one crash, each of the four types.  Two instants let stamps tie, differ and
go backwards between nodes; three updates let an add, a concurrent add and a
remove meet; the snapshot is kept while it is delivered, so it arrives again
after newer ones.  `Converges` assumes `WF(Exchange)` for each pair, updates and crashes
being bounded; snapshots are not fair.  `CrdtDelta`: two stores, two keys, a
history of two entries, so that one is trimmed at the third; versions up to 7
let both stores pass each other.  Both systems stop when their bounds are
reached, so deadlock is not checked.

### 6.4 Met, without a run

- getDelta answers a version older than the history without the entries it
  has dropped and without saying so (crdt-store.ts:205, 457), although types.ts:259
  speaks of the "Version range this delta covers".  `gap` in the model marks who took
  such an answer; merging the whole state takes the mark away, and `NothingMissed`
  holds again.
- clear() and a restart reset the version, so peers that were told a higher one
  hear "up to date" until the store has caught up (crdt-store.ts:616).
- Deleting a key is noted as a change but never leaves the node, and the next
  merge brings the key back (233).  compactORSetState drops tombstones and would
  revive removed elements (or-set.ts:397); nothing calls it.
- applyState and applyDelta note all keys they are given as changed, so peers
  that exchange deltas never go quiet (398); `Converges` is about peers that stop once they agree.

### 6.5 Proofs (`CrdtReplicasProofs`)

For every finite set of nodes, every order of their ids and any values, elements and bounds:
`MergeIdempotent`, `MergeCommutes`, `MergeAssociates` as lemmas about the operators
(commutativity needs that equal stamps hold equal values), and as theorems of
`Spec` the type invariant, every safety property above of `CrdtReplicas`,
`OneValuePerStamp` and `NothingForgotten`.  The inductive invariant `CrdtInv` says
of every copy, be it live, persisted or under way: its data is of the updates it
has seen (`RegGood`, `CountGood`, `SetGood`); it knows no update of a node that
the node's clock or the number of updates made has not reached (`Behind`,
`Bounded`); and of every two copies that one stamp names one value
(`OneWrite`).  `Behind` is what makes the step of a write or an add go through: a
new stamp or tag is new to every copy, although a crash may have thrown away
the store that made the last one.  `Converges` is liveness and
model-checked only.

### 6.6 Proofs (`CrdtDeltasProofs`)

For every finite set of nodes, keys and values, any length of the history and any
bound on versions: `DeltaTypeCorrect`, `NothingMissedAlways`, `DeltaConnectsAlways` and
`VersionsMoveOnAlways`, all unconditional.

Neither `NothingMissed` nor `DeltaConnects` is inductive: what a store answers now is
said of one version, and a later flush moves it.  `DeltaInv` says instead of each
key whether it has been noted since a version (`StillAt`), and then of every
pair of nodes: a peer has all of a store that has not been noted since the version
it was told (`InStep`); a delta under way owes what its store had, and still has of the
keys not noted since (`OwedFits`); whoever has what one delta owes gets what the next
one owes from that one's parts (`Follows`), and so does a peer that has come up to
its start (`Reaches`); and each version that was told is one the store has passed
(`Given`).  `HistoryFits` is the invariant of the history itself: entries go up in
version, from `trimmed` at least to the store's version at most, and the latest entry
with a key that is not pending has all there is of it.  Each of the pairs is kept by any step that only notes more
(`PairKeeps`); what is new is that an answer fits (`AnswerFits`) and that receiving and
merging bring what they promise (`ReceiveBrings`, `MergeBrings`).

## 7. `Claims` and `ClaimLock`

### 7.1 How they correspond to the code

Every method of the service awaits `repository.get`, checks, and awaits
`repository.update` of the whole row.  A call is a **frame** with the row it read.

| Model | Code |
|---|---|
| `rows` | the repository: status, claimant, expiresAt, stealCount, previousClaimants, priority |
| `Call`, `Finish` | claim, release, steal, handoff, updateStatus, escalatePriority: `Allowed` is each method's check, `Updated` the row it writes |
| `Request`, `Answer`, `HandOn`, `Drop` | requestHumanReview and requestAgentAssist; completeHandoff with its two awaits; cancelHandoff and cleanupExpiredHandoffs |
| `Sweep`, `Expire` | expireStale: all expired rows are read at once and written one at a time |
| `Tick`, `Crash` | time; an agent that calls no more (its calls under way still end: they run in the service's process) |
| `held`, `mover`, `raced` | history: who ever had a claim, on whose word it last changed hands, and whether a write overwrote a row its call had not read |

A read and a write of the repository take one step each; that is the in-memory
repository (claim-repository.ts:46-58).  The persistent one awaits more often
but has the same two points at which others see or change the row.  Left out:
its indexes, events, metrics, deletion and queries, and updateStatus with
a status such as 'available' or without a claimant, which would let any caller
set anything.  The work-stealing coordinator is not modelled: the thefts it asks
for are `steal` calls, at any time.

`ClaimLock` is the promise: a claim is free, held by one claimant or over for good;
only its holder hands it on, gives it back or ends it, a timer ends it, and
others steal it only so often.  A claim on which one call overwrote another is
`spoilt`, and nothing is promised of it: see 7.4.

### 7.2 Properties

- `IsALock`: the service implements `ClaimLock`: late answers to handoffs, expiry
  and thefts in any order included.
- `NobodyForgotten`: whoever had a claim is in previousClaimants or has it now.
- `PendingHandoffs`: at most `maxPendingPerClaim` wait, in spite of overlapping
  requests, and whoever asked had the claim.
- `ExpiryTakesFromTheDead` (liveness): what a crashed agent has claimed expires.
- Proved only: `TypeOK`, `HolderIffHeld` and `StealLimit`, which hold for overwritten
  rows as well.

### 7.3 Run, bounds and fairness

`Claims`: one claim (calls on different claims do not interact), an agent and a
human, two frames with two calls each, one theft, one waiting handoff, deadlines
of one tick.  Two overlapping calls are what a lost update takes, and two calls
to a frame let one overlap both an earlier and a later one; four calls are also
the shortest way to a handoff that is answered after a theft.  It stops when the
calls and the time are used up, so deadlock is not checked.  Fairness: the
expiry timer fires (`WF(Sweep)`, `WF(Expire)`: setInterval) and a call under way
ends (`WF(Finish)`, `WF(HandOn)`: a resolved promise is resumed).  Nobody has to call.

### 7.4 What disagrees with the repository's own words

`ClaimedTwice`: a call that succeeds should pass its check on the row it overwrites
(`ChecksStillHold`).  Two calls of claim() read the claim while it is available, both
pass the check and both succeed.  That is the shortest of the counterexamples: with
the check of claim() made firm, release() still writes back a claim that was stolen
after it was read (claim-service.ts:239), and so do the other methods.  The
quotations are in `PROJECT.json`.

Met, without a run:

- findExpired and findStale look at 'claimed' rows only (claim-repository.ts:102,
  110): a claim moved to 'in-progress' or 'blocked' keeps a deadline nobody acts on, and
  the work of a crashed agent stays with it.
- Nothing makes an 'expired' claim available again, and claim() takes only
  available ones (claim-service.ts:198).
- release with reason 'handoff' keeps the claimant, although its comment says it
  "changes claimant" (270), and removes the deadline.
- completeHandoff removes the waiting handoff after its awaits (handoff-manager.ts:212):
  it can be answered twice at once, and again when its claim has come back.
- The stealing round uses a list of idle agents computed before its awaits
  (work-stealing.ts:102), and rounds may overlap.
- The persistent repository never removes an old index entry on update (437).

### 7.5 Proofs (`ClaimsProofs`)

For every finite set of claims, any claimants and frames and any limits:
`ClaimsTypeCorrect`, `RowsMakeSense`, `StealsAreLimited`, `HistoryIsComplete`,
`HandoffsAreLimited` and the refinement `ClaimsAreLocks`.  The inductive invariant
`ClaimsInv` says that every row, and every row a call or the sweep still holds,
is one the service could have written (`GoodRow`: a claimant exactly while held,
thefts within the limit) with only claimants that did have the claim; that
calls passed their check on the row they hold; and that `NobodyForgotten` holds.
The rows in the frames have to be included because each may become the
repository's at the next step.  The refinement has one lemma for a write to a row
that changed (`BlindWriteSpoils`), one for a write to the row that was read
(`FairWriteMoves`), and then one for each caller (`CallMovesLock`,
`ExpiryMovesLock`).  `ExpiryTakesFromTheDead` is model-checked only.

## 8. What is not modelled

Everything marked `not_modelled` in `PROJECT.json`: either planned (section 2)
or, like statistics, vector search, file formats, transports and language-model
calls, without a protocol that a state machine would make clearer.  Within the
modelled parts the gaps are those named in 3.1, 4.1, 5.1, 6.1 and 7.1.  Liveness and anything
that depends on `ENABLED` are model-checked, not proved.
