----------------------------- MODULE QueenTasks -----------------------------
(***************************************************************************)
(* The task life cycle of the Queen coordinator (src/src/coordination).    *)
(*                                                                         *)
(* Node runs one piece of JavaScript at a time, but the Queen's functions  *)
(* are async: every await lets any other handler run.  An invocation that  *)
(* is suspended at an await is a "frame"; an action runs one frame, or one *)
(* handler, from one await to the next.                                    *)
(***************************************************************************)
EXTENDS Integers, Sequences, FiniteSets, SequencesExt

CONSTANTS
    NTasks,         \* tasks are numbered in the order of their createdAt
    Frame,          \* suspended invocations that exist at once (a bound)
    DomainSeq,      \* ALL_DOMAINS, in its order
    PriorityOf,     \* [Task -> 0..3]: p0 .. p3
    Targets,        \* [Task -> Seq(Domain)]: task.targetDomains
    TypeDomains,    \* [Task -> Seq(Domain)]: TASK_DOMAIN_MAP[task.type]
    MaxConcurrent,  \* config.maxConcurrentTasks
    RetryLimit,     \* config.taskRetryLimit
    MaxAgents,      \* the agent coordinator's limit
    LoadThreshold,  \* config.workStealing.loadThreshold
    BatchSize,      \* config.workStealing.stealBatchSize
    PluginDomains,  \* domains whose plugin implements executeTask
    ExecutorRuns,   \* an accepted submission is also run by DomainTaskExecutor
    Stealing,       \* config.workStealing.enabled
    Cancels,        \* clients call cancelTask
    TasksFail,      \* a task's work may fail
    Faults,         \* domains may be unhealthy and breakers open
    PluginRejects   \* a plugin's executeTask may return an error

Task     == 1 .. NTasks
Domain   == {DomainSeq[i] : i \in DOMAIN DomainSeq}
Priority == 0 .. 3
NoTask   == 0
NoDomain == "no domain"

ASSUME QueenAssumption ==
    /\ NTasks \in Nat
    /\ IsFiniteSet(Frame)
    /\ DomainSeq \in Seq(STRING)
    /\ NoDomain \notin Domain
    /\ PriorityOf \in [Task -> Priority]
    /\ Targets \in [Task -> Seq(Domain)]
    /\ \A t \in Task : IsInjective(Targets[t])   \* no domain is named twice
    /\ TypeDomains \in [Task -> Seq(Domain)]
    /\ MaxConcurrent \in Nat \ {0}
    /\ RetryLimit \in Nat
    /\ MaxAgents \in Nat
    /\ LoadThreshold \in Nat
    /\ BatchSize \in Nat
    /\ PluginDomains \subseteq Domain
    /\ {ExecutorRuns, Stealing, Cancels, TasksFail, Faults, PluginRejects}
           \subseteq BOOLEAN

VARIABLES
    status,       \* tasks[id].status; "none": no entry yet, "gone": cleaned up
    domain,       \* tasks[id].assignedDomain
    retries,      \* tasks[id].retryCount
    agent,        \* the agent in tasks[id].assignedAgents
    orphans,      \* running agents that no execution record names any more
    counter,      \* runningTaskCounter
    queue,        \* taskQueue: one list per priority
    domainQueue,  \* domainQueues: one list per domain
    frames,       \* the suspended invocations
    callbacks,    \* completion callbacks the plugins still owe
    events        \* TaskCompleted / TaskFailed events still to be published

vars == <<status, domain, retries, agent, orphans, counter, queue, domainQueue,
          frames, callbacks, events>>

tasksVars  == <<status, domain, retries, agent, orphans>>
queueVars  == <<queue, domainQueue>>
reportVars == <<callbacks, events>>

(***************************************************************************)
(* Types                                                                   *)
(***************************************************************************)
Finished == {"completed", "failed"}
Status   == {"none", "queued", "running", "cancelled", "gone"} \cup Finished

\* by: who awaits the assignment; hired: an agent is spawned for it; pri: where
\* processQueue's loop goes on;
\* thieves, victims, left: the rest of triggerWorkStealing's loops.
FrameState ==
    [pc : {"idle", "drain", "steal", "route", "spawn", "announce", "refused",
           "rejected"},
     by : {"nobody", "submit", "queue", "steal"},
     task : Task \cup {NoTask},
     dom : Domain \cup {NoDomain},
     hired : BOOLEAN,
     pri : 0 .. 4,
     thieves : Seq(Domain),
     victims : Seq(Domain),
     left : Nat]

TypeOK ==
    /\ status \in [Task -> Status]
    /\ domain \in [Task -> Domain \cup {NoDomain}]
    /\ retries \in [Task -> 0 .. RetryLimit]
    /\ agent \in [Task -> {"none", "running", "stopped"}]
    /\ orphans \in Nat
    /\ counter \in Int
    /\ queue \in [Priority -> Seq(Task)]
    /\ domainQueue \in [Domain -> Seq(Task)]
    /\ frames \in [Frame -> FrameState]
    /\ callbacks \in [Task -> Nat]
    /\ events \in [Task -> Nat]

NoFrame ==
    [pc |-> "idle", by |-> "nobody", task |-> NoTask, dom |-> NoDomain,
     hired |-> FALSE, pri |-> 0, thieves |-> <<>>, victims |-> <<>>, left |-> 0]

Draining(p) == [NoFrame EXCEPT !.pc = "drain", !.by = "queue", !.pri = p]

Init ==
    /\ status = [t \in Task |-> "none"]
    /\ domain = [t \in Task |-> NoDomain]
    /\ retries = [t \in Task |-> 0]
    /\ agent = [t \in Task |-> "none"]
    /\ orphans = 0
    /\ counter = 0
    /\ queue = [p \in Priority |-> <<>>]
    /\ domainQueue = [d \in Domain |-> <<>>]
    /\ frames = [f \in Frame |-> NoFrame]
    /\ callbacks = [t \in Task |-> 0]
    /\ events = [t \in Task |-> 0]

(***************************************************************************)
(* Queues                                                                  *)
(***************************************************************************)
NoLater(q, t) == {i \in DOMAIN q : q[i] <= t}

InsertLast(q, t) == Append(q, t)

\* binaryInsert with taskComparator: after every entry created no later
Insert(q, t) == InsertAt(q, Cardinality(NoLater(q, t)) + 1, t)

TargetSet(t) == {Targets[t][i] : i \in DOMAIN Targets[t]}

EnqueueInDomain(t) ==
    [d \in Domain |-> IF d \in TargetSet(t) THEN Append(domainQueue[d], t)
                                            ELSE domainQueue[d]]

EnqueueDomainOnly(t) ==
    /\ domainQueue' = EnqueueInDomain(t)
    /\ UNCHANGED queue

Enqueue(t) ==
    /\ queue' = [queue EXCEPT ![PriorityOf[t]] = Insert(@, t)]
    /\ domainQueue' = EnqueueInDomain(t)

WithoutInOneDomain(t) ==
    [d \in Domain |-> IF Targets[t] # <<>> /\ d = Head(Targets[t])
                      THEN RemoveFirst(domainQueue[d], t) ELSE domainQueue[d]]

WithoutInDomains(t) ==
    [d \in Domain |-> IF d \in TargetSet(t) THEN RemoveFirst(domainQueue[d], t)
                                            ELSE domainQueue[d]]

RemoveFromDomainsOnly(t) ==
    /\ domainQueue' = WithoutInDomains(t)
    /\ UNCHANGED queue

RemoveFromQueues(t) ==
    /\ queue' = [queue EXCEPT ![PriorityOf[t]] = RemoveFirst(@, t)]
    /\ domainQueue' = WithoutInDomains(t)

(***************************************************************************)
(* Choosing a domain                                                       *)
(***************************************************************************)
RunningIn(d) == {t \in Task : status[t] = "running" /\ domain[t] = d}
Load(d, dq)  == Len(dq[d]) + Cardinality(RunningIn(d))

Candidates(t) == IF Targets[t] # <<>> THEN Targets[t] ELSE TypeDomains[t]

\* the first candidate of the lowest load, the unhealthy ones left out
Chosen(t, healthy, dq) ==
    LET c   == Candidates(t)
        fit == {i \in DOMAIN c : c[i] \in healthy}
        Before(i, j) == \/ Load(c[i], dq) < Load(c[j], dq)
                        \/ Load(c[i], dq) = Load(c[j], dq) /\ i <= j
    IN  IF fit = {} THEN {NoDomain}
        ELSE {c[i] : i \in {k \in fit : \A j \in fit : Before(k, j)}}

\* domain health is read from the plugins or the agents: any answer may come
HealthViews == IF Faults THEN SUBSET Domain ELSE {Domain}

AtLeastZero(n) == IF n > 0 THEN n ELSE 0

Idle(f)     == frames[f].pc = "idle"
Set(f, fr)  == frames' = [frames EXCEPT ![f] = fr]

\* assignTask up to its first await; without a domain it returns an error
FirstStop(d) == IF d = NoDomain THEN "refused" ELSE "route"

Assigning(by, t, p, d) ==
    [pc |-> FirstStop(d), by |-> by, task |-> t, dom |-> d, hired |-> FALSE,
     pri |-> p, thieves |-> <<>>, victims |-> <<>>, left |-> 0]

\* What the caller of the assignment goes on with once it has returned.
Returned(fr) ==
    CASE fr.by = "queue" -> Draining(fr.pri + 1)
      [] fr.by = "steal" -> [fr EXCEPT !.pc = "steal", !.task = NoTask,
                                       !.dom = NoDomain]
      [] OTHER           -> NoFrame

(***************************************************************************)
(* submitTask, after the governance check                                  *)
(***************************************************************************)
Submittable(t) ==
    /\ status[t] = "none"
    /\ \A f \in Frame : frames[f].by = "submit" => frames[f].task # t

SlotFreeBeforeRaise == counter <= MaxConcurrent

\* the counter, raised first, is within the limit
SlotFree == counter + 1 <= MaxConcurrent

\* a slot is free: the counter is raised before the assignment starts
SubmitDirect(t, f) ==
    /\ Submittable(t)
    /\ Idle(f)
    /\ SlotFree
    /\ counter' = counter + 1
    /\ \E healthy \in HealthViews :
           \E d \in Chosen(t, healthy, domainQueue) : Set(f, Assigning("submit", t, 0, d))
    /\ UNCHANGED <<tasksVars, queueVars, reportVars>>

\* no slot is free: queueTask
SubmitQueued(t) ==
    /\ Submittable(t)
    /\ ~SlotFree
    /\ Enqueue(t)
    /\ status' = [status EXCEPT ![t] = "queued"]
    /\ domain' = [domain EXCEPT ![t] = NoDomain]
    /\ retries' = [retries EXCEPT ![t] = 0]
    /\ agent' = [agent EXCEPT ![t] = "none"]
    /\ events' = [events EXCEPT ![t] = IF ExecutorRuns THEN @ + 1 ELSE @]
    /\ UNCHANGED <<orphans, counter, frames, callbacks>>

(***************************************************************************)
(* assignTaskToDomain, from await to await                                 *)
(***************************************************************************)
LiveAgents ==
    Cardinality({t \in Task : agent[t] = "running"})
    + Cardinality({f \in Frame : frames[f].hired}) + orphans

PoolHasRoom == LiveAgents < MaxAgents

\* The model router has answered, the domain's circuit breaker lets the task
\* through, and an agent is spawned if the pool has room.
RouteAccepted(f) ==
    /\ frames[f].pc = "route"
    /\ Set(f, [frames[f] EXCEPT !.pc = "spawn", !.hired = PoolHasRoom])
    /\ UNCHANGED <<tasksVars, counter, queueVars, reportVars>>

RouteBreakerOpen(f) ==
    /\ Faults
    /\ frames[f].pc = "route"
    /\ Set(f, [frames[f] EXCEPT !.pc = "refused"])
    /\ UNCHANGED <<tasksVars, counter, queueVars, reportVars>>

\* AgentSpawned is out: the execution record is written, whatever it was before.
Assign(f) ==
    LET t == frames[f].task
    IN  /\ frames[f].pc = "spawn"
        /\ status' = [status EXCEPT ![t] = "running"]
        /\ domain' = [domain EXCEPT ![t] = frames[f].dom]
        /\ retries' = [retries EXCEPT ![t] = 0]
        /\ agent' = [agent EXCEPT ![t] = IF frames[f].hired THEN "running" ELSE "none"]
        /\ orphans' = IF agent[t] = "running" THEN orphans + 1 ELSE orphans
        /\ Set(f, [frames[f] EXCEPT !.pc = "announce", !.hired = FALSE])
        /\ UNCHANGED <<counter, queueVars, reportVars>>

\* the events that will report the task of f: the domain's own, when it has no
\* executeTask handler, and that of the executor
PublishedWithoutReturn(f) ==
    1 + (IF ExecutorRuns /\ frames[f].by = "submit" THEN 1 ELSE 0)

Published(f) ==
    (IF frames[f].dom \in PluginDomains THEN 0 ELSE 1)
    + (IF ExecutorRuns /\ frames[f].by = "submit" THEN 1 ELSE 0)

\* TaskAssigned is out; the plugin takes the task, or a domain without an
\* executeTask handler learns of it from the event.
Deliver(f) ==
    LET t == frames[f].task
    IN  /\ frames[f].pc = "announce"
        /\ callbacks' = [callbacks EXCEPT ![t] =
               IF frames[f].dom \in PluginDomains THEN @ + 1 ELSE @]
        /\ events' = [events EXCEPT ![t] = @ + Published(f)]
        /\ Set(f, Returned(frames[f]))
        /\ UNCHANGED <<tasksVars, counter, queueVars>>

\* the plugin's executeTask returns an error: the record is written anew
PluginRefuses(f) ==
    LET t == frames[f].task
    IN  /\ PluginRejects
        /\ frames[f].pc = "announce"
        /\ frames[f].dom \in PluginDomains
        /\ status' = [status EXCEPT ![t] = "failed"]
        /\ domain' = [domain EXCEPT ![t] = frames[f].dom]
        /\ retries' = [retries EXCEPT ![t] = 0]
        /\ counter' = AtLeastZero(counter - 1)
        /\ Set(f, [frames[f] EXCEPT !.pc = "rejected"])
        /\ UNCHANGED <<agent, orphans, queueVars, reportVars>>

\* The error reaches the caller: submitTask gives its slot back; processQueue
\* and work stealing drop the result and go on.
Refused(f) ==
    /\ frames[f].pc \in {"refused", "rejected"}
    /\ counter' = IF frames[f].by = "submit" THEN counter - 1 ELSE counter
    /\ Set(f, Returned(frames[f]))
    /\ UNCHANGED <<tasksVars, queueVars, reportVars>>

(***************************************************************************)
(* processQueue                                                            *)
(***************************************************************************)
Waiting(f) == {p \in Priority : p >= frames[f].pri /\ queue[p] # <<>>}

\* full, or no list left to look at
DrainStops(f) ==
    /\ frames[f].pc = "drain"
    /\ counter >= MaxConcurrent \/ Waiting(f) = {}
    /\ Set(f, NoFrame)
    /\ UNCHANGED <<tasksVars, counter, queueVars, reportVars>>

\* one task of the next non-empty list; the slot is taken before assigning
Dequeue(f, p) ==
    LET t == Head(queue[p])
    IN  /\ frames[f].pc = "drain"
        /\ counter < MaxConcurrent
        /\ p \in Waiting(f)
        /\ \A q \in Waiting(f) : p <= q
        /\ queue' = [queue EXCEPT ![p] = RemoveFirst(Tail(@), t)]
        /\ domainQueue' = WithoutInDomains(t)
        /\ counter' = counter + 1
        /\ \E healthy \in HealthViews :
               \E d \in Chosen(t, healthy, domainQueue') : Set(f, Assigning("queue", t, p, d))
        /\ UNCHANGED <<tasksVars, reportVars>>

\* Any event of a domain, and an AgentStatusChanged, runs processQueue.
DomainEvent(f) ==
    /\ Idle(f)
    /\ Set(f, Draining(0))
    /\ UNCHANGED <<tasksVars, counter, queueVars, reportVars>>

(***************************************************************************)
(* Completion                                                              *)
(***************************************************************************)
LeaveAgent(t) == UNCHANGED agent

StopAgent(t) ==
    agent' = [agent EXCEPT ![t] = IF @ = "running" THEN "stopped" ELSE @]

Outcomes == IF TasksFail THEN Finished ELSE {"completed"}

Known(t) == status[t] \notin {"none", "gone"}

\* handleTaskCompletionCallback: the slot is given back whatever the status is
CallbackReport(t, f, outcome) ==
    /\ callbacks[t] > 0
    /\ Known(t)
    /\ Idle(f)
    /\ callbacks' = [callbacks EXCEPT ![t] = @ - 1]
    /\ status' = [status EXCEPT ![t] = outcome]
    /\ counter' = AtLeastZero(counter - 1)
    /\ StopAgent(t)
    /\ Set(f, Draining(0))
    /\ UNCHANGED <<domain, retries, orphans, queueVars, events>>

\* ... a task that is not in the map: a warning and nothing else
CallbackUnknown(t) ==
    /\ callbacks[t] > 0
    /\ ~Known(t)
    /\ callbacks' = [callbacks EXCEPT ![t] = @ - 1]
    /\ UNCHANGED <<tasksVars, counter, queueVars, frames, events>>

SlotReturnedAlways(t) == counter' = AtLeastZero(counter - 1)

SlotKept(t) == UNCHANGED counter

\* the counter goes down only for a task that counts as running
SlotReturned(t) ==
    counter' = IF status[t] = "running" THEN AtLeastZero(counter - 1) ELSE counter

EventTakenQueueLeft(t, f) ==
    /\ events[t] > 0
    /\ events' = [events EXCEPT ![t] = @ - 1]
    /\ UNCHANGED frames

EventTaken(t, f) ==
    /\ events[t] > 0
    /\ Idle(f)
    /\ events' = [events EXCEPT ![t] = @ - 1]
    /\ Set(f, Draining(0))

\* handleTaskCompleted
TaskCompleted(t, f) ==
    /\ EventTaken(t, f)
    /\ Known(t)
    /\ SlotReturned(t)
    /\ status' = [status EXCEPT ![t] = "completed"]
    /\ UNCHANGED <<domain, retries, agent, orphans, queueVars, callbacks>>

RetriesLeft(t) == retries[t] < RetryLimit

\* handleTaskFailed, retries left: back into the queue
TaskFailedRetry(t, f) ==
    /\ TasksFail
    /\ EventTaken(t, f)
    /\ Known(t)
    /\ SlotReturned(t)
    /\ RetriesLeft(t)
    /\ status' = [status EXCEPT ![t] = "queued"]
    /\ retries' = [retries EXCEPT ![t] = @ + 1]
    /\ Enqueue(t)
    /\ UNCHANGED <<domain, agent, orphans, callbacks>>

\* handleTaskFailed, permanently failed
TaskFailedForGood(t, f) ==
    /\ TasksFail
    /\ EventTaken(t, f)
    /\ Known(t)
    /\ SlotReturned(t)
    /\ ~RetriesLeft(t)
    /\ status' = [status EXCEPT ![t] = "failed"]
    /\ UNCHANGED <<domain, retries, agent, orphans, queueVars, callbacks>>

\* either handler for a task that is not in the map: only processQueue
EventUnknown(t, f) ==
    /\ EventTaken(t, f)
    /\ ~Known(t)
    /\ UNCHANGED <<tasksVars, counter, queueVars, callbacks>>

(***************************************************************************)
(* cancelTask and cleanupCompletedTasks                                    *)
(***************************************************************************)
CancellableWhenKnown(t) == Known(t)

Cancellable(t) == status[t] \in {"queued", "running", "cancelled"}

CancelTask(t) ==
    /\ Cancels
    /\ Cancellable(t)
    /\ SlotReturned(t)
    /\ status' = [status EXCEPT ![t] = "cancelled"]
    /\ RemoveFromQueues(t)
    /\ StopAgent(t)
    /\ UNCHANGED <<domain, retries, orphans, frames, reportVars>>

\* the retention time of a finished or cancelled task is over
CleanUp(t) ==
    /\ status[t] \in Finished \cup {"cancelled"}
    /\ status' = [status EXCEPT ![t] = "gone"]
    /\ agent' = [agent EXCEPT ![t] = "none"]
    /\ orphans' = IF agent[t] = "running" THEN orphans + 1 ELSE orphans
    /\ domain' = [domain EXCEPT ![t] = NoDomain]
    /\ retries' = [retries EXCEPT ![t] = 0]
    /\ UNCHANGED <<counter, queueVars, frames, reportVars>>

(***************************************************************************)
(* triggerWorkStealing, from await to await                                *)
(***************************************************************************)
MinOf(a, b) == IF a <= b THEN a ELSE b

Share(d, dq) == MinOf(Len(dq[d]), BatchSize)

Busy == {d \in Domain : Load(d, domainQueue) > LoadThreshold}

ByLoad(s) == \A i, j \in DOMAIN s :
                 i < j => Load(s[i], domainQueue) >= Load(s[j], domainQueue)

InDomainOrder(s) ==
    \A i, j \in DOMAIN s : i < j =>
        \E a, b \in DOMAIN DomainSeq :
            a < b /\ DomainSeq[a] = s[i] /\ DomainSeq[b] = s[j]

Looting(thieves, victims) ==
    [pc |-> "steal", by |-> "steal", task |-> NoTask, dom |-> NoDomain,
     hired |-> FALSE, pri |-> 0, thieves |-> thieves, victims |-> victims,
     left |-> Share(Head(victims), domainQueue)]

\* Idle domains are those without load that were last active long enough ago;
\* which of them these are is left open.
StartStealing(f) ==
    /\ Stealing
    /\ Idle(f)
    /\ Busy # {}
    /\ \E idle \in SUBSET {d \in Domain : Load(d, domainQueue) = 0} \ {{}} :
           \E thieves \in SetToSeqs(idle), victims \in SetToSeqs(Busy) :
               /\ InDomainOrder(thieves)
               /\ ByLoad(victims)
               /\ Set(f, Looting(thieves, victims))
    /\ UNCHANGED <<tasksVars, counter, queueVars, reportVars>>

\* the first task of the victim's list whose type the thief's domain handles
Handles(d, t) == \E i \in DOMAIN TypeDomains[t] : TypeDomains[t][i] = d

Loot(f) ==
    LET fr == frames[f]
    IN  IF fr.thieves = <<>> \/ fr.victims = <<>> \/ fr.left = 0 THEN {}
        ELSE {i \in DOMAIN domainQueue[Head(fr.victims)] :
                Handles(Head(fr.thieves), domainQueue[Head(fr.victims)][i])}

\* The task leaves the queues and is assigned to the thief.  No slot is taken.
StealTask(f) ==
    LET fr == frames[f]
    IN  /\ fr.pc = "steal"
        /\ \E i \in Loot(f) :
               LET t == domainQueue[Head(fr.victims)][i]
               IN  /\ \A j \in Loot(f) : i <= j
                   /\ RemoveFromQueues(t)
                   /\ Set(f, [fr EXCEPT !.pc = "route", !.task = t,
                                        !.dom = Head(fr.thieves),
                                        !.thieves = Tail(@), !.left = @ - 1])
        /\ UNCHANGED <<tasksVars, counter, reportVars>>

\* on to the next busy domain, or done
StealMovesOn(f) ==
    LET fr == frames[f]
    IN  /\ fr.pc = "steal"
        /\ Loot(f) = {}
        /\ IF fr.thieves = <<>> \/ Len(fr.victims) <= 1
           THEN Set(f, NoFrame)
           ELSE Set(f, [fr EXCEPT !.victims = Tail(@),
                            !.left = Share(fr.victims[2], domainQueue)])
        /\ UNCHANGED <<tasksVars, counter, queueVars, reportVars>>

(***************************************************************************)
(* Specification                                                           *)
(***************************************************************************)
\* a suspended invocation goes on
Resume(f) ==
    \/ RouteAccepted(f)
    \/ RouteBreakerOpen(f)
    \/ Assign(f)
    \/ Deliver(f)
    \/ PluginRefuses(f)
    \/ Refused(f)
    \/ DrainStops(f)
    \/ \E p \in Priority : Dequeue(f, p)
    \/ StealTask(f)
    \/ StealMovesOn(f)

\* the work on a task ends and is reported
Report(t, f) ==
    \/ \E outcome \in Outcomes : CallbackReport(t, f, outcome)
    \/ TaskCompleted(t, f)
    \/ TaskFailedRetry(t, f)
    \/ TaskFailedForGood(t, f)
    \/ EventUnknown(t, f)

Next ==
    \/ \E f \in Frame : Resume(f)
    \/ \E t \in Task, f \in Frame : Report(t, f) \/ SubmitDirect(t, f)
    \/ \E t \in Task : SubmitQueued(t) \/ CallbackUnknown(t)
    \/ \E t \in Task : CancelTask(t) \/ CleanUp(t)
    \/ \E f \in Frame : DomainEvent(f) \/ StartStealing(f)

Spec == Init /\ [][Next]_vars

\* Suspended invocations are resumed, and domains end the work they accepted.
Fairness ==
    /\ \A f \in Frame : WF_vars(Resume(f))
    /\ \A t \in Task : SF_vars(\E f \in Frame : Report(t, f))

FairSpec == Spec /\ Fairness

(***************************************************************************)
(* Properties                                                              *)
(***************************************************************************)
Running == {t \in Task : status[t] = "running"}

\* invocations that took a slot and have not yet written an execution record
HoldsSlot(fr) ==
    /\ fr.by \in {"submit", "queue"}
    /\ fr.pc \in {"route", "spawn", "refused"}

Reserved == {f \in Frame : HoldsSlot(frames[f])}

\* A task that runs, or is about to, is paid for: runningTaskCounter is never
\* below the running tasks plus the assignments under way (CC-002).
CounterCovers == counter >= Cardinality(Running) + Cardinality(Reserved)

\* config.maxConcurrentTasks is never exceeded, whatever interleaving of
\* submissions, reports, retries, cancellations and queue passes happens.
CapacityRespected == Cardinality(Running) <= MaxConcurrent

\* No slot leaks either: the counter is exactly the running tasks plus the
\* assignments under way.
CounterExact == counter = Cardinality(Running) + Cardinality(Reserved)

Queued(t)   == \E i \in DOMAIN queue[PriorityOf[t]] : queue[PriorityOf[t]][i] = t
InFlight(t) == \E f \in Frame : frames[f].task = t

\* A task whose record says "queued" is really waiting in its priority list or
\* is being assigned: no path drops it.
QueuedIsHeld == \A t \in Task : status[t] = "queued" => Queued(t) \/ InFlight(t)

\* Every place that can still run a task, or report it, counted.
Copies(t) ==
    Cardinality({i \in DOMAIN queue[PriorityOf[t]] : queue[PriorityOf[t]][i] = t})
    + Cardinality({f \in Frame : frames[f].task = t})
    + callbacks[t] + events[t]

\* Each task has at most one of them: it is never queued twice, run twice at
\* the same time, or reported once more than it was run.
OneCopy == \A t \in Task : Copies(t) <= 1

\* The domain lists, on which load balancing and stealing rely, list exactly
\* the queued tasks that name the domain.
DomainQueuesMirror ==
    \A d \in Domain, t \in Task :
        LET Count(q) == Cardinality({i \in DOMAIN q : q[i] = t})
        IN  Count(domainQueue[d]) = IF d \in TargetSet(t)
                                    THEN Count(queue[PriorityOf[t]]) ELSE 0

\* Within a priority, oldest first, also after retries (taskComparator).
OldestFirst ==
    \A p \in Priority : IsSorted(queue[p], LAMBDA a, b : a <= b)

\* A cancelled task, or one that a plugin has completed, leaves no agent of its
\* own at work: both stop the agent of the execution record.  (The handlers of
\* the reports by event do not stop it, and neither does an assignment that
\* overwrites the record: such an agent is one of the `orphans`.)
NoStrayAgents ==
    \A t \in Task :
        \/ status[t] = "cancelled"
        \/ status[t] = "completed" /\ domain[t] \in PluginDomains
        => agent[t] # "running"

\* The agent pool's limit holds, those agents included that no record names any
\* more or not yet (canSpawn counts the coordinator's agents, not the records).
AgentLimit == LiveAgents <= MaxAgents

\* A completed or failed task is never queued or run again.
FinishedStaysFinished ==
    [][\A t \in Task : status[t] \in Finished => status'[t] \in {status[t], "gone"}]_vars

\* Every queued task is run and reported in the end.
QueuedSettles ==
    \A t \in Task : status[t] = "queued" ~> status[t] \in Finished \cup {"cancelled", "gone"}
=============================================================================
