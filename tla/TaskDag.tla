------------------------------ MODULE TaskDag ------------------------------
(***************************************************************************)
(* The task dependency graph (coordination/task-dag/dag.ts) and the        *)
(* scheduler that chooses from it (scheduler.ts).                          *)
(*                                                                         *)
(* Every method is synchronous, so each is one action.  What interleaves   *)
(* are the callers: the dispatcher starts what schedule() returned in      *)
(* later steps, while tasks are added, removed, finished and failed.       *)
(***************************************************************************)
EXTENDS Integers, FiniteSets

CONSTANTS
    Task,           \* task ids
    PriorityOf,     \* [Task -> 0..3]: p0 .. p3
    MaxConcurrent,  \* config.maxConcurrent
    LateAdds        \* tasks may be added behind a failed or cancelled one

ASSUME DagAssumption ==
    /\ IsFiniteSet(Task)
    /\ PriorityOf \in [Task -> 0 .. 3]
    /\ MaxConcurrent \in Nat \ {0}
    /\ LateAdds \in BOOLEAN

VARIABLES
    status,   \* nodes.get(id).status; "absent": no such node
    forward,  \* forwardEdges: what a task is blocked by
    reverse,  \* reverseEdges: what is blocked by an id, known or not
    blocks,   \* nodes.get(id).blocks
    offered   \* what schedule() returned and the dispatcher has not started

graphVars == <<status, forward, reverse, blocks>>
vars == <<status, forward, reverse, blocks, offered>>

Dead   == {"failed", "cancelled"}
Live   == {"blocked", "ready", "in_progress"}
Status == {"absent", "completed"} \cup Live \cup Dead

With(s)    == {t \in Task : status[t] = s}
Present(t) == status[t] # "absent"

TypeOK ==
    /\ status \in [Task -> Status]
    /\ forward \in [Task -> SUBSET Task]
    /\ reverse \in [Task -> SUBSET Task]
    /\ blocks \in [Task -> SUBSET Task]
    /\ offered \in SUBSET Task

Init ==
    /\ status = [t \in Task |-> "absent"]
    /\ forward = [t \in Task |-> {}]
    /\ reverse = [t \in Task |-> {}]
    /\ blocks = [t \in Task |-> {}]
    /\ offered = {}

(***************************************************************************)
(* dag.ts                                                                  *)
(***************************************************************************)
AllCompleted(B) == \A b \in B : status[b] = "completed"

ComputeStatus(B) == IF AllCompleted(B) THEN "ready" ELSE "blocked"

\* What has to be true of the blockers a caller names: any ids, even the
\* task's own or ids nobody has added yet ("allowing batch insertions").
Nameable(B) == LateAdds \/ \A b \in B : status[b] \notin Dead

AddTask(t, B) ==
    LET into == [x \in Task |-> IF x \in B THEN reverse[x] \cup {t} ELSE reverse[x]]
    IN  /\ ~Present(t)
        /\ Nameable(B)
        /\ forward' = [forward EXCEPT ![t] = B]
        /\ reverse' = into
        /\ blocks' = [x \in Task |-> IF x = t THEN into[t]
                                     ELSE IF x \in B /\ Present(x) THEN blocks[x] \cup {t}
                                     ELSE blocks[x]]
        /\ status' = [status EXCEPT ![t] = ComputeStatus(B)]
        /\ UNCHANGED offered

\* Mutant: the dependents keep their edge to the removed task.
WithoutBlockerKept(t) == [forward EXCEPT ![t] = {}]

WithoutBlocker(t) ==
    [x \in Task |-> IF x = t THEN {}
                    ELSE IF x \in reverse[t] THEN forward[x] \ {t} ELSE forward[x]]

RemoveTask(t) ==
    LET detach(edges) == [x \in Task |-> IF x = t THEN {}
                                         ELSE IF x \in forward[t] THEN edges[x] \ {t}
                                         ELSE edges[x]]
        rest == WithoutBlocker(t)
    IN  /\ Present(t)
        /\ forward' = rest
        /\ reverse' = detach(reverse)
        /\ blocks' = detach(blocks)
        /\ status' = [x \in Task |->
             IF x = t THEN "absent"
             ELSE IF x \in reverse[t] /\ status[x] = "blocked"
             THEN ComputeStatus(rest[x]) ELSE status[x]]
        /\ UNCHANGED offered

Start(t) ==
    /\ status[t] = "ready"
    /\ status' = [status EXCEPT ![t] = "in_progress"]
    /\ UNCHANGED <<forward, reverse, blocks>>

\* Mutants: every waiting dependent is unblocked; t does not count as done yet.
UnblockedAny(t)   == {d \in reverse[t] : status[d] = "blocked"}
UnblockedEarly(t) == {d \in reverse[t] : status[d] = "blocked" /\ AllCompleted(forward[d])}

\* unblockDependents: the dependents that waited for nothing but t.
Unblocked(t) ==
    {d \in reverse[t] : status[d] = "blocked" /\ AllCompleted(forward[d] \ {t})}

Complete(t) ==
    /\ status[t] = "in_progress"
    /\ status' = [x \in Task |-> IF x = t THEN "completed"
                                 ELSE IF x \in Unblocked(t) THEN "ready" ELSE status[x]]
    /\ UNCHANGED <<forward, reverse, blocks, offered>>

\* The dependents that can still be cancelled, whatever fails upstream.
Cancellable(x) == status[x] \in Live

\* Mutant: no recursion.
CascadeDirect(t) == {d \in reverse[t] : Cancellable(d) /\ d # t}

\* cascadeCancellation, the recursion as the least set closed under it.
Cascade(t) ==
    LET closed(S) == \A b \in S \cup {t} : \A d \in reverse[b] :
                         Cancellable(d) /\ d # t => d \in S
    IN  {d \in Task : \A S \in SUBSET Task : closed(S) => d \in S}

Fail(t) ==
    /\ status[t] \in {"in_progress", "ready"}
    /\ status' = [x \in Task |-> IF x = t THEN "failed"
                                 ELSE IF x \in Cascade(t) THEN "cancelled" ELSE status[x]]
    /\ UNCHANGED <<forward, reverse, blocks, offered>>

Clear ==
    /\ \E t \in Task : Present(t)
    /\ status' = [t \in Task |-> "absent"]
    /\ forward' = [t \in Task |-> {}]
    /\ reverse' = [t \in Task |-> {}]
    /\ blocks' = [t \in Task |-> {}]
    /\ UNCHANGED offered

(***************************************************************************)
(* scheduler.ts                                                            *)
(***************************************************************************)
\* sortByPriority; tasks with the same key come in any order.
Before(s, t) ==
    \/ PriorityOf[s] < PriorityOf[t]
    \/ /\ PriorityOf[s] = PriorityOf[t]
       /\ Cardinality(blocks[s]) > Cardinality(blocks[t])

\* Mutant: what is in progress is not counted.
AvailableAll == MaxConcurrent

Available ==
    LET n == MaxConcurrent - Cardinality(With("in_progress"))
    IN  IF n < 0 THEN 0 ELSE n

\* schedule(): the first of the ready tasks in that order.
Best(S) ==
    /\ S \subseteq With("ready")
    /\ Cardinality(S) <= Available
    /\ Cardinality(S) < Available => S = With("ready")
    /\ \A s \in S, t \in With("ready") \ S : ~Before(t, s)

\* The dispatcher asks again when it has dealt with all it was given.
Schedule ==
    /\ offered = {}
    /\ offered' \in SUBSET Task \ {{}}
    /\ Best(offered')
    /\ UNCHANGED graphVars

\* start() throws for a task that is not ready any more; it is dropped.
Dispatch(t) ==
    /\ t \in offered
    /\ offered' = offered \ {t}
    /\ Start(t) \/ (status[t] # "ready" /\ UNCHANGED graphVars)

Adding == \E t \in Task, B \in SUBSET Task : AddTask(t, B)

Next ==
    \/ Adding
    \/ \E t \in Task : RemoveTask(t) \/ Complete(t) \/ Fail(t) \/ Dispatch(t)
    \/ Clear
    \/ Schedule

Spec == Init /\ [][Next]_vars

(***************************************************************************)
(* The dispatcher keeps asking, starts what it was given and the work it   *)
(* starts ends.  Additions, removals and failures are not fair.            *)
(***************************************************************************)
FairSpec ==
    /\ Spec
    /\ WF_vars(Schedule)
    /\ \A t \in Task : WF_vars(Dispatch(t)) /\ WF_vars(Complete(t) \/ Fail(t))

(***************************************************************************)
(* Properties                                                              *)
(***************************************************************************)

\* The two adjacency maps and the arrays in the task records, which add,
\* remove and clear edit one by one, describe the same graph: unblocking and
\* cancelling walk reverse edges and decide with forward ones.
EdgesMirror ==
    /\ \A t, b \in Task : t \in reverse[b] <=> b \in forward[t]
    /\ \A t \in Task : Present(t) => blocks[t] = reverse[t]
    /\ \A t \in Task : ~Present(t) => forward[t] = {}

\* A task that may run, or runs, waits for nothing: each task it is blocked
\* by has completed, whatever was removed or added again meanwhile.
StartsAfterBlockers ==
    \A t \in Task : status[t] \in {"ready", "in_progress"} => AllCompleted(forward[t])

\* No wake-up is lost: a task only stays blocked while something it is
\* blocked by has not completed.
NoLostWakeup ==
    \A t \in Task : status[t] = "blocked" => ~AllCompleted(forward[t])

\* A failure reaches everything behind it: nobody waits for a task that has
\* failed or was cancelled ("cascade cancellation to dependents").
NobodyWaitsForTheDead ==
    \A t \in Task : status[t] = "blocked" => \A b \in forward[t] : status[b] \notin Dead

\* maxConcurrent holds although the dispatcher starts its batch later than
\* schedule() counted what was in progress.
WithinLimit == Cardinality(With("in_progress")) <= MaxConcurrent

\* A cancelled task was never running: a cascade takes no work in progress.
OnlyWaitingIsCancelled ==
    [][\A t \in Task : status[t] = "in_progress" => status'[t] # "cancelled"]_vars

\* What a task waits for, directly or not.
Upstream(t) ==
    {u \in Task : \A S \in SUBSET Task :
         forward[t] \subseteq S /\ (\A s \in S : forward[s] \subseteq S) => u \in S}

\* It waits for an id that nobody added, or for something on a cycle.
Hopeless(t) == \E u \in Upstream(t) : ~Present(u) \/ u \in Upstream(u)

\* Once nobody adds tasks any more, each task of the graph is completed,
\* failed, cancelled or removed, unless it waits for an unknown task or for a
\* cycle: the dispatcher is never stuck with blocked tasks (isComplete).
EveryTaskEnds ==
    <>[][~Adding]_vars =>
        \A t \in Task : status[t] \in Live ~> (status[t] \notin Live \/ Hopeless(t))
=============================================================================
