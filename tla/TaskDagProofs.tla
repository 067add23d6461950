--------------------------- MODULE TaskDagProofs ---------------------------
(***************************************************************************)
(* Proofs about TaskDag, for every set of tasks, all priorities and every  *)
(* concurrency limit.                                                      *)
(***************************************************************************)
EXTENDS DagCycles, FiniteSetTheorems, FunctionTheorems, SequenceTheorems, WellFoundedInduction, TLAPS

\* Init and each action keep the types.
LEMMA InitType == Init => TypeOK
BY DEF Init, TypeOK, Status

LEMMA StepType == ASSUME TypeOK, [Next]_vars PROVE TypeOK'
<1> USE DEF TypeOK, Status, Live, Dead
<1>1. ASSUME NEW t \in Task, NEW B \in SUBSET Task, AddTask(t, B) PROVE TypeOK'
  BY <1>1 DEF AddTask, ComputeStatus
<1>2. ASSUME NEW t \in Task, RemoveTask(t) PROVE TypeOK'
  <2>1. forward' \in [Task -> SUBSET Task] BY <1>2 DEF RemoveTask, WithoutBlocker
  <2>2. reverse' \in [Task -> SUBSET Task] BY <1>2 DEF RemoveTask
  <2>3. blocks' \in [Task -> SUBSET Task] BY <1>2 DEF RemoveTask
  <2>4. status' \in [Task -> Status] BY <1>2 DEF RemoveTask, ComputeStatus
  <2> QED BY <1>2, <2>1, <2>2, <2>3, <2>4 DEF RemoveTask
<1>3. ASSUME NEW t \in Task, Complete(t) PROVE TypeOK'
  BY <1>3 DEF Complete
<1>4. ASSUME NEW t \in Task, Fail(t) PROVE TypeOK'
  BY <1>4 DEF Fail
<1>5. ASSUME NEW t \in Task, Dispatch(t) PROVE TypeOK'
  BY <1>5 DEF Dispatch, Start, graphVars
<1>6. CASE Clear
  BY <1>6 DEF Clear
<1>7. CASE Schedule
  BY <1>7 DEF Schedule, graphVars
<1>8. CASE UNCHANGED vars
  BY <1>8 DEF vars
<1> QED BY <1>1, <1>2, <1>3, <1>4, <1>5, <1>6, <1>7, <1>8 DEF Next, Adding

(***************************************************************************)
(* What a cascade reaches.                                                 *)
(***************************************************************************)
\* Only tasks that wait are cancelled: a set closed under the cascade is the
\* set of the blocked ones, as whatever waits for t has not been started.
LEMMA CascadeTakesWaiting ==
  ASSUME TypeOK, EdgesMirror, StartsAfterBlockers, NEW t \in Task,
         status[t] \in {"in_progress", "ready"}
  PROVE  Cascade(t) \subseteq With("blocked")
<1> DEFINE S == With("blocked")
<1>1. ASSUME NEW b \in S \cup {t}, NEW d \in reverse[b], Cancellable(d), d # t
      PROVE  d \in S
  <2>1. b \in Task /\ d \in Task /\ status[b] # "completed"
    BY <1>1 DEF With, TypeOK
  <2>2. b \in forward[d]
    BY <1>1, <2>1 DEF EdgesMirror
  <2>3. status[d] \notin {"ready", "in_progress"}
    BY <2>1, <2>2 DEF StartsAfterBlockers, AllCompleted
  <2> QED BY <1>1, <2>1, <2>3 DEF Cancellable, Live, With
<1>2. S \in SUBSET Task BY DEF With
<1> QED BY <1>1, <1>2 DEF Cascade

\* It reaches the dependents of t and the dependents of what it reaches.
LEMMA CascadeClosed ==
  ASSUME NEW t \in Task, NEW b \in Cascade(t) \cup {t}, NEW d \in reverse[b],
         d \in Task, Cancellable(d), d # t
  PROVE  d \in Cascade(t)
BY DEF Cascade

(***************************************************************************)
(* The graph invariant.                                                    *)
(***************************************************************************)
GraphInv == TypeOK /\ EdgesMirror /\ StartsAfterBlockers /\ NoLostWakeup

LEMMA InitGraph == Init => GraphInv
<1> SUFFICES ASSUME Init PROVE GraphInv OBVIOUS
<1>1. TypeOK BY InitType
<1>2. EdgesMirror BY DEF Init, EdgesMirror, Present
<1>3. StartsAfterBlockers /\ NoLostWakeup BY DEF Init, StartsAfterBlockers, NoLostWakeup
<1> QED BY <1>1, <1>2, <1>3 DEF GraphInv

\* The edges are the same graph in all three places after each action.
LEMMA StepMirror == ASSUME GraphInv, [Next]_vars PROVE EdgesMirror'
<1> USE DEF GraphInv, TypeOK
<1>1. ASSUME NEW t \in Task, NEW B \in SUBSET Task, AddTask(t, B) PROVE EdgesMirror'
  <2>1. \A x, b \in Task : x \in reverse'[b] <=> b \in forward'[x]
    BY <1>1 DEF AddTask, EdgesMirror, Present
  <2>2. \A x \in Task : ~Present(x)' => forward'[x] = {}
    BY <1>1 DEF AddTask, EdgesMirror, Present, ComputeStatus
  <2>3. \A x \in Task : Present(x)' => blocks'[x] = reverse'[x]
    BY <1>1 DEF AddTask, EdgesMirror, Present
  <2> QED BY <2>1, <2>2, <2>3 DEF EdgesMirror
<1>2. ASSUME NEW t \in Task, RemoveTask(t) PROVE EdgesMirror'
  <2>1. \A x, b \in Task : x \in reverse'[b] <=> b \in forward'[x]
    BY <1>2 DEF RemoveTask, WithoutBlocker, EdgesMirror
  <2>2. \A x \in Task : Present(x)' => x # t /\ Present(x)
    BY <1>2 DEF RemoveTask, Present
  <2>3. \A x \in Task : x # t /\ Present(x) => Present(x)'
    BY <1>2 DEF RemoveTask, Present, ComputeStatus
  <2>4. \A x \in Task : ~Present(x)' => forward'[x] = {}
    BY <1>2, <2>3 DEF RemoveTask, EdgesMirror, WithoutBlocker
  <2>5. \A x \in Task : Present(x)' => blocks'[x] = reverse'[x]
    BY <1>2, <2>2 DEF RemoveTask, EdgesMirror
  <2> QED BY <2>1, <2>4, <2>5 DEF EdgesMirror
<1>3. ASSUME NEW t \in Task, Complete(t) PROVE EdgesMirror'
  <2>1. \A x \in Task : Present(x)' <=> Present(x)
    BY <1>3 DEF Complete, Unblocked, Present
  <2> QED BY <1>3, <2>1 DEF Complete, EdgesMirror
<1>4. ASSUME NEW t \in Task, Fail(t) PROVE EdgesMirror'
  <2>1. \A x \in Task : Present(x)' <=> Present(x)
    BY <1>4, CascadeTakesWaiting DEF Fail, Present, With
  <2> QED BY <1>4, <2>1 DEF Fail, EdgesMirror
<1>5. ASSUME NEW t \in Task, Dispatch(t) PROVE EdgesMirror'
  BY <1>5 DEF Dispatch, Start, graphVars, EdgesMirror, Present
<1>6. CASE Clear
  BY <1>6 DEF Clear, EdgesMirror, Present
<1>7. CASE Schedule
  BY <1>7 DEF Schedule, graphVars, EdgesMirror, Present
<1>8. CASE UNCHANGED vars
  BY <1>8 DEF vars, EdgesMirror, Present
<1> QED BY <1>1, <1>2, <1>3, <1>4, <1>5, <1>6, <1>7, <1>8 DEF Next, Adding

\* Nothing runs before what it waits for, and no wake-up is lost.
LEMMA StepWaiting ==
  ASSUME GraphInv, [Next]_vars PROVE StartsAfterBlockers' /\ NoLostWakeup'
<1> USE DEF GraphInv, TypeOK, StartsAfterBlockers, NoLostWakeup, AllCompleted
<1>1. ASSUME NEW t \in Task, NEW B \in SUBSET Task, AddTask(t, B)
      PROVE  StartsAfterBlockers' /\ NoLostWakeup'
  BY <1>1 DEF AddTask, ComputeStatus, Present
<1>2. ASSUME NEW t \in Task, RemoveTask(t) PROVE StartsAfterBlockers' /\ NoLostWakeup'
  <2> DEFINE rest == WithoutBlocker(t)
  <2>1. forward' = rest /\ \A x \in Task : x # t => rest[x] = forward[x] \ {t}
    BY <1>2 DEF RemoveTask, WithoutBlocker, EdgesMirror
  <2>2. \A x \in Task : x # t => (status'[x] = "completed" <=> status[x] = "completed")
    BY <1>2 DEF RemoveTask, ComputeStatus
  <2>3. \A x \in Task : x # t /\ (x \notin reverse[t] \/ status[x] # "blocked")
                           => status'[x] = status[x]
    BY <1>2 DEF RemoveTask
  <2>4. \A x \in Task : x # t /\ x \in reverse[t] /\ status[x] = "blocked"
                           => status'[x] = ComputeStatus(rest[x])
    BY <1>2 DEF RemoveTask
  <2>5. status'[t] = "absent"
    BY <1>2 DEF RemoveTask
  <2>6. \A x \in Task : x # t /\ x \in reverse[t] /\ status[x] = "blocked"
            => IF \A b \in rest[x] : status'[b] = "completed"
               THEN status'[x] = "ready" ELSE status'[x] = "blocked"
    BY <2>1, <2>2, <2>4 DEF ComputeStatus
  <2>7. \A x \in Task : x # t /\ x \notin reverse[t] => rest[x] = forward[x] /\ t \notin rest[x]
    <3>1. \A x \in Task : x \notin reverse[t] => t \notin forward[x]
      BY DEF EdgesMirror
    <3>2. \A x \in Task : x # t /\ x \notin reverse[t] => rest[x] = forward[x]
      BY DEF WithoutBlocker
    <3> QED BY <3>1, <3>2
  <2> QED BY <2>1, <2>2, <2>3, <2>5, <2>6, <2>7
<1>3. ASSUME NEW t \in Task, Complete(t) PROVE StartsAfterBlockers' /\ NoLostWakeup'
  <2>1. \A x \in Task : status'[x] = "completed" <=> x = t \/ status[x] = "completed"
    BY <1>3 DEF Complete, Unblocked
  <2>2. \A x \in Task : x \in Unblocked(t) <=>
            t \in forward[x] /\ status[x] = "blocked"
              /\ \A b \in forward[x] : b = t \/ status[b] = "completed"
    BY DEF Unblocked, EdgesMirror
  <2>3. \A x \in Task : status'[x] = IF x = t THEN "completed"
                                    ELSE IF x \in Unblocked(t) THEN "ready" ELSE status[x]
    BY <1>3 DEF Complete
  <2>4. forward' = forward
    BY <1>3 DEF Complete
  <2>5. StartsAfterBlockers'
    BY <2>1, <2>2, <2>3, <2>4
  <2>6. NoLostWakeup'
    BY <2>1, <2>2, <2>3, <2>4
  <2> QED BY <2>5, <2>6
<1>4. ASSUME NEW t \in Task, Fail(t) PROVE StartsAfterBlockers' /\ NoLostWakeup'
  <2>1. \A x \in Task : x # t /\ x \notin Cascade(t) => status'[x] = status[x]
    BY <1>4 DEF Fail
  <2>2. status'[t] = "failed" /\ \A x \in Cascade(t) \ {t} : status'[x] = "cancelled"
    BY <1>4 DEF Fail, Cascade
  <2>3. \A x \in Task : status'[x] = "completed" <=> status[x] = "completed"
    BY <1>4, <2>1, <2>2, CascadeTakesWaiting DEF Fail, With
  <2>4. forward' = forward
    BY <1>4 DEF Fail
  <2>5. StartsAfterBlockers'
    BY <2>1, <2>2, <2>3, <2>4
  <2>6. NoLostWakeup'
    BY <2>1, <2>2, <2>3, <2>4
  <2> QED BY <2>5, <2>6
<1>5. ASSUME NEW t \in Task, Dispatch(t) PROVE StartsAfterBlockers' /\ NoLostWakeup'
  BY <1>5 DEF Dispatch, Start, graphVars
<1>6. CASE Clear
  BY <1>6 DEF Clear
<1>7. CASE Schedule
  BY <1>7 DEF Schedule, graphVars
<1>8. CASE UNCHANGED vars
  BY <1>8 DEF vars
<1> QED BY <1>1, <1>2, <1>3, <1>4, <1>5, <1>6, <1>7, <1>8 DEF Next, Adding

LEMMA GraphAlways == Spec => []GraphInv
<1>1. GraphInv /\ [Next]_vars => GraphInv'
  <2> SUFFICES ASSUME GraphInv, [Next]_vars PROVE GraphInv' OBVIOUS
  <2>1. TypeOK' BY StepType DEF GraphInv
  <2>2. EdgesMirror' BY StepMirror
  <2>3. StartsAfterBlockers' /\ NoLostWakeup' BY StepWaiting
  <2> QED BY <2>1, <2>2, <2>3 DEF GraphInv
<1> QED BY InitGraph, <1>1, PTL DEF Spec

\* Type correctness of the graph and the scheduler.
THEOREM DagTypeCorrect == Spec => []TypeOK
<1>1. GraphInv => TypeOK BY DEF GraphInv
<1> QED BY <1>1, GraphAlways, PTL

\* forwardEdges, reverseEdges and the blocks arrays always agree.
THEOREM EdgesAlwaysMirror == Spec => []EdgesMirror
<1>1. GraphInv => EdgesMirror BY DEF GraphInv
<1> QED BY <1>1, GraphAlways, PTL

\* No task is ready or running before all it is blocked by has completed.
THEOREM NothingStartsEarly == Spec => []StartsAfterBlockers
<1>1. GraphInv => StartsAfterBlockers BY DEF GraphInv
<1> QED BY <1>1, GraphAlways, PTL

\* A task that stays blocked has something uncompleted to wait for.
THEOREM NoWakeupIsLost == Spec => []NoLostWakeup
<1>1. GraphInv => NoLostWakeup BY DEF GraphInv
<1> QED BY <1>1, GraphAlways, PTL

(***************************************************************************)
(* Failures.                                                               *)
(***************************************************************************)
\* No running task is ever cancelled by the failure of another one.
THEOREM RunningIsNeverCancelled == Spec => OnlyWaitingIsCancelled
<1>1. GraphInv /\ [Next]_vars =>
          [\A t \in Task : status[t] = "in_progress" => status'[t] # "cancelled"]_vars
  <2> DEFINE P == \A t \in Task : status[t] = "in_progress" => status'[t] # "cancelled"
  <2> SUFFICES ASSUME GraphInv, Next PROVE P OBVIOUS
  <2> USE DEF GraphInv, TypeOK
  <2>1. ASSUME NEW t \in Task, NEW B \in SUBSET Task, AddTask(t, B) PROVE P
    BY <2>1 DEF AddTask, ComputeStatus, Present
  <2>2. ASSUME NEW t \in Task, RemoveTask(t) PROVE P
    BY <2>2 DEF RemoveTask, ComputeStatus
  <2>3. ASSUME NEW t \in Task, Complete(t) PROVE P
    BY <2>3 DEF Complete
  <2>4. ASSUME NEW t \in Task, Fail(t) PROVE P
    BY <2>4, CascadeTakesWaiting DEF Fail, With
  <2>5. ASSUME NEW t \in Task, Dispatch(t) PROVE P
    BY <2>5 DEF Dispatch, Start, graphVars
  <2>6. CASE Clear
    BY <2>6 DEF Clear
  <2>7. CASE Schedule
    BY <2>7 DEF Schedule, graphVars
  <2> QED BY <2>1, <2>2, <2>3, <2>4, <2>5, <2>6, <2>7 DEF Next, Adding
<1> QED BY <1>1, GraphAlways, PTL DEF OnlyWaitingIsCancelled, Spec

\* When nobody adds tasks behind dead ones, a failure reaches all behind it.
LEMMA StepDead ==
  ASSUME ~LateAdds, GraphInv, NobodyWaitsForTheDead, [Next]_vars
  PROVE  NobodyWaitsForTheDead'
<1> USE DEF GraphInv, TypeOK, NobodyWaitsForTheDead, Dead
<1>1. ASSUME NEW t \in Task, NEW B \in SUBSET Task, AddTask(t, B)
      PROVE  NobodyWaitsForTheDead'
  BY <1>1 DEF AddTask, Nameable, ComputeStatus
<1>2. ASSUME NEW t \in Task, RemoveTask(t) PROVE NobodyWaitsForTheDead'
  <2>1. \A x \in Task : forward'[x] \subseteq forward[x]
    BY <1>2 DEF RemoveTask, WithoutBlocker
  <2>2. \A x \in Task : status'[x] \in Dead => status[x] \in Dead
    BY <1>2 DEF RemoveTask, ComputeStatus
  <2>3. \A x \in Task : status'[x] = "blocked" => status[x] = "blocked"
    BY <1>2 DEF RemoveTask, ComputeStatus
  <2> QED BY <2>1, <2>2, <2>3
<1>3. ASSUME NEW t \in Task, Complete(t) PROVE NobodyWaitsForTheDead'
  BY <1>3 DEF Complete
<1>4. ASSUME NEW t \in Task, Fail(t) PROVE NobodyWaitsForTheDead'
  <2> SUFFICES ASSUME NEW u \in Task, status'[u] = "blocked", NEW b \in forward[u],
                      status'[b] \in Dead
               PROVE  FALSE
    BY <1>4 DEF Fail
  <2>1. u # t /\ u \notin Cascade(t) /\ status[u] = "blocked"
    BY <1>4 DEF Fail
  <2>2. b \in Cascade(t) \cup {t}
    BY <1>4, <2>1 DEF Fail
  <2>3. u \in reverse[b]
    BY DEF EdgesMirror
  <2> QED BY <2>1, <2>2, <2>3, CascadeClosed DEF Cancellable, Live
<1>5. ASSUME NEW t \in Task, Dispatch(t) PROVE NobodyWaitsForTheDead'
  BY <1>5 DEF Dispatch, Start, graphVars
<1>6. CASE Clear
  BY <1>6 DEF Clear
<1>7. CASE Schedule
  BY <1>7 DEF Schedule, graphVars
<1>8. CASE UNCHANGED vars
  BY <1>8 DEF vars
<1> QED BY <1>1, <1>2, <1>3, <1>4, <1>5, <1>6, <1>7, <1>8 DEF Next, Adding

\* Cascades are complete unless tasks are added behind dead ones.
THEOREM FailuresReachEverybody == ~LateAdds /\ Spec => []NobodyWaitsForTheDead
<1> SUFFICES ASSUME ~LateAdds PROVE Spec => []NobodyWaitsForTheDead OBVIOUS
<1>1. Init => NobodyWaitsForTheDead BY DEF Init, NobodyWaitsForTheDead
<1>2. GraphInv /\ NobodyWaitsForTheDead /\ [Next]_vars => NobodyWaitsForTheDead'
  BY StepDead
<1> QED BY <1>1, <1>2, GraphAlways, PTL DEF Spec

(***************************************************************************)
(* The limit: what runs and what the dispatcher still holds fit together.  *)
(***************************************************************************)
Running  == With("in_progress")
Reserved == Cardinality(Running) + Cardinality(offered) <= MaxConcurrent

\* Fewer running tasks and the same offer keep the reservation.
LEMMA FewerRunning ==
  ASSUME TypeOK, Reserved, Running' \subseteq Running, offered' = offered
  PROVE  Reserved'
<1>1. IsFiniteSet(Running) /\ IsFiniteSet(Running') /\ IsFiniteSet(offered)
  BY DagAssumption, FS_Subset DEF Running, With, TypeOK, DagAssumption
<1>2. Cardinality(Running') <= Cardinality(Running)
  BY <1>1, FS_Subset
<1>3. /\ Cardinality(Running) \in Nat /\ Cardinality(Running') \in Nat
      /\ Cardinality(offered) \in Nat
  BY <1>1, FS_CardinalityType
<1> QED BY <1>2, <1>3, DagAssumption DEF Reserved, DagAssumption

LEMMA StepReserved == ASSUME TypeOK, Reserved, [Next]_vars PROVE Reserved'
<1> USE DEF TypeOK
<1>0. IsFiniteSet(Running) /\ IsFiniteSet(offered)
  BY DagAssumption, FS_Subset DEF Running, With, DagAssumption
<1>00. Cardinality(Running) \in Nat /\ Cardinality(offered) \in Nat /\ MaxConcurrent \in Nat
  BY <1>0, FS_CardinalityType, DagAssumption DEF DagAssumption
<1>1. ASSUME NEW t \in Task, NEW B \in SUBSET Task, AddTask(t, B) PROVE Reserved'
  BY <1>1, FewerRunning DEF AddTask, ComputeStatus, Running, With
<1>2. ASSUME NEW t \in Task, RemoveTask(t) PROVE Reserved'
  BY <1>2, FewerRunning DEF RemoveTask, ComputeStatus, Running, With
<1>3. ASSUME NEW t \in Task, Complete(t) PROVE Reserved'
  BY <1>3, FewerRunning DEF Complete, Running, With
<1>4. ASSUME NEW t \in Task, Fail(t) PROVE Reserved'
  BY <1>4, FewerRunning DEF Fail, Running, With
<1>5. ASSUME NEW t \in Task, Dispatch(t) PROVE Reserved'
  <2>1. offered' = offered \ {t} /\ t \in offered
    BY <1>5 DEF Dispatch
  <2>2. Cardinality(offered') = Cardinality(offered) - 1
    BY <2>1, <1>0, FS_RemoveElement
  <2>3. CASE Start(t)
    <3>1. Running' = Running \cup {t} /\ t \notin Running
      BY <2>3 DEF Start, Running, With
    <3>2. Cardinality(Running') = Cardinality(Running) + 1
      BY <3>1, <1>0, FS_AddElement
    <3> QED BY <2>2, <3>2, <1>00 DEF Reserved
  <2>4. CASE UNCHANGED graphVars
    <3>1. Running' = Running
      BY <2>4 DEF graphVars, Running, With
    <3> QED BY <2>2, <3>1, <1>00 DEF Reserved
  <2> QED BY <1>5, <2>3, <2>4 DEF Dispatch
<1>6. CASE Clear
  BY <1>6, FewerRunning DEF Clear, Running, With
<1>7. CASE Schedule
  <2>1. Running' = Running
    BY <1>7 DEF Schedule, graphVars, Running, With
  <2>2. Cardinality(offered') <= Available /\ IsFiniteSet(offered')
    BY <1>7, DagAssumption, FS_Subset DEF Schedule, Best, DagAssumption
  <2>3. Cardinality(offered') \in Nat
    BY <2>2, FS_CardinalityType
  <2>4. Cardinality(offered) = 0
    BY <1>7, FS_EmptySet DEF Schedule
  <2> QED BY <1>00, <2>1, <2>2, <2>3, <2>4 DEF Available, Reserved, Running
<1>8. CASE UNCHANGED vars
  BY <1>8 DEF vars, Reserved, Running, With
<1> QED BY <1>1, <1>2, <1>3, <1>4, <1>5, <1>6, <1>7, <1>8 DEF Next, Adding

\* No more than maxConcurrent tasks run, however late the batch is started.
THEOREM LimitHolds == Spec => []WithinLimit
<1>1. Init => Reserved
  <2> SUFFICES ASSUME Init PROVE Reserved OBVIOUS
  <2>1. Running = {} /\ offered = {} BY DEF Init, Running, With
  <2> QED BY <2>1, FS_EmptySet, DagAssumption DEF Reserved, DagAssumption
<1>2. TypeOK /\ Reserved /\ [Next]_vars => Reserved' BY StepReserved
<1>3. TypeOK /\ Reserved => WithinLimit
  <2> SUFFICES ASSUME TypeOK, Reserved PROVE WithinLimit OBVIOUS
  <2>1. IsFiniteSet(Running) /\ IsFiniteSet(offered)
    BY DagAssumption, FS_Subset DEF Running, With, TypeOK, DagAssumption
  <2>2. Cardinality(Running) \in Nat /\ Cardinality(offered) \in Nat
    BY <2>1, FS_CardinalityType
  <2> QED BY <2>2, DagAssumption DEF Reserved, Running, WithinLimit, DagAssumption
<1> QED BY <1>1, <1>2, <1>3, DagTypeCorrect, PTL DEF Spec

(***************************************************************************)
(* Recursion on the natural numbers, without the theorems that take an     *)
(* operator: induction is about a set, and each function has its own proof *)
(* that its recursive definition defines it.                               *)
(***************************************************************************)
LEMMA LeastNat ==
  ASSUME NEW S \in SUBSET Nat, S # {}
  PROVE  \E m \in S : \A k \in S : m <= k
<1>1. PICK m \in S : \A k \in S : ~(<<k, m>> \in OpToRel(<, Nat))
  BY WFMin, NatLessThanWellFounded
<1>2. ASSUME NEW k \in S PROVE m <= k
  <2> SUFFICES ASSUME k < m PROVE FALSE OBVIOUS
  <2>1. <<k, m>> \in OpToRel(<, Nat) BY DEF OpToRel
  <2> QED BY <1>1, <2>1
<1> QED BY <1>2

LEMMA CountUp ==
  ASSUME NEW S \in SUBSET Nat, 0 \in S, \A n \in S : n + 1 \in S
  PROVE  S = Nat
<1> SUFFICES ASSUME Nat \ S # {} PROVE FALSE OBVIOUS
<1>1. PICK m \in Nat \ S : \A k \in Nat \ S : m <= k BY LeastNat
<1>2. m # 0 BY <1>1
<1>3. m - 1 \in Nat /\ ~(m <= m - 1) BY <1>2
<1>4. m - 1 \in S BY <1>1, <1>3
<1>5. m - 1 + 1 \in S BY <1>4
<1> QED BY <1>1, <1>3, <1>5

LEMMA KahnDef == \A n \in Nat : Kahn[n] = IF n = 0 THEN Begin ELSE Turn(Kahn[n - 1], n)
<1> DEFINE Fits(g, m) == g = [n \in 0 .. m |-> IF n = 0 THEN Begin ELSE Turn(g[n - 1], n)]
           Whole(g) == g = [n \in Nat |-> IF n = 0 THEN Begin ELSE Turn(g[n - 1], n)]
<1>1. \A m \in Nat : \E g : Fits(g, m)
  <2> DEFINE S == {m \in Nat : \E g : Fits(g, m)}
  <2>1. 0 \in S
    <3>1. Fits([n \in 0 .. 0 |-> Begin], 0) OBVIOUS
    <3> QED BY <3>1
  <2>2. ASSUME NEW m \in S PROVE m + 1 \in S
    <3>1. PICK g : Fits(g, m) OBVIOUS
    <3> DEFINE h == [n \in 0 .. m + 1 |-> IF n = m + 1 THEN Turn(g[m], m + 1) ELSE g[n]]
    <3>2. ASSUME NEW n \in 0 .. m + 1
          PROVE  h[n] = IF n = 0 THEN Begin ELSE Turn(h[n - 1], n)
      <4>1. CASE n = m + 1 BY <4>1
      <4>2. CASE n \in 0 .. m
        <5>1. h[n] = g[n] BY <4>2
        <5>2. g[n] = IF n = 0 THEN Begin ELSE Turn(g[n - 1], n) BY <3>1, <4>2
        <5>3. n # 0 => h[n - 1] = g[n - 1] BY <4>2
        <5> QED BY <5>1, <5>2, <5>3
      <4> QED BY <4>1, <4>2
    <3>3. h = [n \in 0 .. m + 1 |-> h[n]] OBVIOUS
    <3> HIDE DEF h
    <3>4. Fits(h, m + 1) BY <3>2, <3>3
    <3> QED BY <3>4
  <2>3. S = Nat
    <3> HIDE DEF Fits
    <3> QED BY <2>1, <2>2, CountUp
  <2> QED BY <2>3
<1>2. ASSUME NEW g, NEW h, NEW m \in Nat, NEW p \in Nat, Fits(g, m), Fits(h, p)
      PROVE  \A n \in Nat : n <= m /\ n <= p => g[n] = h[n]
  <2> DEFINE S == {n \in Nat : n <= m /\ n <= p => g[n] = h[n]}
  <2>1. 0 \in S BY <1>2
  <2>2. ASSUME NEW n \in S PROVE n + 1 \in S
    <3> SUFFICES ASSUME n + 1 <= m, n + 1 <= p PROVE g[n + 1] = h[n + 1] OBVIOUS
    <3>1. g[n] = h[n] OBVIOUS
    <3>2. n + 1 \in 0 .. m /\ n + 1 \in 0 .. p /\ n + 1 # 0 /\ n + 1 - 1 = n OBVIOUS
    <3>3. g[n + 1] = Turn(g[n], n + 1) /\ h[n + 1] = Turn(h[n], n + 1) BY <1>2, <3>2
    <3> QED BY <3>1, <3>3
  <2>3. S = Nat
    <3> HIDE DEF Fits
    <3> QED BY <2>1, <2>2, CountUp
  <2> QED BY <2>3
<1>3. ASSUME NEW g, NEW m \in Nat, Fits(g, m), NEW n \in 0 .. m
      PROVE  g[n] = IF n = 0 THEN Begin ELSE Turn(g[n - 1], n)
  BY <1>3
<1> DEFINE G(n) == CHOOSE g : Fits(g, n)
           K == [n \in Nat |-> G(n)[n]]
<1>4. \A n \in Nat : Fits(G(n), n) BY <1>1
<1>5. ASSUME NEW n \in Nat PROVE K[n] = IF n = 0 THEN Begin ELSE Turn(K[n - 1], n)
  <2>1. K[n] = G(n)[n] OBVIOUS
  <2>2. G(n)[n] = IF n = 0 THEN Begin ELSE Turn(G(n)[n - 1], n)
    <3> HIDE DEF Fits, G
    <3> QED BY <1>4, <1>3
  <2>3. CASE n = 0 BY <2>1, <2>2, <2>3
  <2>4. CASE n # 0
    <3>1. n - 1 \in Nat /\ n - 1 <= n BY <2>4
    <3>2. Fits(G(n), n) /\ Fits(G(n - 1), n - 1) BY <1>4, <3>1
    <3>3. G(n)[n - 1] = G(n - 1)[n - 1]
      <4> HIDE DEF Fits, G
      <4> QED BY <1>2, <3>1, <3>2
    <3>4. K[n - 1] = G(n - 1)[n - 1] BY <3>1
    <3> QED BY <2>1, <2>2, <2>4, <3>3, <3>4
  <2> QED BY <2>3, <2>4
<1>6. K = [n \in Nat |-> K[n]] OBVIOUS
<1> HIDE DEF K
<1>7. Whole(K) BY <1>5, <1>6
<1>8. Kahn = CHOOSE g : Whole(g) BY DEF Kahn
<1>9. Whole(Kahn) BY <1>7, <1>8
<1> QED BY <1>9

(***************************************************************************)
(* topologicalSort                                                         *)
(***************************************************************************)
\* A set as a sequence has each element once.
LEMMA SetAsSequence ==
  ASSUME NEW S, IsFiniteSet(S)
  PROVE  /\ SetToSeq(S) \in Seq(S) /\ Len(SetToSeq(S)) \in Nat
         /\ DOMAIN SetToSeq(S) = 1 .. Len(SetToSeq(S))
         /\ \A i, j \in DOMAIN SetToSeq(S) : SetToSeq(S)[i] = SetToSeq(S)[j] => i = j
         /\ \A i \in DOMAIN SetToSeq(S) : SetToSeq(S)[i] \in S
         /\ \A x \in S : \E i \in DOMAIN SetToSeq(S) : SetToSeq(S)[i] = x
<1> DEFINE n == Cardinality(S)
<1>1. n \in Nat /\ \E f : f \in Bijection(1 .. n, S)
  BY FS_CardinalityType DEF ExistsBijection
<1>2. \E f \in [1 .. n -> S] : IsInjective(f)
  BY <1>1, Fun_BijectionProperties DEF Injection
<1>3. SetToSeq(S) \in [1 .. n -> S] /\ IsInjective(SetToSeq(S))
  BY <1>2 DEF SetToSeq
<1> DEFINE q == SetToSeq(S)
<1> HIDE DEF q, n
<1>4. q \in [1 .. n -> S] /\ IsInjective(q) BY <1>3 DEF q, n
<1>5. q \in Injection(1 .. n, S) BY <1>4 DEF Injection
<1>6. IsFiniteSet(1 .. n) /\ Cardinality(1 .. n) = n BY <1>1, FS_Interval
<1>7. q \in Surjection(1 .. n, S) BY <1>5, <1>6, FS_Injection DEF n
<1>8. q \in Seq(S) BY <1>1, <1>4, SeqDef
<1>9. Len(q) \in Nat /\ DOMAIN q = 1 .. Len(q) /\ DOMAIN q = 1 .. n
  BY <1>4, <1>8, LenProperties
<1>10. \A i, j \in DOMAIN q : q[i] = q[j] => i = j BY <1>4 DEF IsInjective
<1>11. \A i \in DOMAIN q : q[i] \in S BY <1>4
<1>12. \A x \in S : \E i \in DOMAIN q : q[i] = x
  BY <1>7, <1>9, Fun_SurjectionProperties
<1> QED BY <1>8, <1>9, <1>10, <1>11, <1>12 DEF q

Graph == TypeOK /\ EdgesMirror

LEMMA NodesFinite ==
  ASSUME NEW S \in SUBSET Nodes
  PROVE  IsFiniteSet(S) /\ Cardinality(S) \in Nat /\ (Cardinality(S) = 0 <=> S = {})
<1>1. S \in SUBSET Task BY DEF Nodes
<1>2. IsFiniteSet(S) BY <1>1, DagAssumption, FS_Subset
<1> QED BY <1>2, FS_CardinalityType, FS_EmptySet

\* What the first n turns took from the queue q.
Taken(q, n) == {x \in Nodes : \E i \in DOMAIN q : i <= n /\ q[i] = x}

Blockers(x) == forward[x] \cap Nodes

\* After n turns the degrees count the blockers that were not taken yet, and
\* the queue has, once each, the tasks with none, in an order that respects them.
KahnFits(s, n) ==
  /\ s.queue \in Seq(Nodes) /\ s.degree \in [Nodes -> Nat]
  /\ \A i, j \in DOMAIN s.queue : s.queue[i] = s.queue[j] => i = j
  /\ \A x \in Nodes : s.degree[x] = Cardinality(Blockers(x) \ Taken(s.queue, n))
  /\ \A x \in Nodes : s.degree[x] = 0 <=> \E i \in DOMAIN s.queue : s.queue[i] = x
  /\ \A j \in DOMAIN s.queue : \A b \in Blockers(s.queue[j]) :
         \E i \in DOMAIN s.queue : i < j /\ s.queue[i] = b

LEMMA BeginFits == Graph => KahnFits(Begin, 0)
<1> SUFFICES ASSUME Graph PROVE KahnFits(Begin, 0) OBVIOUS
<1> DEFINE F == {t \in Nodes : InDegree[t] = 0}
           q == SetToSeq(F)
<1>1. IsFiniteSet(F) BY NodesFinite
<1>2. Begin.queue = q /\ Begin.degree = InDegree BY DEF Begin
<1>3. /\ q \in Seq(F) /\ DOMAIN q = 1 .. Len(q) /\ Len(q) \in Nat
      /\ \A i, j \in DOMAIN q : q[i] = q[j] => i = j
      /\ \A i \in DOMAIN q : q[i] \in F
      /\ \A x \in F : \E i \in DOMAIN q : q[i] = x
  BY <1>1, SetAsSequence
<1> HIDE DEF q
<1>4. q \in Seq(Nodes)
  <2>1. F \subseteq Nodes OBVIOUS
  <2> HIDE DEF F
  <2> QED BY <1>3, <2>1, SeqMonotonic
<1>5. Taken(q, 0) = {} BY <1>3 DEF Taken
<1>6. ASSUME NEW x \in Nodes
      PROVE  /\ InDegree[x] = Cardinality(Blockers(x) \ Taken(q, 0)) /\ InDegree[x] \in Nat
             /\ InDegree[x] = 0 => Blockers(x) = {}
  <2>1. Blockers(x) \in SUBSET Nodes BY DEF Blockers
  <2>2. InDegree[x] = Cardinality(Blockers(x)) BY DEF InDegree, Blockers
  <2> QED BY <1>5, <2>1, <2>2, NodesFinite
<1>7. InDegree \in [Nodes -> Nat] BY <1>6 DEF InDegree
<1>8. \A x \in Nodes : InDegree[x] = 0 <=> \E i \in DOMAIN q : q[i] = x BY <1>3
<1>9. \A j \in DOMAIN q : Blockers(q[j]) = {} BY <1>3, <1>6
<1> QED BY <1>2, <1>3, <1>4, <1>6, <1>7, <1>8, <1>9 DEF KahnFits

LEMMA TurnFits ==
  ASSUME Graph, NEW s, NEW n \in Nat, KahnFits(s, n)
  PROVE  KahnFits(Turn(s, n + 1), n + 1)
<1> DEFINE q == s.queue
           l == Len(q)
<1>1. /\ q \in Seq(Nodes) /\ l \in Nat /\ DOMAIN q = 1 .. l
      /\ s.degree \in [Nodes -> Nat]
      /\ \A i, j \in DOMAIN q : q[i] = q[j] => i = j
      /\ \A i \in DOMAIN q : q[i] \in Nodes
  BY LenProperties, ElementOfSeq DEF KahnFits
<1>2. CASE n + 1 > l
  <2>1. Turn(s, n + 1) = s BY <1>2 DEF Turn
  <2>2. Taken(q, n + 1) = Taken(q, n) BY <1>1, <1>2 DEF Taken
  <2>3. KahnFits(s, n + 1) BY <2>2 DEF KahnFits
  <2> QED BY <2>1, <2>3
<1>3. CASE ~(n + 1 > l)
  <2> DEFINE t == q[n + 1]
             deg == s.degree
             less == [x \in Nodes |-> IF x \in Dependents(t) THEN deg[x] - 1 ELSE deg[x]]
             F == {x \in Dependents(t) : less[x] = 0}
             f == SetToSeq(F)
             r == q \o f
  <2>1. n + 1 \in DOMAIN q /\ t \in Nodes BY <1>1, <1>3
  <2>2. Turn(s, n + 1) = [queue |-> r, degree |-> less] BY <1>3 DEF Turn, Visit
  <2>3. Dependents(t) \subseteq Nodes /\ F \in SUBSET Nodes BY DEF Dependents
  <2>4. /\ f \in Seq(F) /\ Len(f) \in Nat /\ DOMAIN f = 1 .. Len(f)
        /\ \A i, j \in DOMAIN f : f[i] = f[j] => i = j
        /\ \A i \in DOMAIN f : f[i] \in F
        /\ \A x \in F : \E i \in DOMAIN f : f[i] = x
    <3>1. IsFiniteSet(F) BY <2>3, NodesFinite
    <3> HIDE DEF F
    <3> QED BY <3>1, SetAsSequence
  <2>5. /\ r \in Seq(Nodes) /\ Len(r) = l + Len(f) /\ DOMAIN r = 1 .. l + Len(f)
        /\ \A i \in 1 .. l : r[i] = q[i]
        /\ \A i \in 1 .. Len(f) : r[l + i] = f[i]
    <3> HIDE DEF f, F, q
    <3>1. f \in Seq(Nodes) BY <2>3, <2>4, SeqMonotonic
    <3>2. /\ q \o f \in Seq(Nodes) /\ Len(q \o f) = Len(q) + Len(f)
          /\ \A i \in 1 .. Len(q) + Len(f) : (q \o f)[i] = IF i <= Len(q) THEN q[i] ELSE f[i - Len(q)]
      BY <1>1, <3>1, ConcatProperties
    <3>3. DOMAIN (q \o f) = 1 .. Len(q) + Len(f) BY <3>2, LenProperties
    <3>4. \A i \in 1 .. l : (q \o f)[i] = q[i] BY <1>1, <2>4, <3>2
    <3>5. ASSUME NEW i \in 1 .. Len(f) PROVE (q \o f)[l + i] = f[i]
      <4>1. l + i \in 1 .. Len(q) + Len(f) /\ ~(l + i <= Len(q)) /\ l + i - Len(q) = i
        BY <1>1, <2>4
      <4> QED BY <3>2, <4>1
    <3> QED BY <3>2, <3>3, <3>4, <3>5
  <2>6. \A i \in DOMAIN r : i \in DOMAIN q \/ \E k \in DOMAIN f : i = l + k
    <3> SUFFICES ASSUME NEW i \in DOMAIN r, ~(i \in DOMAIN q) PROVE \E k \in DOMAIN f : i = l + k
      OBVIOUS
    <3> HIDE DEF r, f, F, q, l
    <3>1. i \in 1 .. l + Len(f) /\ ~(i \in 1 .. l) BY <1>1, <2>5
    <3>2. i - l \in 1 .. Len(f) /\ i = l + (i - l) BY <1>1, <2>4, <3>1
    <3> QED BY <2>4, <3>2
  <2> HIDE DEF r, f, F, less, t, q, l
  <2>7. \A i \in DOMAIN q : i \in DOMAIN r /\ r[i] = q[i] BY <1>1, <2>4, <2>5
  <2>8. ASSUME NEW k \in DOMAIN f PROVE l + k \in DOMAIN r /\ l + k > l /\ r[l + k] = f[k]
    <3>1. k \in 1 .. Len(f) /\ l \in Nat /\ Len(f) \in Nat BY <1>1, <2>4
    <3>2. l + k \in 1 .. l + Len(f) /\ l + k > l BY <3>1
    <3> QED BY <2>5, <3>1, <3>2
  <2>9. Taken(r, n + 1) = Taken(q, n) \cup {t}
    <3>1. ASSUME NEW x \in Taken(r, n + 1) PROVE x \in Taken(q, n) \cup {t}
      <4>1. PICK i \in DOMAIN r : i <= n + 1 /\ r[i] = x BY <3>1 DEF Taken
      <4>2. i \in DOMAIN q /\ q[i] = x BY <1>1, <1>3, <2>4, <2>5, <4>1
      <4>3. i = n + 1 \/ i <= n BY <1>1, <4>1, <4>2
      <4> QED BY <1>1, <4>2, <4>3 DEF Taken, t
    <3>2. Taken(q, n) \subseteq Taken(r, n + 1)
      <4>1. \A i \in DOMAIN q : i <= n => i <= n + 1 BY <1>1
      <4> QED BY <2>7, <4>1 DEF Taken
    <3>3. t \in Taken(r, n + 1) BY <2>1, <2>7 DEF Taken, t
    <3> QED BY <3>1, <3>2, <3>3
  <2>10. t \notin Taken(q, n) BY <1>1, <2>1 DEF Taken, t
  <2>11. \A x \in Nodes : deg[x] = Cardinality(Blockers(x) \ Taken(q, n)) BY DEF KahnFits, q
  <2>12. ASSUME NEW x \in Nodes
         PROVE  /\ less[x] \in Nat /\ less[x] = Cardinality(Blockers(x) \ Taken(r, n + 1))
                /\ x \in Dependents(t) => deg[x] # 0
    <3> DEFINE B == Blockers(x) \ Taken(q, n)
    <3>1. B \in SUBSET Nodes BY DEF Blockers
    <3>2. IsFiniteSet(B) /\ Cardinality(B) \in Nat /\ (Cardinality(B) = 0 <=> B = {})
      BY <3>1, NodesFinite
    <3>3. Blockers(x) \ Taken(r, n + 1) = B \ {t} BY <2>9
    <3>4. x \in Dependents(t) <=> t \in Blockers(x)
      BY <2>1 DEF Graph, EdgesMirror, Dependents, Blockers, Nodes
    <3>5. x \in Dependents(t) <=> t \in B BY <2>10, <3>4
    <3> HIDE DEF B
    <3>6. Cardinality(B \ {t}) = IF t \in B THEN Cardinality(B) - 1 ELSE Cardinality(B)
      BY <3>2, FS_RemoveElement
    <3>7. t \in B => Cardinality(B) # 0 BY <3>2
    <3>8. deg[x] = Cardinality(B) BY <2>11 DEF B
    <3>9. less[x] = IF x \in Dependents(t) THEN deg[x] - 1 ELSE deg[x] BY DEF less
    <3>10. CASE t \in B
      <4>1. Cardinality(B) - 1 \in Nat BY <3>2, <3>7, <3>10
      <4> QED BY <3>3, <3>5, <3>6, <3>7, <3>8, <3>9, <3>10, <4>1 DEF B
    <3>11. CASE t \notin B
      BY <3>2, <3>3, <3>5, <3>6, <3>8, <3>9, <3>11 DEF B
    <3> QED BY <3>10, <3>11
  <2>13. less \in [Nodes -> Nat] BY <2>12 DEF less
  <2>14. \A x \in Nodes : deg[x] = 0 <=> \E i \in DOMAIN q : q[i] = x BY DEF KahnFits, q
  <2>15. \A i \in DOMAIN q : q[i] \notin F
    BY <1>1, <2>12, <2>14 DEF F
  <2>16. ASSUME NEW i \in DOMAIN r, NEW j \in DOMAIN r, r[i] = r[j] PROVE i = j
    <3>1. CASE i \in DOMAIN q /\ j \in DOMAIN q BY <1>1, <2>16, <2>7, <3>1
    <3>2. ASSUME NEW k \in DOMAIN f, NEW m \in DOMAIN f, i = l + k, j = l + m PROVE i = j
      BY <2>4, <2>16, <2>8, <3>2
    <3>3. CASE i \in DOMAIN q /\ \E m \in DOMAIN f : j = l + m
      BY <2>4, <2>15, <2>16, <2>7, <2>8, <3>3
    <3>4. CASE j \in DOMAIN q /\ \E k \in DOMAIN f : i = l + k
      BY <2>4, <2>15, <2>16, <2>7, <2>8, <3>4
    <3> QED BY <2>6, <3>1, <3>2, <3>3, <3>4
  <2>17. ASSUME NEW x \in Nodes
         PROVE  less[x] = 0 <=> \E i \in DOMAIN r : r[i] = x
    <3>1. (\E i \in DOMAIN r : r[i] = x) <=> (deg[x] = 0 \/ x \in F)
      <4>1. ASSUME NEW i \in DOMAIN r, r[i] = x PROVE deg[x] = 0 \/ x \in F
        <5>1. CASE i \in DOMAIN q BY <2>14, <2>7, <4>1, <5>1
        <5>2. CASE \E k \in DOMAIN f : i = l + k BY <2>4, <2>8, <4>1, <5>2
        <5> QED BY <2>6, <5>1, <5>2
      <4>2. ASSUME deg[x] = 0 PROVE \E i \in DOMAIN r : r[i] = x
        BY <2>14, <2>7, <4>2
      <4>3. ASSUME x \in F PROVE \E i \in DOMAIN r : r[i] = x
        <5>1. PICK k \in DOMAIN f : f[k] = x BY <2>4, <4>3
        <5>2. l + k \in DOMAIN r /\ r[l + k] = x BY <2>8, <5>1
        <5> QED BY <5>2
      <4> QED BY <4>1, <4>2, <4>3
    <3>2. less[x] = IF x \in Dependents(t) THEN deg[x] - 1 ELSE deg[x] BY DEF less
    <3>3. x \in F <=> x \in Dependents(t) /\ less[x] = 0 BY DEF F
    <3> QED BY <2>12, <3>1, <3>2, <3>3
  <2>18. ASSUME NEW j \in DOMAIN r, NEW b \in Blockers(r[j])
         PROVE  \E i \in DOMAIN r : i < j /\ r[i] = b
    <3>1. CASE j \in DOMAIN q
      <4>1. b \in Blockers(q[j]) BY <1>1, <2>5, <2>18, <3>1
      <4>2. PICK i \in DOMAIN q : i < j /\ q[i] = b BY <3>1, <4>1 DEF KahnFits, q
      <4>3. i \in DOMAIN r /\ r[i] = b BY <1>1, <2>4, <2>5, <4>2
      <4> QED BY <4>2, <4>3
    <3>2. ASSUME NEW k \in DOMAIN f, j = l + k
          PROVE  \E i \in DOMAIN r : i < j /\ r[i] = b
      <4>1. r[j] = f[k] /\ f[k] \in F BY <2>4, <2>5, <3>2
      <4>2. r[j] \in Nodes /\ less[r[j]] = 0 BY <2>3, <4>1 DEF F
      <4>3. Blockers(r[j]) \ Taken(r, n + 1) \in SUBSET Nodes BY DEF Blockers
      <4>4. Blockers(r[j]) \ Taken(r, n + 1) = {} BY <2>12, <4>2, <4>3, NodesFinite
      <4>5. PICK i \in DOMAIN r : i <= n + 1 /\ r[i] = b BY <2>18, <4>4 DEF Taken
      <4>6. i < j BY <1>1, <1>3, <2>4, <2>5, <3>2, <4>5
      <4> QED BY <4>5, <4>6
    <3> QED BY <2>6, <3>1, <3>2
  <2> DEFINE s2 == Turn(s, n + 1)
  <2>19. s2.queue = r /\ s2.degree = less BY <2>2
  <2> HIDE DEF s2
  <2>20. \A x \in Nodes : less[x] = Cardinality(Blockers(x) \ Taken(r, n + 1)) BY <2>12
  <2>21. KahnFits(s2, n + 1)
    <3>1. s2.queue \in Seq(Nodes) /\ s2.degree \in [Nodes -> Nat] BY <2>5, <2>13, <2>19
    <3>2. \A i, j \in DOMAIN s2.queue : s2.queue[i] = s2.queue[j] => i = j BY <2>16, <2>19
    <3>3. \A x \in Nodes : s2.degree[x] = Cardinality(Blockers(x) \ Taken(s2.queue, n + 1))
      BY <2>19, <2>20
    <3>4. \A x \in Nodes : s2.degree[x] = 0 <=> \E i \in DOMAIN s2.queue : s2.queue[i] = x
      BY <2>17, <2>19
    <3>5. \A j \in DOMAIN s2.queue : \A b \in Blockers(s2.queue[j]) :
              \E i \in DOMAIN s2.queue : i < j /\ s2.queue[i] = b
      BY <2>18, <2>19
    <3> QED BY <3>1, <3>2, <3>3, <3>4, <3>5 DEF KahnFits
  <2> QED BY <2>21 DEF s2
<1> QED BY <1>2, <1>3

LEMMA KahnAlwaysFits == Graph => \A n \in Nat : KahnFits(Kahn[n], n)
<1> SUFFICES ASSUME Graph PROVE \A n \in Nat : KahnFits(Kahn[n], n) OBVIOUS
<1> DEFINE S == {n \in Nat : KahnFits(Kahn[n], n)}
<1>1. 0 \in S BY BeginFits, KahnDef
<1>2. ASSUME NEW n \in S PROVE n + 1 \in S
  <2>1. Kahn[n + 1] = Turn(Kahn[n], n + 1)
    <3>1. n + 1 \in Nat /\ n + 1 # 0 /\ n + 1 - 1 = n OBVIOUS
    <3> QED BY <3>1, KahnDef
  <2>2. KahnFits(Kahn[n], n) OBVIOUS
  <2> QED BY <2>1, <2>2, TurnFits
<1>3. S = Nat BY <1>1, <1>2, CountUp
<1> QED BY <1>3

\* The queue is used up, and what it never got has a blocker that it never got.
LEMMA SortFits ==
  ASSUME Graph
  PROVE  LET q == TopologicalSort
         IN  /\ q \in Seq(Nodes) /\ DOMAIN q = 1 .. Len(q) /\ Len(q) \in Nat
             /\ \A i, j \in DOMAIN q : q[i] = q[j] => i = j
             /\ \A j \in DOMAIN q : \A b \in Blockers(q[j]) : \E i \in DOMAIN q : i < j /\ q[i] = b
             /\ ToSet(q) \subseteq Nodes /\ (SortThrows <=> ToSet(q) # Nodes)
             /\ \A x \in Nodes \ ToSet(q) : \E b \in Nodes \ ToSet(q) : b \in forward[x]
<1> DEFINE q == TopologicalSort
           N == Cardinality(Nodes)
           l == Len(q)
<1>1. IsFiniteSet(Nodes) /\ N \in Nat BY NodesFinite
<1>2. KahnFits(Kahn[N], N) /\ Kahn[N].queue = q BY <1>1, KahnAlwaysFits DEF TopologicalSort
<1> HIDE DEF q
<1>3. /\ q \in Seq(Nodes) /\ DOMAIN q = 1 .. l /\ l \in Nat
      /\ \A i, j \in DOMAIN q : q[i] = q[j] => i = j
      /\ \A i \in DOMAIN q : q[i] \in Nodes
  BY <1>2, LenProperties, ElementOfSeq DEF KahnFits
<1>4. \A j \in DOMAIN q : \A b \in Blockers(q[j]) : \E i \in DOMAIN q : i < j /\ q[i] = b
  BY <1>2 DEF KahnFits
<1>5. q \in Injection(1 .. l, Nodes)
  BY <1>3, Fun_IsInj
<1> HIDE DEF N, l
<1>6. IsFiniteSet(1 .. l) /\ Cardinality(1 .. l) = l BY <1>3, FS_Interval
<1>7. l <= N /\ (l = N <=> q \in Surjection(1 .. l, Nodes))
  BY <1>1, <1>5, <1>6, FS_Injection DEF N
<1>8. ToSet(q) = {q[i] : i \in DOMAIN q} /\ ToSet(q) \subseteq Nodes
  BY <1>3 DEF ToSet
<1>9. SortThrows <=> ToSet(q) # Nodes
  <2>1. SortThrows <=> l # N BY DEF SortThrows, q, l, N
  <2>2. q \in Surjection(1 .. l, Nodes) => Nodes \subseteq ToSet(q)
    BY <1>3, <1>8, Fun_SurjectionProperties
  <2>3. Nodes \subseteq ToSet(q) => q \in Surjection(1 .. l, Nodes)
    <3>1. q \in [1 .. l -> Nodes] BY <1>5, Fun_InjectionProperties
    <3>2. ASSUME Nodes \subseteq ToSet(q) PROVE \A x \in Nodes : \E i \in 1 .. l : q[i] = x
      BY <1>3, <1>8, <3>2
    <3> QED BY <3>1, <3>2, Fun_IsSurj
  <2> QED BY <1>7, <1>8, <2>1, <2>2, <2>3
<1>10. ASSUME NEW x \in Nodes \ ToSet(q)
       PROVE  \E b \in Nodes \ ToSet(q) : b \in forward[x]
  <2>1. Taken(q, N) = ToSet(q)
    <3>1. \A i \in DOMAIN q : i <= N BY <1>1, <1>3, <1>7
    <3> QED BY <1>8, <3>1 DEF Taken
  <2>2. /\ Kahn[N].degree[x] = Cardinality(Blockers(x) \ ToSet(q))
        /\ Kahn[N].degree[x] = 0 <=> \E i \in DOMAIN q : q[i] = x
    BY <1>2, <2>1 DEF KahnFits
  <2>3. Cardinality(Blockers(x) \ ToSet(q)) # 0 BY <1>8, <2>2
  <2>4. Blockers(x) \ ToSet(q) # {} BY <2>3, FS_EmptySet
  <2> QED BY <2>4 DEF Blockers
<1> QED BY <1>3, <1>4, <1>8, <1>9, <1>10 DEF q, l

\* What a task is blocked by, and all upstream of that, is upstream of it.
LEMMA UpstreamOfBlocker ==
  ASSUME TypeOK, NEW t \in Task, NEW b \in forward[t]
  PROVE  b \in Upstream(t) /\ Upstream(b) \subseteq Upstream(t)
<1>1. b \in Task BY DEF TypeOK
<1>2. b \in Upstream(t) BY <1>1 DEF Upstream
<1>3. ASSUME NEW u \in Upstream(t) PROVE forward[u] \subseteq Upstream(t)
  <2>1. u \in Task BY DEF Upstream
  <2>2. forward[u] \subseteq Task BY <2>1 DEF TypeOK
  <2> SUFFICES ASSUME NEW v \in forward[u], NEW S \in SUBSET Task, forward[t] \subseteq S,
                      \A s \in S : forward[s] \subseteq S
               PROVE  v \in S
    BY <2>2 DEF Upstream
  <2>3. u \in S BY DEF Upstream
  <2> QED BY <2>3
<1>4. Upstream(t) \in SUBSET Task BY DEF Upstream
<1>5. Upstream(b) \subseteq Upstream(t) BY <1>2, <1>3, <1>4 DEF Upstream
<1> QED BY <1>2, <1>5

\* Tasks that all wait for one another contain one that waits for itself.
LEMMA StuckIsCyclic ==
  ASSUME TypeOK, NEW R \in SUBSET Nodes, R # {},
         \A x \in R : \E b \in R : b \in forward[x]
  PROVE  Cyclic
<1> SUFFICES ASSUME ~Cyclic PROVE FALSE OBVIOUS
<1>1. R \subseteq Task BY DEF Nodes
<1>2. \A t \in R : t \notin Upstream(t) BY DEF Cyclic
<1> DEFINE C == {n \in Nat : \E t \in R : n = Cardinality(Upstream(t))}
<1>3. ASSUME NEW t \in R
      PROVE  IsFiniteSet(Upstream(t)) /\ Cardinality(Upstream(t)) \in Nat
  <2>1. Upstream(t) \in SUBSET Task BY DEF Upstream
  <2>2. IsFiniteSet(Upstream(t)) BY <2>1, DagAssumption, FS_Subset
  <2> QED BY <2>2, FS_CardinalityType
<1>4. C \in SUBSET Nat /\ C # {} BY <1>3
<1>5. PICK m \in C : \A n \in C : m <= n BY <1>4, LeastNat
<1>6. PICK t \in R : m = Cardinality(Upstream(t)) OBVIOUS
<1>7. PICK b \in R : b \in forward[t] OBVIOUS
<1>8. b \in Upstream(t) /\ Upstream(b) \subseteq Upstream(t) /\ b \notin Upstream(b)
  BY <1>1, <1>2, <1>6, <1>7, UpstreamOfBlocker
<1>9. /\ Cardinality(Upstream(b)) <= Cardinality(Upstream(t))
      /\ Cardinality(Upstream(t)) # Cardinality(Upstream(b))
  BY <1>3, <1>8, FS_Subset
<1>10. Cardinality(Upstream(b)) \in C BY <1>3
<1> QED BY <1>3, <1>5, <1>6, <1>9, <1>10

\* A graph whose tasks were all sorted has no cycle.
LEMMA SortedIsAcyclic ==
  ASSUME Graph, ToSet(TopologicalSort) = Nodes
  PROVE  ~Cyclic
<1> DEFINE q == TopologicalSort
<1>1. /\ \A i, j \in DOMAIN q : q[i] = q[j] => i = j
      /\ \A j \in DOMAIN q : \A b \in Blockers(q[j]) : \E i \in DOMAIN q : i < j /\ q[i] = b
      /\ DOMAIN q \subseteq Int
  BY SortFits
<1> SUFFICES ASSUME NEW t \in Nodes, t \in Upstream(t) PROVE FALSE
  BY DEF Cyclic
<1>2. PICK j \in DOMAIN q : q[j] = t BY DEF ToSet
<1> HIDE DEF q
<1> DEFINE S == {u \in Task : u \in Nodes => \E i \in DOMAIN q : i < j /\ q[i] = u}
<1>3. \A x \in Task : forward[x] \subseteq Task BY DEF Graph, TypeOK
<1>4. forward[t] \subseteq S
  BY <1>1, <1>2, <1>3 DEF Blockers, Nodes
<1>5. ASSUME NEW s \in S, NEW u \in forward[s] PROVE u \in S
  <2>1. s \in Nodes
    BY DEF Graph, EdgesMirror, Nodes
  <2>2. PICK i \in DOMAIN q : i < j /\ q[i] = s BY <2>1
  <2>3. u \in Nodes => \E k \in DOMAIN q : k < i /\ q[k] = u BY <1>1, <2>2 DEF Blockers
  <2>4. \A k \in DOMAIN q : k < i => k < j BY <1>1, <2>2
  <2> QED BY <1>3, <2>3, <2>4
<1>6. t \in S
  <2>1. S \in SUBSET Task OBVIOUS
  <2> HIDE DEF S
  <2> QED BY <1>4, <1>5, <2>1 DEF Upstream
<1>7. PICK i \in DOMAIN q : i < j /\ q[i] = t BY <1>6
<1> QED BY <1>1, <1>2, <1>7

\* topologicalSort throws exactly for the cyclic graphs and otherwise lists every
\* task once, after all that it is blocked by, for every graph that adding,
\* removing and clearing can build and every order of its Maps and Sets.
THEOREM SortAlwaysTopological == Spec => []SortIsTopological
<1>1. Graph => SortIsTopological
  <2> SUFFICES ASSUME Graph PROVE SortIsTopological OBVIOUS
  <2> DEFINE q == TopologicalSort
  <2>1. /\ \A i, j \in DOMAIN q : q[i] = q[j] => i = j
        /\ \A j \in DOMAIN q : \A b \in Blockers(q[j]) : \E i \in DOMAIN q : i < j /\ q[i] = b
        /\ \A i \in DOMAIN q : q[i] \in Nodes
        /\ ToSet(q) \subseteq Nodes /\ (SortThrows <=> ToSet(q) # Nodes)
        /\ \A x \in Nodes \ ToSet(q) : \E b \in Nodes \ ToSet(q) : b \in forward[x]
    BY SortFits, ElementOfSeq
  <2>2. CASE Cyclic BY <2>1, <2>2, SortedIsAcyclic DEF SortIsTopological
  <2>3. CASE ~Cyclic
    <3>1. Nodes \ ToSet(q) = {}
      <4> HIDE DEF q
      <4> QED BY <2>1, <2>3, StuckIsCyclic DEF Graph
    <3>2. ToSet(q) = Nodes /\ ~SortThrows BY <2>1, <3>1
    <3>3. Respects(q)
      <4> HIDE DEF q
      <4> QED BY <2>1 DEF Respects, Blockers
    <3> QED BY <2>3, <3>2, <3>3 DEF SortIsTopological, IsOrderOf, SortThrows
  <2> QED BY <2>2, <2>3
<1> QED BY <1>1, DagTypeCorrect, EdgesAlwaysMirror, PTL DEF Graph

(***************************************************************************)
(* Loops of as many turns as there are tasks                               *)
(***************************************************************************)
LEMMA CountTo ==
  ASSUME NEW N \in Nat, NEW S \in SUBSET Nat, 0 \in S,
         \A n \in S : n < N => n + 1 \in S
  PROVE  0 .. N \subseteq S
<1> DEFINE R == {n \in Nat : n <= N => n \in S}
<1>1. 0 \in R OBVIOUS
<1>2. ASSUME NEW n \in R PROVE n + 1 \in R
  <2> SUFFICES ASSUME n + 1 <= N PROVE n + 1 \in S OBVIOUS
  <2>1. n \in S /\ n < N OBVIOUS
  <2> QED BY <2>1
<1>3. R = Nat
  <2> HIDE DEF R
  <2>1. R \in SUBSET Nat BY DEF R
  <2> QED BY <1>1, <1>2, <2>1, CountUp
<1> QED BY <1>3

\* A function that is defined by its value after no turn and by what a turn
\* makes of the value before it.
Steps(N, S) == [S \X (1 .. N) -> S]

Loops(g, N, S, b, step) ==
  g \in [0 .. N -> S] /\ g[0] = b /\ \A n \in 1 .. N : g[n] = step[<<g[n - 1], n>>]

LEMMA TurnsDefine ==
  ASSUME NEW N \in Nat, NEW S, NEW b \in S, NEW step \in Steps(N, S)
  PROVE  \E g : Loops(g, N, S, b, step)
<1> USE DEF Steps
<1> DEFINE Fits(g, m) == /\ g \in [0 .. N -> S]
                         /\ \A n \in 0 .. m : g[n] = IF n = 0 THEN b ELSE step[<<g[n - 1], n>>]
           R == {m \in Nat : m <= N => \E g : Fits(g, m)}
<1>1. 0 \in R
  <2>1. Fits([n \in 0 .. N |-> b], 0) OBVIOUS
  <2> QED BY <2>1
<1>2. ASSUME NEW m \in R, m < N PROVE m + 1 \in R
  <2>1. PICK g : Fits(g, m) BY <1>2
  <2> DEFINE h == [g EXCEPT ![m + 1] = step[<<g[m], m + 1>>]]
  <2>2. m \in 0 .. N /\ m + 1 \in 1 .. N /\ m + 1 \in 0 .. N BY <1>2
  <2>3. h \in [0 .. N -> S] /\ h[m + 1] = step[<<g[m], m + 1>>]
        /\ \A n \in 0 .. m : h[n] = g[n]
    BY <2>1, <2>2
  <2> HIDE DEF h
  <2>4. ASSUME NEW n \in 0 .. m + 1
        PROVE  h[n] = IF n = 0 THEN b ELSE step[<<h[n - 1], n>>]
    <3>1. CASE n = m + 1
      <4>1. n # 0 /\ n - 1 = m /\ m \in 0 .. m BY <2>2, <3>1
      <4> QED BY <2>3, <3>1, <4>1
    <3>2. CASE n \in 0 .. m
      <4>1. n # 0 => n - 1 \in 0 .. m BY <3>2
      <4>2. g[n] = IF n = 0 THEN b ELSE step[<<g[n - 1], n>>] BY <2>1, <3>2
      <4> QED BY <2>3, <3>2, <4>1, <4>2
    <3> QED BY <3>1, <3>2
  <2> QED BY <2>3, <2>4
<1>3. N \in R
  <2> HIDE DEF Fits
  <2>1. R \in SUBSET Nat OBVIOUS
  <2> HIDE DEF R
  <2> QED BY <1>1, <1>2, <2>1, CountTo
<1>4. PICK g : Fits(g, N) BY <1>3
<1>5. 0 \in 0 .. N /\ \A n \in 1 .. N : n \in 0 .. N /\ n # 0 OBVIOUS
<1> QED BY <1>4, <1>5 DEF Loops

\* What a sort that did not throw gives, by the place of each task in it.
Place(x) == CHOOSE i \in 1 .. Cardinality(Nodes) : TopologicalSort[i] = x

Sorted ==
  /\ Cardinality(Nodes) \in Nat
  /\ \A n \in 1 .. Cardinality(Nodes) :
         TopologicalSort[n] \in Nodes /\ Place(TopologicalSort[n]) = n
  /\ \A x \in Nodes : /\ Place(x) \in 1 .. Cardinality(Nodes)
                      /\ TopologicalSort[Place(x)] = x
                      /\ \A b \in Blockers(x) : Place(b) < Place(x)

LEMMA SortedPlaces == Graph /\ ~Cyclic => Sorted /\ ~SortThrows
<1> SUFFICES ASSUME Graph, ~Cyclic PROVE Sorted /\ ~SortThrows OBVIOUS
<1> DEFINE q == TopologicalSort
           N == Cardinality(Nodes)
<1>1. /\ q \in Seq(Nodes) /\ DOMAIN q = 1 .. Len(q)
      /\ \A i, j \in DOMAIN q : q[i] = q[j] => i = j
      /\ \A j \in DOMAIN q : \A b \in Blockers(q[j]) : \E i \in DOMAIN q : i < j /\ q[i] = b
      /\ ToSet(q) \subseteq Nodes /\ (SortThrows <=> ToSet(q) # Nodes)
      /\ \A x \in Nodes \ ToSet(q) : \E b \in Nodes \ ToSet(q) : b \in forward[x]
  BY SortFits
<1>2. Nodes \ ToSet(q) = {}
  <2> HIDE DEF q
  <2> QED BY <1>1, StuckIsCyclic DEF Graph
<1>3. ToSet(q) = Nodes /\ ~SortThrows BY <1>1, <1>2
<1>4. Len(q) = N BY <1>3 DEF SortThrows
<1>5. N \in Nat BY NodesFinite
<1> HIDE DEF q, N
<1>6. \A n \in 1 .. N : q[n] \in Nodes BY <1>1, <1>4, ElementOfSeq
<1>7. ASSUME NEW x \in Nodes PROVE Place(x) \in 1 .. N /\ q[Place(x)] = x
  <2>1. \E i \in 1 .. N : q[i] = x BY <1>1, <1>3, <1>4 DEF ToSet
  <2> QED BY <2>1 DEF Place, q, N
<1>8. \A n \in 1 .. N : Place(q[n]) = n
  <2> TAKE n \in 1 .. N
  <2>1. q[n] \in Nodes BY <1>6
  <2>2. Place(q[n]) \in 1 .. N /\ q[Place(q[n])] = q[n] BY <1>7, <2>1
  <2> QED BY <1>1, <1>4, <2>2
<1>9. ASSUME NEW x \in Nodes, NEW b \in Blockers(x) PROVE Place(b) < Place(x)
  <2>1. Place(x) \in 1 .. N /\ q[Place(x)] = x BY <1>7
  <2>2. PICK i \in 1 .. N : i < Place(x) /\ q[i] = b BY <1>1, <1>4, <2>1
  <2>3. Place(b) = i BY <1>8, <2>2
  <2> QED BY <2>2, <2>3
<1> QED BY <1>3, <1>5, <1>6, <1>7, <1>8, <1>9 DEF Sorted, q, N

LEMMA DependentsAre ==
  ASSUME Graph, NEW t \in Nodes
  PROVE  \A x \in Nodes : x \in Dependents(t) <=> t \in Blockers(x)
BY DEF Graph, EdgesMirror, Dependents, Blockers, Nodes

\* A finite set that is not empty has a least member in any strict order.
LEMMA HasLeast ==
  ASSUME NEW S, IsFiniteSet(S), S # {}, NEW R,
         \A x \in S : <<x, x>> \notin R,
         \A x, y, z \in S : <<x, y>> \in R /\ <<y, z>> \in R => <<x, z>> \in R
  PROVE  \E m \in S : \A x \in S : <<x, m>> \notin R
<1> DEFINE Below(x) == {y \in S : <<y, x>> \in R}
           C == {n \in Nat : \E x \in S : n = Cardinality(Below(x))}
<1>1. ASSUME NEW x \in S
      PROVE  IsFiniteSet(Below(x)) /\ Cardinality(Below(x)) \in Nat
  BY FS_Subset, FS_CardinalityType
<1>2. C \in SUBSET Nat /\ C # {}
  <2>1. PICK x \in S : TRUE OBVIOUS
  <2>2. Cardinality(Below(x)) \in C BY <1>1
  <2> QED BY <2>2
<1>3. PICK c \in C : \A n \in C : c <= n
  <2> HIDE DEF C
  <2> QED BY <1>2, LeastNat
<1>4. PICK m \in S : c = Cardinality(Below(m)) OBVIOUS
<1>5. ASSUME NEW x \in S, <<x, m>> \in R PROVE FALSE
  <2>1. Below(x) \subseteq Below(m) BY <1>5
  <2>2. x \in Below(m) /\ x \notin Below(x) BY <1>5
  <2>3. Below(x) # Below(m) BY <2>2
  <2>4. Cardinality(Below(x)) \in C BY <1>1
  <2>5. c <= Cardinality(Below(x)) BY <1>3, <2>4
  <2> HIDE DEF Below, C
  <2>6. /\ Cardinality(Below(x)) <= Cardinality(Below(m))
        /\ Cardinality(Below(x)) # Cardinality(Below(m))
    BY <1>1, <2>1, <2>3, FS_Subset
  <2> QED BY <1>1, <1>4, <2>5, <2>6
<1> QED BY <1>5

LEMMA HighestIs ==
  ASSUME NEW S \in SUBSET Nat, IsFiniteSet(S)
  PROVE  Highest(S) \in Nat /\ Highest(S) \in S \cup {0} /\ \A y \in S : y <= Highest(S)
<1>1. \E x \in S \cup {0} : \A y \in S : y <= x
  <2>1. CASE S = {} BY <2>1
  <2>2. CASE S # {}
    <3> DEFINE R == {p \in S \X S : p[1] > p[2]}
    <3>1. \A x, y \in S : <<x, y>> \in R <=> x > y OBVIOUS
    <3> HIDE DEF R
    <3>2. \A x \in S : <<x, x>> \notin R BY <3>1
    <3>3. \A x, y, z \in S : <<x, y>> \in R /\ <<y, z>> \in R => <<x, z>> \in R BY <3>1
    <3>4. PICK m \in S : \A x \in S : <<x, m>> \notin R BY <2>2, <3>2, <3>3, HasLeast
    <3>5. \A x \in S : ~(x > m) BY <3>1, <3>4
    <3>6. m \in Nat /\ \A x \in S : x \in Nat OBVIOUS
    <3>7. \A x \in S : x <= m BY <3>5, <3>6
    <3> QED BY <3>7
  <2> QED BY <2>1, <2>2
<1>2. Highest(S) \in S \cup {0} /\ \A y \in S : y <= Highest(S)
  BY <1>1 DEF Highest
<1>3. S \cup {0} \subseteq Nat OBVIOUS
<1>4. Highest(S) \in Nat BY <1>2, <1>3
<1> QED BY <1>2, <1>4

(***************************************************************************)
(* getScheduleOrder                                                        *)
(***************************************************************************)
LEMMA LevelAfterIs ==
  ASSUME NEW l \in [Nodes -> Nat], NEW t \in Nodes
  PROVE  /\ LevelAfter(l, t) \in [Nodes -> Nat]
         /\ \A x \in Nodes \ {t} : LevelAfter(l, t)[x] = l[x]
         /\ \A b \in Blockers(t) : l[b] < LevelAfter(l, t)[t]
         /\ LevelAfter(l, t)[t] = 1 \/ \E b \in Blockers(t) : LevelAfter(l, t)[t] = l[b] + 1
<1> DEFINE S == {l[b] : b \in Blockers(t)}
<1>1. S \in SUBSET Nat BY DEF Blockers
<1>2. IsFiniteSet(S)
  <2>1. IsFiniteSet(Blockers(t)) BY NodesFinite DEF Blockers
  <2> DEFINE f == [b \in Blockers(t) |-> l[b]]
  <2>2. f \in [Blockers(t) -> S] /\ \A y \in S : \E b \in Blockers(t) : f[b] = y OBVIOUS
  <2> HIDE DEF f, S
  <2>3. f \in Surjection(Blockers(t), S) BY <2>2, Fun_IsSurj
  <2> QED BY <2>1, <2>3, FS_Surjection
<1>3. Highest(S) \in Nat /\ Highest(S) \in S \cup {0} /\ \A y \in S : y <= Highest(S)
  BY <1>1, <1>2, HighestIs
<1>4. LevelAfter(l, t) = [l EXCEPT ![t] = Highest(S) + 1] BY DEF LevelAfter, Blockers
<1>5. \A b \in Blockers(t) : l[b] \in S /\ l[b] \in Nat BY <1>1
<1>6. Highest(S) = 0 \/ \E b \in Blockers(t) : Highest(S) = l[b] BY <1>3
<1> HIDE DEF S
<1> QED BY <1>3, <1>4, <1>5, <1>6

LEMMA LevelledDef ==
  ASSUME Sorted
  PROVE  /\ Levelled \in [Turns -> [Nodes -> Nat]]
         /\ Levelled[0] = [t \in Nodes |-> 0]
         /\ \A n \in 1 .. Cardinality(Nodes) :
                Levelled[n] = LevelAfter(Levelled[n - 1], TopologicalSort[n])
<1> DEFINE N == Cardinality(Nodes)
           S == [Nodes -> Nat]
           b == [t \in Nodes |-> 0]
           step == [p \in S \X (1 .. N) |-> LevelAfter(p[1], TopologicalSort[p[2]])]
           Fits(g) == g = [n \in Turns |-> IF n = 0 THEN b
                                           ELSE LevelAfter(g[n - 1], TopologicalSort[n])]
<1>1. N \in Nat /\ \A n \in 1 .. N : TopologicalSort[n] \in Nodes BY DEF Sorted
<1>2. b \in S OBVIOUS
<1> HIDE DEF b
<1>3. step \in [S \X (1 .. N) -> S]
  <2>1. ASSUME NEW l \in S, NEW n \in 1 .. N PROVE LevelAfter(l, TopologicalSort[n]) \in S
    BY <1>1, LevelAfterIs
  <2> HIDE DEF S, N
  <2> QED BY <2>1
<1>4. \A l \in S, n \in 1 .. N : step[<<l, n>>] = LevelAfter(l, TopologicalSort[n])
  OBVIOUS
<1>5. Turns = 0 .. N BY DEF Turns
<1> HIDE DEF S, step, N
<1>6. step \in Steps(N, S) BY <1>3 DEF Steps
<1>7. PICK g : Loops(g, N, S, b, step) BY <1>1, <1>2, <1>6, TurnsDefine
<1>8. g \in [0 .. N -> S] /\ g[0] = b /\ \A n \in 1 .. N : g[n] = step[<<g[n - 1], n>>]
  BY <1>7 DEF Loops
<1>9. ASSUME NEW n \in 0 .. N
      PROVE  g[n] = IF n = 0 THEN b ELSE LevelAfter(g[n - 1], TopologicalSort[n])
  <2>1. n # 0 => n - 1 \in 0 .. N /\ n \in 1 .. N BY <1>1
  <2>2. n # 0 => g[n - 1] \in S /\ g[n] = step[<<g[n - 1], n>>] BY <1>8, <2>1
  <2> QED BY <1>4, <1>8, <2>1, <2>2
<1>10. Fits(g) BY <1>8, <1>9, <1>5
<1>11. Levelled = CHOOSE h : Fits(h) BY DEF Levelled, b
<1>12. Fits(Levelled)
  <2> HIDE DEF Fits
  <2> QED BY <1>10, <1>11
<1>13. \A n \in Turns : Levelled[n] = IF n = 0 THEN b
                                      ELSE LevelAfter(Levelled[n - 1], TopologicalSort[n])
  BY <1>12
<1>14. Levelled \in [Turns -> S]
  <2> DEFINE R == {n \in Nat : n <= N => Levelled[n] \in S}
  <2>1. 0 \in R BY <1>1, <1>2, <1>13, <1>5
  <2>2. ASSUME NEW n \in R, n < N PROVE n + 1 \in R
    <3>1. Levelled[n] \in S BY <1>1, <2>2
    <3>2. n + 1 \in Turns /\ n + 1 \in 1 .. N /\ n + 1 # 0 /\ n + 1 - 1 = n BY <1>1, <1>5, <2>2
    <3>3. Levelled[n + 1] = LevelAfter(Levelled[n], TopologicalSort[n + 1]) BY <1>13, <3>2
    <3>4. step[<<Levelled[n], n + 1>>] \in S BY <1>3, <3>1, <3>2
    <3> QED BY <1>4, <3>1, <3>2, <3>3, <3>4
  <2>3. 0 .. N \subseteq R
    <3>1. R \in SUBSET Nat OBVIOUS
    <3> HIDE DEF R
    <3> QED BY <1>1, <2>1, <2>2, <3>1, CountTo
  <2>4. \A n \in Turns : Levelled[n] \in S BY <1>1, <2>3, <1>5
  <2>5. Levelled = [n \in Turns |-> Levelled[n]] BY <1>12
  <2> QED BY <2>4, <2>5
<1>15. 0 \in Turns /\ \A n \in 1 .. N : n \in Turns /\ n # 0 BY <1>1, <1>5
<1> QED BY <1>13, <1>14, <1>15 DEF b, S, N

\* A level is at most the place in the sort, and higher than the blockers' levels.
LevelsFit(l, n) ==
  \A x \in Nodes : Place(x) <= n =>
      l[x] \in 1 .. Place(x) /\ \A b \in Blockers(x) : l[b] < l[x]

LEMMA LevelsRise ==
  ASSUME Sorted
  PROVE  LevelsFit(Levelled[Cardinality(Nodes)], Cardinality(Nodes))
<1> DEFINE N == Cardinality(Nodes)
           R == {n \in Nat : n <= N => LevelsFit(Levelled[n], n)}
<1>1. N \in Nat /\ \A x \in Nodes : Place(x) \in 1 .. N BY DEF Sorted
<1>2. 0 \in R BY <1>1 DEF LevelsFit
<1>3. ASSUME NEW n \in R, n < N PROVE n + 1 \in R
  <2> DEFINE t == TopologicalSort[n + 1]
             l == Levelled[n]
             m == LevelAfter(l, t)
  <2>1. n \in Nat /\ n + 1 \in 1 .. N /\ n + 1 - 1 = n /\ n \in Turns
    BY <1>1, <1>3 DEF Turns
  <2>2. Levelled[n + 1] = m /\ l \in [Nodes -> Nat] BY <2>1, LevelledDef
  <2>3. t \in Nodes /\ Place(t) = n + 1 BY <2>1 DEF Sorted
  <2>4. LevelsFit(l, n) BY <1>1, <1>3, <2>1
  <2> HIDE DEF l, t
  <2>5. /\ m \in [Nodes -> Nat]
        /\ \A x \in Nodes \ {t} : m[x] = l[x]
        /\ \A b \in Blockers(t) : l[b] < m[t]
        /\ m[t] = 1 \/ \E b \in Blockers(t) : m[t] = l[b] + 1
    BY <2>2, <2>3, LevelAfterIs
  <2> HIDE DEF m
  <2>6. ASSUME NEW x \in Nodes, Place(x) <= n + 1
        PROVE  m[x] \in 1 .. Place(x) /\ \A b \in Blockers(x) : m[b] < m[x]
    <3>1. \A b \in Blockers(x) : b \in Nodes /\ Place(b) < Place(x) /\ Place(b) \in Nat /\ b # x
      BY <1>1 DEF Sorted, Blockers
    <3>2. \A b \in Blockers(x) : m[b] = l[b] /\ l[b] \in Nat
      BY <2>1, <2>2, <2>3, <2>5, <2>6, <3>1, <1>1
    <3>3. CASE x = t
      <4>1. \A b \in Blockers(t) : l[b] <= Place(b) /\ Place(b) < n + 1
        BY <1>1, <2>1, <2>3, <2>4, <3>1, <3>3 DEF LevelsFit
      <4>2. m[t] \in 1 .. n + 1
        BY <2>1, <2>3, <2>5, <3>1, <3>2, <3>3, <4>1
      <4> QED BY <2>3, <2>5, <3>2, <3>3, <4>2
    <3>4. CASE x # t
      <4>1. Place(x) <= n
        <5>1. Place(x) # n + 1 BY <2>1, <2>3, <2>6, <3>4, <1>1 DEF Sorted, t
        <5> QED BY <1>1, <2>1, <2>6, <5>1
      <4>2. l[x] \in 1 .. Place(x) /\ \A b \in Blockers(x) : l[b] < l[x]
        BY <2>4, <4>1 DEF LevelsFit
      <4>3. m[x] = l[x] BY <2>5, <3>4
      <4> QED BY <3>2, <4>2, <4>3
    <3> QED BY <3>3, <3>4
  <2>7. LevelsFit(m, n + 1) BY <2>6 DEF LevelsFit
  <2> QED BY <2>1, <2>2, <2>7
<1>4. 0 .. N \subseteq R
  <2>1. R \in SUBSET Nat OBVIOUS
  <2> HIDE DEF R, N
  <2> QED BY <1>1, <1>2, <1>3, <2>1, CountTo
<1>5. N \in R BY <1>1, <1>4
<1> QED BY <1>1, <1>5

LEMMA BeforeIsStrict ==
  ASSUME TypeOK
  PROVE  /\ \A x \in Nodes : ~Before(x, x)
         /\ \A x, y, z \in Nodes : Before(x, y) /\ Before(y, z) => Before(x, z)
<1> DEFINE p(x) == PriorityOf[x]
           c(x) == Cardinality(blocks[x])
<1>1. ASSUME NEW x \in Nodes PROVE p(x) \in Nat /\ c(x) \in Nat
  <2>1. x \in Task BY DEF Nodes
  <2>2. p(x) \in Nat BY <2>1, DagAssumption DEF DagAssumption
  <2>3. blocks[x] \in SUBSET Task BY <2>1 DEF TypeOK
  <2>4. c(x) \in Nat BY <2>3, DagAssumption, FS_Subset, FS_CardinalityType DEF DagAssumption
  <2> QED BY <2>2, <2>4
<1>2. \A x, y : Before(x, y) <=> p(x) < p(y) \/ (p(x) = p(y) /\ c(x) > c(y))
  BY DEF Before
<1> HIDE DEF p, c
<1> QED BY <1>1, <1>2

\* A set as a sequence in which nothing comes after what it goes before.
InOrder(q, S) ==
  /\ q \in [1 .. Cardinality(S) -> S]
  /\ \A i, j \in 1 .. Cardinality(S) : i # j => q[i] # q[j]
  /\ \A i, j \in 1 .. Cardinality(S) : i < j => ~Before(q[j], q[i])

LEMMA CanBeSorted ==
  ASSUME TypeOK, NEW S \in SUBSET Nodes
  PROVE  \E q : InOrder(q, S)
<1> DEFINE R == {n \in Nat : \A T \in SUBSET Nodes : Cardinality(T) = n => \E q : InOrder(q, T)}
<1>1. 0 \in R
  <2> SUFFICES ASSUME NEW T \in SUBSET Nodes, Cardinality(T) = 0 PROVE \E q : InOrder(q, T)
    OBVIOUS
  <2> DEFINE q == [i \in 1 .. 0 |-> i]
  <2>1. InOrder(q, T) BY DEF InOrder
  <2> QED BY <2>1
<1>2. ASSUME NEW n \in R PROVE n + 1 \in R
  <2> SUFFICES ASSUME NEW T \in SUBSET Nodes, Cardinality(T) = n + 1
               PROVE  \E q : InOrder(q, T)
    OBVIOUS
  <2>1. n \in Nat /\ IsFiniteSet(T) /\ T # {} BY NodesFinite
  <2> DEFINE B == {p \in T \X T : Before(p[1], p[2])}
  <2>2. \A x, y \in T : <<x, y>> \in B <=> Before(x, y) OBVIOUS
  <2>3. PICK m \in T : \A x \in T : ~Before(x, m)
    <3> HIDE DEF B
    <3>1. \A x \in T : <<x, x>> \notin B BY <2>2, BeforeIsStrict
    <3>2. \A x, y, z \in T : <<x, y>> \in B /\ <<y, z>> \in B => <<x, z>> \in B
      BY <2>2, BeforeIsStrict
    <3>3. \E m \in T : \A x \in T : <<x, m>> \notin B BY <2>1, <3>1, <3>2, HasLeast
    <3> QED BY <2>2, <3>3
  <2>4. Cardinality(T \ {m}) = n BY <2>1, FS_RemoveElement
  <2>5. PICK q : InOrder(q, T \ {m}) BY <2>4
  <2> DEFINE r == [i \in 1 .. n + 1 |-> IF i = 1 THEN m ELSE q[i - 1]]
  <2>6. /\ \A i \in 1 .. n : q[i] \in T \ {m}
        /\ \A i, j \in 1 .. n : i # j => q[i] # q[j]
        /\ \A i, j \in 1 .. n : i < j => ~Before(q[j], q[i])
    BY <2>4, <2>5 DEF InOrder
  <2>7. ASSUME NEW i \in 1 .. n + 1
        PROVE  (i = 1 /\ r[i] = m) \/ (i - 1 \in 1 .. n /\ r[i] = q[i - 1])
    BY <2>1
  <2>8. DOMAIN r = 1 .. n + 1 /\ r = [i \in 1 .. n + 1 |-> r[i]] OBVIOUS
  <2> HIDE DEF r
  <2>9. \A i \in 1 .. n + 1 : r[i] \in T BY <2>6, <2>7
  <2>10. ASSUME NEW i \in 1 .. n + 1, NEW j \in 1 .. n + 1, i < j
         PROVE  r[i] # r[j] /\ ~Before(r[j], r[i])
    <3>1. j - 1 \in 1 .. n /\ r[j] = q[j - 1] BY <2>1, <2>7, <2>10
    <3>2. CASE i = 1 /\ r[i] = m BY <2>3, <2>6, <3>1, <3>2
    <3>3. CASE i - 1 \in 1 .. n /\ r[i] = q[i - 1]
      <4>1. i - 1 < j - 1 /\ i - 1 # j - 1 BY <2>10
      <4> QED BY <2>6, <3>1, <3>3, <4>1
    <3> QED BY <2>7, <3>2, <3>3
  <2>11. \A i, j \in 1 .. n + 1 : i # j => r[i] # r[j]
    <3> SUFFICES ASSUME NEW i \in 1 .. n + 1, NEW j \in 1 .. n + 1, i # j PROVE r[i] # r[j]
      OBVIOUS
    <3>1. i < j \/ j < i BY <2>1
    <3> QED BY <2>10, <3>1
  <2>12. r \in [1 .. n + 1 -> T] BY <2>8, <2>9
  <2>13. InOrder(r, T) BY <2>10, <2>11, <2>12 DEF InOrder
  <2> QED BY <2>13
<1>3. R = Nat
  <2>1. R \in SUBSET Nat OBVIOUS
  <2> HIDE DEF R
  <2> QED BY <1>1, <1>2, <2>1, CountUp
<1>4. Cardinality(S) \in Nat BY NodesFinite
<1>5. Cardinality(S) \in R BY <1>3, <1>4
<1> QED BY <1>5

LEMMA SortIsOrder ==
  ASSUME TypeOK, NEW S \in SUBSET Nodes
  PROVE  /\ SortByPriority(S) \in Seq(Nodes) /\ Len(SortByPriority(S)) \in Nat
         /\ DOMAIN SortByPriority(S) = 1 .. Len(SortByPriority(S))
         /\ \A i, j \in DOMAIN SortByPriority(S) :
                SortByPriority(S)[i] = SortByPriority(S)[j] => i = j
         /\ \A i \in DOMAIN SortByPriority(S) : SortByPriority(S)[i] \in S
         /\ \A x \in S : \E i \in DOMAIN SortByPriority(S) : SortByPriority(S)[i] = x
<1> DEFINE n == Cardinality(S)
           q == SortByPriority(S)
<1>1. IsFiniteSet(S) /\ n \in Nat BY NodesFinite
<1>2. PICK p : InOrder(p, S) BY CanBeSorted
<1>3. p \in SetToSeqs(S) /\ \A i, j \in DOMAIN p : i < j => ~Before(p[j], p[i])
  BY <1>2 DEF InOrder, SetToSeqs
<1>4. q \in SetToSeqs(S) BY <1>3 DEF SortByPriority
<1> HIDE DEF q
<1>5. q \in [1 .. n -> S] /\ \A i, j \in 1 .. n : i # j => q[i] # q[j]
  BY <1>4 DEF SetToSeqs
<1> HIDE DEF n
<1>6. q \in Injection(1 .. n, S) BY <1>5, Fun_IsInj
<1>7. IsFiniteSet(1 .. n) /\ Cardinality(1 .. n) = n BY <1>1, FS_Interval
<1>8. q \in Surjection(1 .. n, S) BY <1>1, <1>6, <1>7, FS_Injection DEF n
<1>9. q \in [1 .. n -> Nodes] BY <1>5
<1>10. q \in Seq(Nodes) BY <1>1, <1>9, SeqDef
<1>11. Len(q) = n /\ DOMAIN q = 1 .. Len(q) BY <1>1, <1>5, <1>10, LenProperties
<1>12. DOMAIN q = 1 .. n /\ DOMAIN q = 1 .. Len(q) BY <1>5, <1>11
<1>13. \A x \in S : \E i \in DOMAIN q : q[i] = x
  BY <1>8, <1>12 DEF Surjection
<1> QED BY <1>1, <1>5, <1>10, <1>11, <1>13 DEF q

LEMMA InLevelsDef ==
  ASSUME TypeOK
  PROVE  /\ \A n \in Turns : InLevels[n] \in Seq(Nodes)
         /\ InLevels[0] = <<>>
         /\ \A n \in 1 .. Cardinality(Nodes) :
                InLevels[n] = InLevels[n - 1] \o SortByPriority(AtLevel(n))
<1> DEFINE N == Cardinality(Nodes)
           S == Seq(Nodes)
           Push(q, n) == q \o SortByPriority(AtLevel(n))
           step == [p \in S \X (1 .. N) |-> Push(p[1], p[2])]
           Fits(g) == g = [n \in Turns |-> IF n = 0 THEN <<>>
                                           ELSE Push(g[n - 1], n)]
<1>1. N \in Nat /\ Turns = 0 .. N BY NodesFinite DEF Turns
<1>2. <<>> \in S OBVIOUS
<1>3. ASSUME NEW l \in S, NEW n \in 1 .. N PROVE Push(l, n) \in S
  <2>1. AtLevel(n) \in SUBSET Nodes BY DEF AtLevel
  <2>2. SortByPriority(AtLevel(n)) \in Seq(Nodes) BY <2>1, SortIsOrder
  <2> QED BY <2>2, ConcatProperties
<1>4. step \in Steps(N, S)
  <2> HIDE DEF S, N, Push
  <2> QED BY <1>3 DEF Steps
<1>5. \A l \in S, n \in 1 .. N : step[<<l, n>>] = Push(l, n)
  OBVIOUS
<1> HIDE DEF S, step, N, Push
<1>6. PICK g : Loops(g, N, S, <<>>, step) BY <1>1, <1>2, <1>4, TurnsDefine
<1>7. g \in [0 .. N -> S] /\ g[0] = <<>> /\ \A n \in 1 .. N : g[n] = step[<<g[n - 1], n>>]
  BY <1>6 DEF Loops
<1>8. ASSUME NEW n \in 0 .. N
      PROVE  g[n] = IF n = 0 THEN <<>> ELSE Push(g[n - 1], n)
  <2>1. n # 0 => n - 1 \in 0 .. N /\ n \in 1 .. N BY <1>1
  <2>2. n # 0 => g[n - 1] \in S /\ g[n] = step[<<g[n - 1], n>>] BY <1>7, <2>1
  <2> QED BY <1>5, <1>7, <2>1, <2>2
<1>9. Fits(g) BY <1>1, <1>7, <1>8
<1>10. InLevels = CHOOSE h : Fits(h) BY DEF InLevels, Push
<1>11. Fits(InLevels)
  <2> HIDE DEF Fits
  <2> QED BY <1>9, <1>10
<1>12. \A n \in Turns : InLevels[n] = IF n = 0 THEN <<>>
                                      ELSE Push(InLevels[n - 1], n)
  BY <1>11
<1>13. \A n \in 1 .. N : n \in Turns /\ n # 0 /\ 0 \in Turns BY <1>1
<1>14. \A n \in Turns : InLevels[n] \in S
  <2> DEFINE R == {n \in Nat : n <= N => InLevels[n] \in S}
  <2>1. 0 \in R BY <1>1, <1>2, <1>12
  <2>2. ASSUME NEW n \in R, n < N PROVE n + 1 \in R
    <3>1. InLevels[n] \in S BY <1>1, <2>2
    <3>2. n + 1 \in Turns /\ n + 1 \in 1 .. N /\ n + 1 # 0 /\ n + 1 - 1 = n BY <1>1, <2>2
    <3>3. InLevels[n + 1] = Push(InLevels[n], n + 1) BY <1>12, <3>2
    <3> QED BY <1>3, <3>1, <3>2, <3>3
  <2>3. 0 .. N \subseteq R
    <3>1. R \in SUBSET Nat OBVIOUS
    <3> HIDE DEF R
    <3> QED BY <1>1, <2>1, <2>2, <3>1, CountTo
  <2> QED BY <1>1, <2>3
<1>15. 0 \in Turns BY <1>1
<1> QED BY <1>12, <1>13, <1>14, <1>15 DEF S, N, Push

\* After n levels the sequence has the tasks of these levels, once each, and the
\* levels do not fall.
LevelsListed(q, l, n) ==
  /\ \A i, j \in DOMAIN q : q[i] = q[j] => i = j
  /\ \A i \in DOMAIN q : l[q[i]] \in 1 .. n
  /\ \A x \in Nodes : l[x] \in 1 .. n => \E i \in DOMAIN q : q[i] = x
  /\ \A i, j \in DOMAIN q : i < j => l[q[i]] <= l[q[j]]

LEMMA LevelListed ==
  ASSUME NEW l \in [Nodes -> Nat], NEW n \in Nat, NEW q \in Seq(Nodes), LevelsListed(q, l, n),
         NEW s \in Seq(Nodes), \A i, j \in DOMAIN s : s[i] = s[j] => i = j,
         \A i \in DOMAIN s : l[s[i]] = n + 1,
         \A x \in Nodes : l[x] = n + 1 => \E i \in DOMAIN s : s[i] = x
  PROVE  LevelsListed(q \o s, l, n + 1)
<1> DEFINE r == q \o s
           a == Len(q)
           b == Len(s)
<1>1. /\ a \in Nat /\ b \in Nat /\ DOMAIN q = 1 .. a /\ DOMAIN s = 1 .. b
      /\ \A i \in 1 .. a : q[i] \in Nodes
      /\ \A i \in 1 .. b : s[i] \in Nodes
  BY LenProperties, ElementOfSeq
<1>2. /\ r \in Seq(Nodes) /\ Len(r) = a + b
      /\ \A i \in 1 .. a + b : r[i] = IF i <= a THEN q[i] ELSE s[i - a]
  BY ConcatProperties
<1>3. DOMAIN r = 1 .. a + b BY <1>2, LenProperties
<1> HIDE DEF r, a, b
<1>4. /\ \A i, j \in 1 .. a : q[i] = q[j] => i = j
      /\ \A i \in 1 .. a : l[q[i]] \in 1 .. n
      /\ \A x \in Nodes : l[x] \in 1 .. n => \E i \in 1 .. a : q[i] = x
      /\ \A i, j \in 1 .. a : i < j => l[q[i]] <= l[q[j]]
  BY <1>1 DEF LevelsListed
<1>5. /\ \A i, j \in 1 .. b : s[i] = s[j] => i = j
      /\ \A i \in 1 .. b : l[s[i]] = n + 1
      /\ \A x \in Nodes : l[x] = n + 1 => \E i \in 1 .. b : s[i] = x
  BY <1>1
<1>6. ASSUME NEW i \in 1 .. a + b
      PROVE  \/ i \in 1 .. a /\ r[i] = q[i] /\ l[r[i]] \in 1 .. n
             \/ i - a \in 1 .. b /\ i > a /\ r[i] = s[i - a] /\ l[r[i]] = n + 1
  <2>1. CASE i <= a
    <3>1. i \in 1 .. a /\ r[i] = q[i] BY <1>1, <1>2, <2>1
    <3> QED BY <1>4, <3>1
  <2>2. CASE i > a
    <3>1. i - a \in 1 .. b /\ r[i] = s[i - a] BY <1>1, <1>2, <2>2
    <3> QED BY <1>5, <2>2, <3>1
  <2> QED BY <1>1, <2>1, <2>2
<1>7. ASSUME NEW i \in 1 .. a + b, NEW j \in 1 .. a + b, r[i] = r[j] PROVE i = j
  <2>1. CASE i \in 1 .. a /\ r[i] = q[i] /\ l[r[i]] \in 1 .. n
    <3>1. j \in 1 .. a /\ r[j] = q[j]
      <4>1. l[r[j]] # n + 1 BY <1>7, <2>1
      <4> QED BY <1>6, <4>1
    <3> QED BY <1>4, <1>7, <2>1, <3>1
  <2>2. CASE i - a \in 1 .. b /\ i > a /\ r[i] = s[i - a] /\ l[r[i]] = n + 1
    <3>1. j - a \in 1 .. b /\ r[j] = s[j - a]
      <4>1. l[r[j]] \notin 1 .. n BY <1>7, <2>2
      <4> QED BY <1>6, <4>1
    <3>2. s[i - a] = s[j - a] BY <1>7, <2>2, <3>1
    <3>3. i - a = j - a BY <1>5, <2>2, <3>1, <3>2
    <3> QED BY <1>1, <3>3
  <2> QED BY <1>6, <2>1, <2>2
<1>8. \A i \in 1 .. a + b : l[r[i]] \in 1 .. n + 1 BY <1>6
<1>9. ASSUME NEW x \in Nodes, l[x] \in 1 .. n + 1 PROVE \E i \in 1 .. a + b : r[i] = x
  <2>1. CASE l[x] = n + 1
    <3>1. PICK k \in 1 .. b : s[k] = x BY <1>5, <2>1
    <3> DEFINE i == a + k
    <3>2. i \in 1 .. a + b /\ ~(i <= a) /\ i - a = k BY <1>1
    <3> HIDE DEF i
    <3>3. r[i] = s[i - a] BY <1>2, <3>2
    <3> QED BY <3>1, <3>2, <3>3
  <2>2. CASE l[x] \in 1 .. n
    <3>1. PICK k \in 1 .. a : q[k] = x BY <1>4, <2>2
    <3>2. k \in 1 .. a + b /\ k <= a BY <1>1
    <3>3. r[k] = x BY <1>2, <3>1, <3>2
    <3> QED BY <3>2, <3>3
  <2> QED BY <1>9, <2>1, <2>2
<1>10. ASSUME NEW i \in 1 .. a + b, NEW j \in 1 .. a + b, i < j PROVE l[r[i]] <= l[r[j]]
  <2>1. CASE i \in 1 .. a /\ r[i] = q[i] /\ l[r[i]] \in 1 .. n
    <3>1. CASE j \in 1 .. a /\ r[j] = q[j]
      BY <1>4, <1>10, <2>1, <3>1
    <3>2. CASE l[r[j]] = n + 1 BY <2>1, <3>2
    <3> QED BY <1>6, <3>1, <3>2
  <2>2. CASE i > a /\ l[r[i]] = n + 1
    <3>1. l[r[j]] = n + 1 BY <1>1, <1>6, <1>10, <2>2
    <3> QED BY <2>2, <3>1
  <2> QED BY <1>6, <2>1, <2>2
<1> QED BY <1>3, <1>7, <1>8, <1>9, <1>10 DEF LevelsListed, r

LEMMA AllLevelsListed ==
  ASSUME TypeOK, Sorted
  PROVE  LevelsListed(InLevels[Cardinality(Nodes)], Levelled[Cardinality(Nodes)],
                      Cardinality(Nodes))
<1> DEFINE N == Cardinality(Nodes)
           l == Levelled[N]
           R == {n \in Nat : n <= N => LevelsListed(InLevels[n], l, n)}
<1>1. N \in Nat /\ N \in Turns BY NodesFinite DEF Turns
<1>2. l \in [Nodes -> Nat] BY <1>1, LevelledDef
<1>3. \A n : AtLevel(n) = {x \in Nodes : l[x] = n} BY DEF AtLevel
<1> HIDE DEF l
<1>4. 0 \in R
  <2>1. InLevels[0] = <<>> BY InLevelsDef
  <2>2. LevelsListed(<<>>, l, 0) BY DEF LevelsListed
  <2> QED BY <2>1, <2>2
<1>5. ASSUME NEW n \in R, n < N PROVE n + 1 \in R
  <2> DEFINE s == SortByPriority(AtLevel(n + 1))
             q == InLevels[n]
  <2>1. n \in Nat /\ n + 1 \in 1 .. N /\ n + 1 - 1 = n /\ n \in Turns
    BY <1>1, <1>5 DEF Turns
  <2>2. InLevels[n + 1] = q \o s /\ q \in Seq(Nodes)
    <3> DEFINE m == n + 1
    <3>1. m \in 1 .. N /\ m - 1 = n BY <2>1
    <3> HIDE DEF m
    <3>2. InLevels[m] = InLevels[m - 1] \o SortByPriority(AtLevel(m)) BY <3>1, InLevelsDef
    <3>3. InLevels[m] = q \o SortByPriority(AtLevel(m)) BY <3>1, <3>2
    <3>4. q \in Seq(Nodes) BY <2>1, InLevelsDef
    <3> QED BY <3>3, <3>4 DEF m, s
  <2>3. LevelsListed(q, l, n) BY <1>1, <1>5, <2>1
  <2>4. AtLevel(n + 1) \in SUBSET Nodes BY DEF AtLevel
  <2>5. /\ s \in Seq(Nodes)
        /\ \A i, j \in DOMAIN s : s[i] = s[j] => i = j
        /\ \A i \in DOMAIN s : s[i] \in AtLevel(n + 1)
        /\ \A x \in AtLevel(n + 1) : \E i \in DOMAIN s : s[i] = x
    BY <2>4, SortIsOrder
  <2> HIDE DEF s, q
  <2>6. /\ \A i \in DOMAIN s : l[s[i]] = n + 1
        /\ \A x \in Nodes : l[x] = n + 1 => \E i \in DOMAIN s : s[i] = x
    BY <1>3, <2>5
  <2>7. LevelsListed(q \o s, l, n + 1)
    BY <1>2, <2>1, <2>2, <2>3, <2>5, <2>6, LevelListed
  <2>8. LevelsListed(InLevels[n + 1], l, n + 1) BY <2>2, <2>7
  <2> QED BY <2>1, <2>8
<1>6. 0 .. N \subseteq R
  <2>1. R \in SUBSET Nat OBVIOUS
  <2> HIDE DEF R, N
  <2> QED BY <1>1, <1>4, <1>5, <2>1, CountTo
<1>7. N \in R BY <1>1, <1>6
<1> QED BY <1>1, <1>7 DEF l

\* Sorting each level anew keeps every task once and after all that it is blocked
\* by, whatever the priorities are, for every graph without a cycle.
THEOREM ScheduleOrderAlwaysRespects == Spec => []ScheduleOrderRespects
<1>1. Graph => ScheduleOrderRespects
  <2> SUFFICES ASSUME Graph, ~Cyclic
               PROVE  IsOrderOf(GetScheduleOrder, Nodes) /\ Respects(GetScheduleOrder)
    BY DEF ScheduleOrderRespects
  <2> DEFINE N == Cardinality(Nodes)
             q == InLevels[N]
             l == Levelled[N]
  <2>1. Sorted /\ GetScheduleOrder = q /\ TypeOK
    BY SortedPlaces DEF GetScheduleOrder, Graph
  <2>2. IsFiniteSet(Nodes) /\ N \in Nat /\ N \in Turns BY NodesFinite DEF Turns
  <2>3. q \in Seq(Nodes) BY <2>1, <2>2, InLevelsDef
  <2>4. LevelsListed(q, l, N) BY <2>1, AllLevelsListed
  <2>5. \A x \in Nodes : l[x] \in 1 .. N /\ \A b \in Blockers(x) : l[b] < l[x]
    <3>1. \A x \in Nodes : Place(x) \in 1 .. N BY <2>1 DEF Sorted
    <3>2. LevelsFit(l, N) BY <2>1, LevelsRise
    <3> HIDE DEF l, N
    <3> QED BY <2>2, <3>1, <3>2 DEF LevelsFit
  <2> HIDE DEF q, l
  <2>6. DOMAIN q = 1 .. Len(q) /\ Len(q) \in Nat /\ \A i \in DOMAIN q : q[i] \in Nodes
    BY <2>3, LenProperties, ElementOfSeq
  <2>7. \A x \in Nodes : \E i \in DOMAIN q : q[i] = x BY <2>4, <2>5 DEF LevelsListed
  <2>8. ToSet(q) = Nodes BY <2>6, <2>7 DEF ToSet
  <2>9. Len(q) = Cardinality(Nodes)
    <3> DEFINE k == Len(q)
    <3>1. q \in [1 .. k -> Nodes] BY <2>3, LenProperties
    <3>2. \A i, j \in 1 .. k : q[i] = q[j] => i = j BY <2>4, <2>6 DEF LevelsListed
    <3>3. \A x \in Nodes : \E i \in 1 .. k : q[i] = x BY <2>6, <2>7
    <3>4. k \in Nat BY <2>6
    <3> HIDE DEF k
    <3>5. q \in Injection(1 .. k, Nodes) BY <3>1, <3>2, Fun_IsInj
    <3>6. q \in Surjection(1 .. k, Nodes) BY <3>1, <3>3, Fun_IsSurj
    <3>7. IsFiniteSet(1 .. k) /\ Cardinality(1 .. k) = k BY <3>4, FS_Interval
    <3>8. Cardinality(Nodes) = k BY <3>5, <3>6, <3>7, FS_Surjection
    <3> QED BY <3>8 DEF k
  <2>10. ASSUME NEW i \in DOMAIN q, NEW j \in DOMAIN q, q[i] \in forward[q[j]] PROVE i < j
    <3>1. q[i] \in Blockers(q[j]) /\ q[i] \in Nodes /\ q[j] \in Nodes
      BY <2>6, <2>10 DEF Blockers
    <3>2. l[q[i]] < l[q[j]] /\ l[q[i]] \in 1 .. N /\ l[q[j]] \in 1 .. N BY <2>5, <3>1
    <3>3. i # j /\ ~(j < i) BY <2>2, <2>4, <3>2 DEF LevelsListed
    <3> QED BY <2>6, <3>3
  <2> QED BY <2>1, <2>8, <2>9, <2>10 DEF IsOrderOf, Respects
<1> QED BY <1>1, DagTypeCorrect, EdgesAlwaysMirror, PTL DEF Graph

(***************************************************************************)
(* getCriticalPath                                                         *)
(***************************************************************************)
Distances == [Nodes -> [dist : Nat, pred : Nodes \cup {NoParent}]]

\* The relaxation of t is about the tasks it blocks that are nearer than t + 1.
LEMMA RelaxIs ==
  ASSUME Graph, NEW d \in Distances, NEW t \in Nodes
  PROVE  /\ Relax(d, t) \in Distances
         /\ \A x \in Nodes :
                IF t \in Blockers(x) /\ d[t].dist + 1 > d[x].dist
                THEN Relax(d, t)[x].dist = d[t].dist + 1 /\ Relax(d, t)[x].pred = t
                ELSE Relax(d, t)[x] = d[x]
<1>1. \A x \in Nodes : x \in Dependents(t) <=> t \in Blockers(x) BY DependentsAre
<1>2. \A x \in Nodes : /\ d[x] \in [dist : Nat, pred : Nodes \cup {NoParent}]
                       /\ d[x].dist \in Nat
  BY DEF Distances
<1>3. [dist |-> d[t].dist + 1, pred |-> t] \in [dist : Nat, pred : Nodes \cup {NoParent}]
  BY <1>2
<1>4. \A x \in Nodes : Relax(d, t)[x] \in [dist : Nat, pred : Nodes \cup {NoParent}]
  BY <1>2, <1>3 DEF Relax
<1>5. Relax(d, t) = [x \in Nodes |-> Relax(d, t)[x]] BY DEF Relax
<1>6. Relax(d, t) \in Distances BY <1>4, <1>5 DEF Distances
<1>7. \A x \in Nodes : IF t \in Blockers(x) /\ d[t].dist + 1 > d[x].dist
                       THEN Relax(d, t)[x] = [dist |-> d[t].dist + 1, pred |-> t]
                       ELSE Relax(d, t)[x] = d[x]
  BY <1>1 DEF Relax
<1> QED BY <1>6, <1>7

LEMMA RelaxedDef ==
  ASSUME Graph, Sorted
  PROVE  /\ \A n \in Turns : Relaxed[n] \in Distances
         /\ Relaxed[0] = [t \in Nodes |-> [dist |-> 1, pred |-> NoParent]]
         /\ \A n \in 1 .. Cardinality(Nodes) :
                Relaxed[n] = Relax(Relaxed[n - 1], TopologicalSort[n])
<1> DEFINE N == Cardinality(Nodes)
           b == [t \in Nodes |-> [dist |-> 1, pred |-> NoParent]]
           step == [p \in Distances \X (1 .. N) |-> Relax(p[1], TopologicalSort[p[2]])]
           Fits(g) == g = [n \in Turns |-> IF n = 0 THEN b
                                           ELSE Relax(g[n - 1], TopologicalSort[n])]
<1>1. N \in Nat /\ Turns = 0 .. N /\ \A n \in 1 .. N : TopologicalSort[n] \in Nodes
  BY DEF Sorted, Turns
<1>2. b \in Distances BY DEF Distances
<1>3. ASSUME NEW d \in Distances, NEW n \in 1 .. N
      PROVE  Relax(d, TopologicalSort[n]) \in Distances
  BY <1>1, RelaxIs
<1>4. step \in Steps(N, Distances)
  <2> HIDE DEF N
  <2> QED BY <1>3 DEF Steps
<1>5. \A d \in Distances, n \in 1 .. N : step[<<d, n>>] = Relax(d, TopologicalSort[n])
  OBVIOUS
<1> HIDE DEF step, N, b
<1>6. PICK g : Loops(g, N, Distances, b, step) BY <1>1, <1>2, <1>4, TurnsDefine
<1>7. /\ g \in [0 .. N -> Distances] /\ g[0] = b
      /\ \A n \in 1 .. N : g[n] = step[<<g[n - 1], n>>]
  BY <1>6 DEF Loops
<1>8. ASSUME NEW n \in 0 .. N
      PROVE  g[n] = IF n = 0 THEN b ELSE Relax(g[n - 1], TopologicalSort[n])
  <2>1. n # 0 => n - 1 \in 0 .. N /\ n \in 1 .. N BY <1>1
  <2>2. n # 0 => g[n - 1] \in Distances /\ g[n] = step[<<g[n - 1], n>>] BY <1>7, <2>1
  <2> QED BY <1>5, <1>7, <2>1, <2>2
<1>9. Fits(g) BY <1>1, <1>7, <1>8
<1>10. Relaxed = CHOOSE h : Fits(h) BY DEF Relaxed, b
<1>11. Fits(Relaxed)
  <2> HIDE DEF Fits
  <2> QED BY <1>9, <1>10
<1>12. \A n \in Turns : Relaxed[n] = IF n = 0 THEN b
                                     ELSE Relax(Relaxed[n - 1], TopologicalSort[n])
  BY <1>11
<1>13. 0 \in Turns /\ \A n \in 1 .. N : n \in Turns /\ n # 0 BY <1>1
<1>14. \A n \in Turns : Relaxed[n] \in Distances
  <2> DEFINE R == {n \in Nat : n <= N => Relaxed[n] \in Distances}
  <2>1. 0 \in R BY <1>2, <1>12, <1>13
  <2>2. ASSUME NEW n \in R, n < N PROVE n + 1 \in R
    <3>1. Relaxed[n] \in Distances BY <1>1, <2>2
    <3>2. n + 1 \in Turns /\ n + 1 \in 1 .. N /\ n + 1 # 0 /\ n + 1 - 1 = n BY <1>1, <2>2
    <3>3. Relaxed[n + 1] = Relax(Relaxed[n], TopologicalSort[n + 1]) BY <1>12, <3>2
    <3> QED BY <1>3, <3>1, <3>2, <3>3
  <2>3. 0 .. N \subseteq R
    <3>1. R \in SUBSET Nat OBVIOUS
    <3> HIDE DEF R
    <3> QED BY <1>1, <2>1, <2>2, <3>1, CountTo
  <2> QED BY <1>1, <2>3
<1> QED BY <1>12, <1>13, <1>14 DEF N, b

\* After n turns a distance is that of the predecessor plus one, and no less than
\* that of any blocker that had its turn plus one.
DistancesFit(d, n) ==
  \A x \in Nodes :
      /\ d[x].dist \in 1 .. Place(x)
      /\ d[x].pred = NoParent => d[x].dist = 1
      /\ d[x].pred # NoParent => /\ d[x].pred \in Blockers(x) /\ Place(d[x].pred) <= n
                                 /\ d[x].dist = d[d[x].pred].dist + 1
      /\ \A b \in Blockers(x) : Place(b) <= n => d[b].dist + 1 <= d[x].dist

LEMMA RelaxFits ==
  ASSUME Graph, Sorted, NEW d \in Distances, NEW n \in Nat, n < Cardinality(Nodes),
         DistancesFit(d, n)
  PROVE  DistancesFit(Relax(d, TopologicalSort[n + 1]), n + 1)
<1> DEFINE N == Cardinality(Nodes)
           t == TopologicalSort[n + 1]
           e == Relax(d, t)
<1>1. t \in Nodes /\ Place(t) = n + 1 BY DEF Sorted
<1>2. /\ \A x \in Nodes : Place(x) \in Nat \ {0} /\ (Place(x) = n + 1 => x = t)
      /\ \A x \in Nodes : \A b \in Blockers(x) : Place(b) < Place(x)
      /\ \A x \in Nodes : Blockers(x) \subseteq Nodes
  BY DEF Sorted, Blockers
<1>3. /\ e \in Distances
      /\ \A x \in Nodes : IF t \in Blockers(x) /\ d[t].dist + 1 > d[x].dist
                          THEN e[x].dist = d[t].dist + 1 /\ e[x].pred = t
                          ELSE e[x] = d[x]
  BY <1>1, RelaxIs
<1>4. NoParent \notin Nodes BY OrdersAssumption DEF OrdersAssumption, Nodes
<1>5. \A x \in Nodes : d[x].dist \in Nat BY DEF Distances
<1> HIDE DEF t, e
<1>6. ASSUME NEW y \in Nodes, Place(y) <= n + 1 PROVE e[y] = d[y]
  <2>1. t \notin Blockers(y) BY <1>1, <1>2, <1>6
  <2> QED BY <1>3, <2>1
<1>7. ASSUME NEW x \in Nodes, NEW b \in Blockers(x), Place(b) <= n + 1
      PROVE  e[b] = d[b] /\ b \in Nodes /\ (b # t => d[b].dist + 1 <= d[x].dist)
  <2>1. b \in Nodes BY <1>2
  <2>2. b # t => Place(b) <= n BY <1>2, <1>7, <2>1
  <2> QED BY <1>6, <1>7, <2>1, <2>2 DEF DistancesFit
<1> SUFFICES ASSUME NEW x \in Nodes
             PROVE  /\ e[x].dist \in 1 .. Place(x)
                    /\ e[x].pred = NoParent => e[x].dist = 1
                    /\ e[x].pred # NoParent => /\ e[x].pred \in Blockers(x)
                                               /\ Place(e[x].pred) <= n + 1
                                               /\ e[x].dist = e[e[x].pred].dist + 1
                    /\ \A b \in Blockers(x) : Place(b) <= n + 1 => e[b].dist + 1 <= e[x].dist
  BY DEF DistancesFit, e, t
<1>8. e[t] = d[t] /\ d[t].dist \in 1 .. n + 1 BY <1>1, <1>6 DEF DistancesFit
<1>9. CASE t \in Blockers(x) /\ d[t].dist + 1 > d[x].dist
  <2>1. e[x].dist = d[t].dist + 1 /\ e[x].pred = t BY <1>3, <1>9
  <2>2. n + 1 < Place(x) BY <1>1, <1>2, <1>9
  <2>3. e[x].dist \in 1 .. Place(x) BY <1>2, <1>8, <2>1, <2>2
  <2>4. ASSUME NEW b \in Blockers(x), Place(b) <= n + 1 PROVE e[b].dist + 1 <= e[x].dist
    <3>1. e[b] = d[b] /\ b \in Nodes /\ (b # t => d[b].dist + 1 <= d[x].dist) BY <1>7, <2>4
    <3>2. d[b].dist \in Nat /\ d[x].dist \in Nat /\ d[t].dist \in Nat BY <1>1, <1>5, <3>1
    <3> QED BY <1>9, <2>1, <3>1, <3>2
  <2> QED BY <1>1, <1>4, <1>8, <1>9, <2>1, <2>3, <2>4
<1>10. CASE ~(t \in Blockers(x) /\ d[t].dist + 1 > d[x].dist)
  <2>1. e[x] = d[x] BY <1>3, <1>10
  <2>2. ASSUME NEW b \in Blockers(x), Place(b) <= n + 1 PROVE e[b].dist + 1 <= e[x].dist
    <3>1. e[b] = d[b] /\ b \in Nodes /\ (b # t => d[b].dist + 1 <= d[x].dist) BY <1>7, <2>2
    <3> QED BY <1>5, <1>10, <2>1, <3>1
  <2>3. /\ d[x].dist \in 1 .. Place(x)
        /\ d[x].pred = NoParent => d[x].dist = 1
        /\ d[x].pred # NoParent => /\ d[x].pred \in Blockers(x) /\ Place(d[x].pred) <= n
                                   /\ d[x].dist = d[d[x].pred].dist + 1
    BY DEF DistancesFit
  <2>4. ASSUME d[x].pred # NoParent
        PROVE  /\ e[x].pred \in Blockers(x) /\ Place(e[x].pred) <= n + 1
               /\ e[x].dist = e[e[x].pred].dist + 1
    <3>1. d[x].pred \in Nodes /\ Place(d[x].pred) \in Nat BY <1>2, <2>3, <2>4
    <3>2. Place(d[x].pred) <= n + 1 BY <2>3, <2>4, <3>1
    <3>3. e[d[x].pred] = d[d[x].pred] BY <1>6, <3>1, <3>2
    <3> QED BY <2>1, <2>3, <2>4, <3>2, <3>3
  <2> QED BY <2>1, <2>2, <2>3, <2>4
<1> QED BY <1>9, <1>10

LEMMA LongestFits ==
  ASSUME Graph, Sorted
  PROVE  Longest \in Distances /\ DistancesFit(Longest, Cardinality(Nodes))
<1> DEFINE N == Cardinality(Nodes)
           R == {n \in Nat : n <= N => DistancesFit(Relaxed[n], n)}
<1>1. N \in Nat /\ N \in Turns /\ \A x \in Nodes : Place(x) \in 1 .. N
  BY DEF Sorted, Turns
<1>2. 0 \in R
  <2>1. ASSUME NEW x \in Nodes
        PROVE  Relaxed[0][x].dist = 1 /\ Relaxed[0][x].pred = NoParent
    BY RelaxedDef
  <2>2. \A x \in Nodes : 1 \in 1 .. Place(x) /\ \A b \in Blockers(x) : ~(Place(b) <= 0)
    BY <1>1 DEF Blockers
  <2>3. DistancesFit(Relaxed[0], 0) BY <2>1, <2>2 DEF DistancesFit
  <2> QED BY <2>3
<1>3. ASSUME NEW n \in R, n < N PROVE n + 1 \in R
  <2>1. n \in Nat /\ n \in Turns /\ DistancesFit(Relaxed[n], n) BY <1>1, <1>3 DEF Turns
  <2>2. Relaxed[n] \in Distances BY <2>1, RelaxedDef
  <2>3. Relaxed[n + 1] = Relax(Relaxed[n], TopologicalSort[n + 1])
    <3> DEFINE m == n + 1
    <3>1. m \in 1 .. N /\ m - 1 = n BY <1>1, <1>3, <2>1
    <3> HIDE DEF m
    <3>2. Relaxed[m] = Relax(Relaxed[m - 1], TopologicalSort[m]) BY <3>1, RelaxedDef
    <3>3. Relaxed[m] = Relax(Relaxed[n], TopologicalSort[m]) BY <3>1, <3>2
    <3> QED BY <3>3 DEF m
  <2>4. DistancesFit(Relax(Relaxed[n], TopologicalSort[n + 1]), n + 1)
    BY <1>3, <2>1, <2>2, RelaxFits
  <2>5. DistancesFit(Relaxed[n + 1], n + 1) BY <2>3, <2>4
  <2> QED BY <2>1, <2>5
<1>4. 0 .. N \subseteq R
  <2>1. R \in SUBSET Nat OBVIOUS
  <2> HIDE DEF R, N
  <2> QED BY <1>1, <1>2, <1>3, <2>1, CountTo
<1>5. N \in R BY <1>1, <1>4
<1> QED BY <1>1, <1>5, RelaxedDef DEF Longest

\* Along a chain the distances count at least its tasks.
LEMMA ChainCounts ==
  ASSUME NEW d, d \in Distances, DistancesFit(d, Cardinality(Nodes)), Sorted,
         NEW n \in Nat, NEW seq \in [1 .. n -> Nodes], IsChain(seq)
  PROVE  \A i \in 1 .. n : i <= d[seq[i]].dist
<1> DEFINE R == {i \in Nat : i \in 1 .. n => i <= d[seq[i]].dist}
<1>1. seq \in Seq(Nodes) BY SeqDef
<1>2. Len(seq) = n BY <1>1, LenProperties
<1>3. \A i \in 1 .. n - 1 : seq[i] \in forward[seq[i + 1]] BY <1>2 DEF IsChain
<1>4. \A x \in Nodes : d[x].dist \in Nat \ {0} /\ Place(x) <= Cardinality(Nodes)
  BY DEF DistancesFit, Sorted
<1>5. 0 \in R OBVIOUS
<1>6. ASSUME NEW i \in R, i < n PROVE i + 1 \in R
  <2>1. i + 1 \in 1 .. n /\ seq[i + 1] \in Nodes BY <1>6
  <2>2. CASE i = 0
    <3>1. 1 <= d[seq[i + 1]].dist BY <1>4, <2>1
    <3> QED BY <2>2, <3>1
  <2>3. CASE i # 0
    <3>1. i \in 1 .. n - 1 /\ i \in 1 .. n BY <1>6, <2>3
    <3>2. seq[i] \in Nodes /\ seq[i] \in Blockers(seq[i + 1]) BY <1>3, <3>1 DEF Blockers
    <3>3. d[seq[i]].dist + 1 <= d[seq[i + 1]].dist
      BY <1>4, <2>1, <3>2 DEF DistancesFit
    <3>4. i <= d[seq[i]].dist BY <3>1
    <3>5. d[seq[i]].dist \in Nat /\ d[seq[i + 1]].dist \in Nat BY <1>4, <2>1, <3>2
    <3>6. i + 1 <= d[seq[i + 1]].dist BY <3>1, <3>3, <3>4, <3>5
    <3> QED BY <3>6
  <2> QED BY <2>2, <2>3
<1>7. 0 .. n \subseteq R
  <2>1. R \in SUBSET Nat OBVIOUS
  <2> HIDE DEF R
  <2> QED BY <1>5, <1>6, <2>1, CountTo
<1> QED BY <1>7

LEMMA EndNodeIs ==
  ASSUME Longest \in Distances, Nodes # {}
  PROVE  EndNode \in Nodes /\ \A x \in Nodes : Longest[x].dist <= Longest[EndNode].dist
<1> DEFINE d == Longest
           R == {p \in Nodes \X Nodes : d[p[1]].dist > d[p[2]].dist}
<1>1. \A x \in Nodes : d[x].dist \in Nat BY DEF Distances
<1>2. EndNode = CHOOSE t \in Nodes : \A x \in Nodes : d[x].dist <= d[t].dist
  BY DEF EndNode
<1> HIDE DEF d
<1>3. \A x, y \in Nodes : <<x, y>> \in R <=> d[x].dist > d[y].dist OBVIOUS
<1> HIDE DEF R
<1>4. \A x \in Nodes : <<x, x>> \notin R BY <1>1, <1>3
<1>5. \A x, y, z \in Nodes : <<x, y>> \in R /\ <<y, z>> \in R => <<x, z>> \in R
  BY <1>1, <1>3
<1>6. IsFiniteSet(Nodes) BY NodesFinite
<1>7. PICK m \in Nodes : \A x \in Nodes : <<x, m>> \notin R BY <1>4, <1>5, <1>6, HasLeast
<1>8. \A x \in Nodes : ~(d[x].dist > d[m].dist) BY <1>3, <1>7
<1>9. \A x \in Nodes : d[x].dist <= d[m].dist BY <1>1, <1>7, <1>8
<1> QED BY <1>2, <1>7, <1>9 DEF d

\* What is walked back so far: a chain whose first task is as far as the rest of
\* the way to the end is short.
PathFits(p, n) ==
  LET d == Longest
  IN  /\ p \in Seq(Nodes) /\ Len(p) \in Nat \ {0}
      /\ d[p[1]].dist + Len(p) = d[EndNode].dist + 1
      /\ d[p[1]].pred = NoParent \/ Len(p) = n + 1
      /\ IsChain(p)

LEMMA BackFits ==
  ASSUME Longest \in Distances, DistancesFit(Longest, Cardinality(Nodes)), Nodes # {},
         NEW p, NEW n \in Nat, PathFits(p, n)
  PROVE  PathFits(BackFrom(p), n + 1)
<1> DEFINE d == Longest
           y == d[p[1]].pred
           q == <<y>> \o p
           k == Len(p)
<1>1. /\ p \in Seq(Nodes) /\ k \in Nat \ {0}
      /\ d[p[1]].dist + k = d[EndNode].dist + 1
      /\ d[p[1]].pred = NoParent \/ k = n + 1
      /\ IsChain(p)
  BY DEF PathFits
<1>2. p[1] \in Nodes /\ Head(p) = p[1] BY <1>1, ElementOfSeq
<1>3. BackFrom(p) = IF y = NoParent THEN p ELSE q BY <1>2 DEF BackFrom
<1>4. CASE y = NoParent BY <1>3, <1>4 DEF PathFits
<1>5. CASE y # NoParent
  <2>1. y \in Blockers(p[1]) /\ d[p[1]].dist = d[y].dist + 1
    BY <1>2, <1>5 DEF DistancesFit
  <2>2. y \in Nodes /\ y \in forward[p[1]] BY <2>1 DEF Blockers
  <2>3. \A x \in Nodes : d[x].dist \in Nat BY DEF Distances
  <2>4. EndNode \in Nodes BY EndNodeIs
  <2> HIDE DEF d, y, k
  <2>5. <<y>> \in Seq(Nodes) /\ Len(<<y>>) = 1 /\ <<y>>[1] = y BY <2>2
  <2>6. /\ q \in Seq(Nodes) /\ Len(q) = 1 + k
        /\ \A i \in 1 .. 1 + k : q[i] = IF i <= 1 THEN <<y>>[i] ELSE p[i - 1]
    BY <1>1, <2>5, ConcatProperties DEF k
  <2>7. q[1] = y BY <1>1, <2>5, <2>6
  <2>8. \A i \in 1 .. k + 1 : i # 1 => q[i] = p[i - 1] BY <1>1, <2>6
  <2> HIDE DEF q
  <2>9. ASSUME NEW i \in 1 .. Len(q) - 1 PROVE q[i] \in forward[q[i + 1]]
    <3> DEFINE j == i + 1
    <3>1. i \in 1 .. k /\ j \in 1 .. k + 1 /\ j # 1 /\ j - 1 = i BY <1>1, <2>6
    <3> HIDE DEF j
    <3>2. q[j] = p[i] BY <2>8, <3>1
    <3>3. CASE i = 1 BY <2>2, <2>7, <3>2, <3>3 DEF j
    <3>4. CASE i # 1
      <4> DEFINE h == i - 1
      <4>1. h \in 1 .. k - 1 /\ h + 1 = i /\ i \in 1 .. k + 1 BY <1>1, <3>1, <3>4
      <4> HIDE DEF h
      <4>2. p[h] \in forward[p[h + 1]] BY <1>1, <4>1 DEF IsChain, k
      <4>3. q[i] = p[h] BY <2>8, <3>4, <4>1 DEF h
      <4> QED BY <3>2, <4>1, <4>2, <4>3 DEF j
    <3> QED BY <3>3, <3>4
  <2>10. IsChain(q) BY <2>9 DEF IsChain
  <2>11. Len(q) = n + 1 + 1 BY <1>1, <1>5, <2>6 DEF y
  <2>12. d[q[1]].dist + Len(q) = d[EndNode].dist + 1
    <3>1. d[y].dist \in Nat /\ d[p[1]].dist \in Nat /\ d[EndNode].dist \in Nat
      BY <1>2, <2>2, <2>3, <2>4
    <3>2. d[q[1]].dist = d[y].dist /\ Len(q) = 1 + k BY <2>6, <2>7
    <3>3. d[p[1]].dist + k = d[EndNode].dist + 1 /\ k \in Nat BY <1>1 DEF d, k
    <3> DEFINE at == d[y].dist
               from == d[p[1]].dist
               end == d[EndNode].dist
    <3>4. from = at + 1 BY <2>1
    <3> HIDE DEF at, from, end
    <3>5. at + (1 + k) = end + 1 BY <3>1, <3>3, <3>4 DEF from, end, at
    <3> QED BY <3>2, <3>5 DEF at, end
  <2>13. PathFits(q, n + 1)
    BY <1>1, <2>6, <2>10, <2>11, <2>12 DEF PathFits, d
  <2> QED BY <1>3, <1>5, <2>13
<1> QED BY <1>4, <1>5

LEMMA PathBackDef ==
  ASSUME Longest \in Distances, DistancesFit(Longest, Cardinality(Nodes)), Nodes # {}
  PROVE  \A n \in Turns : PathFits(PathBack[n], n)
<1> DEFINE N == Cardinality(Nodes)
           S == {p \in Seq(Nodes) : \E n \in Nat : PathFits(p, n)}
           b == <<EndNode>>
           step == [p \in S \X (1 .. N) |-> BackFrom(p[1])]
           Fits(g) == g = [n \in Turns |-> IF n = 0 THEN b ELSE BackFrom(g[n - 1])]
<1>1. N \in Nat /\ Turns = 0 .. N BY NodesFinite DEF Turns
<1>2. PathFits(b, 0)
  <2>1. EndNode \in Nodes BY EndNodeIs
  <2>2. b \in Seq(Nodes) /\ Len(b) = 1 /\ b[1] = EndNode BY <2>1
  <2>3. Longest[EndNode].dist \in Nat BY <2>1 DEF Distances
  <2> QED BY <2>2, <2>3 DEF PathFits, IsChain
<1>3. b \in S BY <1>2 DEF PathFits
<1>4. ASSUME NEW p \in S, NEW n \in 1 .. N PROVE BackFrom(p) \in S
  <2>1. PICK m \in Nat : PathFits(p, m) OBVIOUS
  <2>2. PathFits(BackFrom(p), m + 1) BY <2>1, BackFits
  <2>3. m + 1 \in Nat /\ BackFrom(p) \in Seq(Nodes) BY <2>2 DEF PathFits
  <2> QED BY <2>2, <2>3
<1>5. step \in Steps(N, S)
  <2> HIDE DEF S, N
  <2> QED BY <1>4 DEF Steps
<1>6. \A p \in S, n \in 1 .. N : step[<<p, n>>] = BackFrom(p) OBVIOUS
<1> HIDE DEF S, step, N, b
<1>7. PICK g : Loops(g, N, S, b, step) BY <1>1, <1>3, <1>5, TurnsDefine
<1>8. g \in [0 .. N -> S] /\ g[0] = b /\ \A n \in 1 .. N : g[n] = step[<<g[n - 1], n>>]
  BY <1>7 DEF Loops
<1>9. ASSUME NEW n \in 0 .. N PROVE g[n] = IF n = 0 THEN b ELSE BackFrom(g[n - 1])
  <2>1. n # 0 => n - 1 \in 0 .. N /\ n \in 1 .. N BY <1>1
  <2>2. n # 0 => g[n - 1] \in S /\ g[n] = step[<<g[n - 1], n>>] BY <1>8, <2>1
  <2> QED BY <1>6, <1>8, <2>1, <2>2
<1>10. Fits(g) BY <1>1, <1>8, <1>9
<1>11. PathBack = CHOOSE h : Fits(h) BY DEF PathBack, b
<1>12. Fits(PathBack)
  <2> HIDE DEF Fits
  <2> QED BY <1>10, <1>11
<1>13. \A n \in Turns : PathBack[n] = IF n = 0 THEN b ELSE BackFrom(PathBack[n - 1])
  BY <1>12
<1> DEFINE R == {n \in Nat : n <= N => PathFits(PathBack[n], n)}
<1>14. 0 \in R
  <2>1. PathBack[0] = b BY <1>1, <1>13
  <2> QED BY <1>2, <2>1
<1>15. ASSUME NEW n \in R, n < N PROVE n + 1 \in R
  <2>1. n \in Nat /\ PathFits(PathBack[n], n) BY <1>1, <1>15
  <2> DEFINE m == n + 1
  <2>2. m \in Turns /\ m # 0 /\ m - 1 = n /\ m \in Nat BY <1>1, <1>15, <2>1
  <2> HIDE DEF m
  <2>3. PathBack[m] = BackFrom(PathBack[m - 1]) BY <1>13, <2>2
  <2>4. PathBack[m] = BackFrom(PathBack[n]) BY <2>2, <2>3
  <2>5. PathFits(BackFrom(PathBack[n]), m) BY <2>1, BackFits DEF m
  <2>6. PathFits(PathBack[m], m) BY <2>4, <2>5
  <2>7. m \in R BY <2>2, <2>6
  <2> QED BY <2>7 DEF m
<1>16. 0 .. N \subseteq R
  <2>1. R \in SUBSET Nat OBVIOUS
  <2> HIDE DEF R
  <2> QED BY <1>1, <1>14, <1>15, <2>1, CountTo
<1> QED BY <1>1, <1>16

\* The critical path is a chain of dependencies and no chain in the graph is
\* longer, for every graph without a cycle: the relaxation in the order of the
\* sort finds the longest distances, and the predecessors lead back along one.
THEOREM CriticalPathAlwaysLongest == Spec => []CriticalPathIsLongest
<1>1. Graph => CriticalPathIsLongest
  <2> SUFFICES ASSUME Graph, ~Cyclic
               PROVE  /\ IsChain(GetCriticalPath)
                      /\ \A n \in Turns : \A seq \in [1 .. n -> Nodes] :
                             IsChain(seq) => n <= Len(GetCriticalPath)
    BY DEF CriticalPathIsLongest
  <2> DEFINE N == Cardinality(Nodes)
             p == PathBack[N]
             d == Longest
  <2>1. Sorted /\ ~SortThrows BY SortedPlaces
  <2>2. N \in Nat /\ Turns = 0 .. N /\ (N = 0 <=> Nodes = {}) BY NodesFinite DEF Turns
  <2>3. CASE Nodes = {}
    <3>1. GetCriticalPath = <<>> BY <2>3 DEF GetCriticalPath
    <3>2. IsChain(<<>>) BY DEF IsChain
    <3>3. \A n \in Turns : n <= Len(<<>>) BY <2>2, <2>3
    <3> QED BY <3>1, <3>2, <3>3
  <2>4. CASE Nodes # {}
    <3>1. GetCriticalPath = p BY <2>1, <2>4 DEF GetCriticalPath
    <3>2. d \in Distances /\ DistancesFit(d, N) BY <2>1, LongestFits
    <3>3. N \in Turns BY <2>2
    <3>4. PathFits(p, N) BY <2>4, <3>2, <3>3, PathBackDef
    <3>5. EndNode \in Nodes /\ \A x \in Nodes : d[x].dist <= d[EndNode].dist
      BY <2>4, <3>2, EndNodeIs
    <3>6. /\ p \in Seq(Nodes) /\ Len(p) \in Nat \ {0}
          /\ d[p[1]].dist + Len(p) = d[EndNode].dist + 1
          /\ d[p[1]].pred = NoParent \/ Len(p) = N + 1
          /\ IsChain(p)
      BY <3>4 DEF PathFits
    <3>7. p[1] \in Nodes BY <3>6, ElementOfSeq
    <3> HIDE DEF p, d, N
    <3>8. \A x \in Nodes : d[x].dist \in 1 .. N /\ (d[x].pred = NoParent => d[x].dist = 1)
      <4>1. \A x \in Nodes : Place(x) \in 1 .. N BY <2>1 DEF Sorted, N
      <4> QED BY <2>2, <3>2, <4>1 DEF DistancesFit
    <3>9. Len(p) = d[EndNode].dist
      <4>1. Len(p) # N + 1 BY <2>2, <3>5, <3>6, <3>7, <3>8
      <4> QED BY <3>5, <3>6, <3>7, <3>8, <4>1
    <3>10. ASSUME NEW n \in Turns, NEW seq \in [1 .. n -> Nodes], IsChain(seq)
           PROVE  n <= Len(p)
      <4>1. n \in Nat BY <2>2
      <4>2. CASE n = 0 BY <3>6, <4>2
      <4>3. CASE n # 0
        <5>1. n \in 1 .. n /\ seq[n] \in Nodes BY <4>1, <4>3
        <5>2. \A i \in 1 .. n : i <= d[seq[i]].dist
          BY <2>1, <3>2, <3>10, <4>1, ChainCounts DEF N
        <5>3. n <= d[seq[n]].dist /\ d[seq[n]].dist <= d[EndNode].dist BY <3>5, <5>1, <5>2
        <5>4. d[seq[n]].dist \in Nat /\ d[EndNode].dist \in Nat BY <3>5, <3>8, <5>1
        <5> QED BY <3>9, <4>1, <5>3, <5>4
      <4> QED BY <4>2, <4>3
    <3> QED BY <3>1, <3>6, <3>10
  <2> QED BY <2>3, <2>4
<1> QED BY <1>1, DagTypeCorrect, EdgesAlwaysMirror, PTL DEF Graph

(***************************************************************************)
(* detectCycles                                                            *)
(***************************************************************************)
\* The stack of calls: the parent of a task is the frame that called it, and a
\* task is what that frame's task is blocked by.
StackFits(st, pa) ==
  /\ \A i, j \in DOMAIN st : st[i] = st[j] => i = j
  /\ \A i \in 1 .. Len(st) - 1 :
         /\ st[i] \in Nodes /\ pa[st[i]] = st[i + 1]
         /\ st[i + 1] \in Nodes => st[i] \in forward[st[i + 1]]
  /\ Len(st) > 0 => st[Len(st)] = NoParent

RealCycle(c) ==
  /\ c \in Seq(Nodes) /\ Len(c) \in Nat \ {0}
  /\ IsChain(c)
  /\ c[Len(c)] \in forward[c[1]]

\* The way back from the top of the stack has reached frame Len(w) - 1, has not
\* passed d, and goes on with each turn until the parent is d.
WayFits(w, n, st, pa, d) ==
  /\ w \in Seq(Nodes) /\ Len(w) \in Nat /\ Len(w) - 1 \in 1 .. Len(st)
  /\ w[1] = d /\ w[Len(w)] = st[Len(w) - 1] /\ IsChain(w)
  /\ w[Len(w)] = d => d \in forward[d]
  /\ \E m \in DOMAIN st : Len(w) - 1 <= m /\ st[m] = d
  /\ w[Len(w)] = d \/ pa[w[Len(w)]] = d \/ Len(w) = n + 2

LEMMA FurtherFits ==
  ASSUME NEW st \in Seq(Frames), NEW pa, StackFits(st, pa), NEW d \in Nodes,
         NEW w, NEW n \in Nat, WayFits(w, n, st, pa, d)
  PROVE  WayFits(WayFurther(w, pa), n + 1, st, pa, d)
<1> DEFINE L == Len(st)
           k == Len(w) - 1
           cur == w[Len(w)]
<1>1. L \in Nat /\ DOMAIN st = 1 .. L BY LenProperties
<1>2. /\ w \in Seq(Nodes) /\ Len(w) \in Nat /\ k \in 1 .. L /\ Len(w) = k + 1
      /\ w[1] = d /\ cur = st[k] /\ IsChain(w)
      /\ cur = d => d \in forward[d]
      /\ cur = d \/ pa[cur] = d \/ Len(w) = n + 2
  BY <1>1 DEF WayFits
<1>3. PICK m \in 1 .. L : k <= m /\ st[m] = d BY <1>1 DEF WayFits
<1>4. st[L] # d
  <2>1. L > 0 => st[L] = NoParent BY DEF StackFits
  <2>2. L > 0 BY <1>1, <1>3
  <2>3. d # NoParent BY OrdersAssumption DEF OrdersAssumption, Nodes
  <2> QED BY <2>1, <2>2, <2>3
<1> HIDE DEF L, k
<1>5. CASE cur = d
  <2>1. WayFurther(w, pa) = w BY <1>2, <1>5 DEF WayFurther
  <2> QED BY <2>1, <1>5 DEF WayFits
<1>6. CASE cur # d /\ pa[cur] = d
  <2>1. WayFurther(w, pa) = w BY <1>2, <1>6 DEF WayFurther
  <2> QED BY <2>1, <1>6 DEF WayFits
<1>7. CASE cur # d /\ pa[cur] # d
  <2> DEFINE y == st[k + 1]
             v == Append(w, y)
  <2>1. k < m BY <1>2, <1>3, <1>7
  <2>2. k \in 1 .. L - 1 /\ k + 1 \in 1 .. L BY <1>1, <1>2, <1>3, <2>1
  <2>3. pa[cur] = y BY <1>2, <2>2 DEF StackFits, L
  <2>4. y # d BY <1>7, <2>3
  <2>5. k + 1 # m BY <1>3, <2>4
  <2>6. k + 1 \in 1 .. L - 1
    <3>1. m # L BY <1>1, <1>3, <1>4
    <3> QED BY <1>1, <1>2, <1>3, <2>1, <2>5, <3>1
  <2>7. y \in Nodes /\ cur \in forward[y] BY <1>2, <2>2, <2>6 DEF StackFits, L
  <2>8. y # NoParent BY <2>7, OrdersAssumption DEF OrdersAssumption, Nodes
  <2>9. WayFurther(w, pa) = v BY <1>2, <1>7, <2>3, <2>8 DEF WayFurther
  <2> HIDE DEF y
  <2>10. /\ v \in Seq(Nodes) /\ Len(v) = Len(w) + 1 /\ v[Len(w) + 1] = y
         /\ \A i \in 1 .. Len(w) : v[i] = w[i]
    BY <1>2, <2>7, AppendProperties
  <2> HIDE DEF v
  <2>11. ASSUME NEW i \in 1 .. Len(v) - 1 PROVE v[i] \in forward[v[i + 1]]
    <3>1. CASE i = Len(w) BY <1>2, <2>7, <2>10, <3>1
    <3>2. CASE i # Len(w)
      <4>1. i \in 1 .. Len(w) - 1 /\ i \in 1 .. Len(w) /\ i + 1 \in 1 .. Len(w)
        BY <1>2, <2>10, <3>2
      <4>2. w[i] \in forward[w[i + 1]] BY <1>2, <4>1 DEF IsChain
      <4> QED BY <2>10, <4>1, <4>2
    <3> QED BY <3>1, <3>2
  <2>12. IsChain(v) BY <2>11 DEF IsChain
  <2>13. v[1] = d BY <1>2, <2>10
  <2>14. Len(v) \in Nat /\ Len(v) - 1 = k + 1 /\ Len(v) - 1 \in 1 .. L /\ v[Len(v)] = y
    BY <1>2, <2>2, <2>10
  <2>15. m \in DOMAIN st /\ Len(v) - 1 <= m /\ st[m] = d
    BY <1>1, <1>2, <1>3, <2>1, <2>14
  <2>16. v[Len(v)] = st[Len(v) - 1] BY <2>14 DEF y
  <2>17. Len(v) = n + 1 + 2 BY <1>2, <1>7, <2>10
  <2>18. WayFits(v, n + 1, st, pa, d)
    BY <2>4, <2>10, <2>12, <2>13, <2>14, <2>15, <2>16, <2>17 DEF WayFits
  <2> QED BY <2>9, <2>18
<1> QED BY <1>5, <1>6, <1>7

LEMMA FramesFinite ==
  IsFiniteSet(Frames) /\ Cardinality(Frames) = Cardinality(Nodes) + 1
<1>1. IsFiniteSet(Nodes) /\ NoParent \notin Nodes
  BY NodesFinite, OrdersAssumption DEF OrdersAssumption, Nodes
<1> QED BY <1>1, FS_AddElement DEF Frames

\* No frame is on the stack twice, so the stack is no deeper than there are frames.
LEMMA StackIsShort ==
  ASSUME NEW st \in Seq(Frames), NEW pa, StackFits(st, pa)
  PROVE  Len(st) <= Cardinality(Nodes) + 1
<1> DEFINE L == Len(st)
<1>1. L \in Nat /\ DOMAIN st = 1 .. L /\ st \in [1 .. L -> Frames] BY LenProperties
<1>2. \A i, j \in 1 .. L : st[i] = st[j] => i = j BY <1>1 DEF StackFits
<1> HIDE DEF L
<1>3. st \in Injection(1 .. L, Frames) BY <1>1, <1>2, Fun_IsInj
<1>4. IsFiniteSet(1 .. L) /\ Cardinality(1 .. L) = L BY <1>1, FS_Interval
<1>5. L <= Cardinality(Frames) BY <1>3, <1>4, FramesFinite, FS_Injection
<1> QED BY <1>5, FramesFinite DEF L

\* What is reported at a grey task is a cycle.
LEMMA WayBackIsCycle ==
  ASSUME NEW st \in Seq(Frames), NEW pa, StackFits(st, pa), NEW d \in Nodes,
         Len(st) > 1, d \in forward[st[1]], \E m \in DOMAIN st : st[m] = d
  PROVE  RealCycle(WayBack(st[1], d, pa))
<1> DEFINE N == Cardinality(Nodes)
           L == Len(st)
           x == st[1]
           b == <<d, x>>
           S == {w \in Seq(Nodes) : \E n \in Nat : WayFits(w, n, st, pa, d)}
           step == [p \in S \X (1 .. N) |-> WayFurther(p[1], pa)]
           Fits(g) == g = [n \in Turns |-> IF n = 0 THEN b ELSE WayFurther(g[n - 1], pa)]
           way == CHOOSE g : Fits(g)
<1>1. N \in Nat /\ Turns = 0 .. N BY NodesFinite DEF Turns
<1>2. L \in Nat /\ DOMAIN st = 1 .. L /\ L > 1 BY LenProperties
<1>3. x \in Nodes BY <1>2 DEF StackFits
<1>4. WayFits(b, 0, st, pa, d)
  <2>1. b \in Seq(Nodes) /\ Len(b) = 2 /\ b[1] = d /\ b[2] = x BY <1>3
  <2>2. Len(b) - 1 \in 1 .. L /\ Len(b) - 1 = 1 BY <1>2, <2>1
  <2>3. IsChain(b) BY <2>1 DEF IsChain
  <2>4. \E m \in DOMAIN st : Len(b) - 1 <= m /\ st[m] = d BY <1>2, <2>2
  <2> HIDE DEF b
  <2> QED BY <2>1, <2>2, <2>3, <2>4 DEF WayFits
<1>5. b \in S BY <1>4 DEF WayFits
<1>6. ASSUME NEW w \in S, NEW n \in 1 .. N PROVE WayFurther(w, pa) \in S
  <2>1. PICK i \in Nat : WayFits(w, i, st, pa, d) OBVIOUS
  <2>2. WayFits(WayFurther(w, pa), i + 1, st, pa, d) BY <2>1, FurtherFits
  <2>3. i + 1 \in Nat /\ WayFurther(w, pa) \in Seq(Nodes) BY <2>2 DEF WayFits
  <2> QED BY <2>2, <2>3
<1>7. step \in Steps(N, S)
  <2> HIDE DEF S, N
  <2> QED BY <1>6 DEF Steps
<1>8. \A w \in S, n \in 1 .. N : step[<<w, n>>] = WayFurther(w, pa) OBVIOUS
<1>9. WayBack(x, d, pa) = way[N] BY DEF WayBack
<1> HIDE DEF S, step, N, b, way
<1>10. PICK g : Loops(g, N, S, b, step) BY <1>1, <1>5, <1>7, TurnsDefine
<1>11. g \in [0 .. N -> S] /\ g[0] = b /\ \A n \in 1 .. N : g[n] = step[<<g[n - 1], n>>]
  BY <1>10 DEF Loops
<1>12. ASSUME NEW n \in 0 .. N PROVE g[n] = IF n = 0 THEN b ELSE WayFurther(g[n - 1], pa)
  <2>1. n # 0 => n - 1 \in 0 .. N /\ n \in 1 .. N BY <1>1
  <2>2. n # 0 => g[n - 1] \in S /\ g[n] = step[<<g[n - 1], n>>] BY <1>11, <2>1
  <2> QED BY <1>8, <1>11, <2>1, <2>2
<1>13. Fits(g) BY <1>1, <1>11, <1>12
<1>14. Fits(way)
  <2> HIDE DEF Fits
  <2> QED BY <1>13 DEF way
<1>15. \A n \in Turns : way[n] = IF n = 0 THEN b ELSE WayFurther(way[n - 1], pa)
  BY <1>14
<1> DEFINE R == {n \in Nat : n <= N => WayFits(way[n], n, st, pa, d)}
<1>16. 0 \in R
  <2>1. way[0] = b BY <1>1, <1>15
  <2> QED BY <1>4, <2>1
<1>17. ASSUME NEW n \in R, n < N PROVE n + 1 \in R
  <2>1. n \in Nat /\ WayFits(way[n], n, st, pa, d) BY <1>1, <1>17
  <2> DEFINE m == n + 1
  <2>2. m \in Turns /\ m # 0 /\ m - 1 = n /\ m \in Nat BY <1>1, <1>17, <2>1
  <2> HIDE DEF m
  <2>3. way[m] = WayFurther(way[m - 1], pa) BY <1>15, <2>2
  <2>4. way[m] = WayFurther(way[n], pa) BY <2>2, <2>3
  <2>5. WayFits(WayFurther(way[n], pa), m, st, pa, d) BY <2>1, FurtherFits DEF m
  <2>6. WayFits(way[m], m, st, pa, d) BY <2>4, <2>5
  <2>7. m \in R BY <2>2, <2>6
  <2> QED BY <2>7 DEF m
<1>18. 0 .. N \subseteq R
  <2>1. R \in SUBSET Nat OBVIOUS
  <2> HIDE DEF R
  <2> QED BY <1>1, <1>16, <1>17, <2>1, CountTo
<1>19. WayFits(way[N], N, st, pa, d) BY <1>1, <1>18
<1> DEFINE w == way[N]
           k == Len(w) - 1
<1> HIDE DEF w, L
<1>20. /\ w \in Seq(Nodes) /\ Len(w) \in Nat /\ k \in 1 .. L
       /\ w[1] = d /\ w[Len(w)] = st[k] /\ IsChain(w)
       /\ w[Len(w)] = d => d \in forward[d]
       /\ w[Len(w)] = d \/ pa[w[Len(w)]] = d \/ Len(w) = N + 2
  BY <1>19 DEF WayFits, w, L
<1>21. PICK m \in 1 .. L : k <= m /\ st[m] = d BY <1>2, <1>19 DEF WayFits, w
<1>22. m # L
  <2>1. st[L] = NoParent BY <1>2 DEF StackFits, L
  <2> QED BY <1>21, <2>1, OrdersAssumption DEF OrdersAssumption, Nodes
<1>23. Len(w) # N + 2
  <2>1. L <= N + 1 BY StackIsShort DEF L, N
  <2> QED BY <1>1, <1>2, <1>20, <1>21, <1>22, <2>1
<1>24. w[Len(w)] \in forward[d]
  <2>1. CASE w[Len(w)] = d BY <1>20, <2>1
  <2>2. CASE pa[w[Len(w)]] = d
    <3>1. k \in 1 .. L - 1 BY <1>2, <1>20, <1>21, <1>22
    <3>2. pa[st[k]] = st[k + 1] /\ (st[k + 1] \in Nodes => st[k] \in forward[st[k + 1]])
      BY <3>1 DEF StackFits, L
    <3> QED BY <1>20, <2>2, <3>2
  <2> QED BY <1>20, <1>23, <2>1, <2>2
<1>25. Len(w) \in Nat \ {0} BY <1>2, <1>20
<1>26. RealCycle(w) BY <1>20, <1>24, <1>25 DEF RealCycle
<1> QED BY <1>9, <1>26 DEF w

SearchStates ==
  [stack : Seq(Frames), todo : [Frames -> SUBSET Nodes],
   color : [Nodes -> {"white", "gray", "black"}], parent : [Nodes -> Frames],
   cycles : SUBSET Seq(Nodes)]

\* The grey tasks are those of the stack.  As long as no cycle was found, what a
\* call has followed is black or the call above it; so black tasks lead to black
\* ones only, and none lies upstream of itself.
SearchFits(s) ==
  /\ s \in SearchStates
  /\ StackFits(s.stack, s.parent)
  /\ \A c \in s.cycles : RealCycle(c)
  /\ \A x \in Frames : s.todo[x] \subseteq Follows(x)
  /\ \A x \in Nodes : /\ s.color[x] = "gray" <=> \E i \in DOMAIN s.stack : s.stack[i] = x
                      /\ s.color[x] = "white" => s.todo[x] = Follows(x)
  /\ s.cycles = {} =>
       /\ \A x \in Nodes : s.color[x] = "black" =>
              x \notin Upstream(x) /\ \A d \in Follows(x) : s.color[d] = "black"
       /\ \A i \in DOMAIN s.stack : \A d \in Follows(s.stack[i]) \ s.todo[s.stack[i]] :
              s.color[d] = "black" \/ (i > 1 /\ d = s.stack[i - 1])
       /\ s.stack = <<>> => \A x \in Nodes : s.color[x] = "black"

\* What is left: the dependencies to follow, and the calls to return from.
Work(s) ==
  {p \in Frames \X Frames :
     \/ p[2] \in s.todo[p[1]]
     \/ /\ p[2] = NoParent
        /\ IF p[1] = NoParent THEN s.stack # <<>> ELSE s.color[p[1]] # "black"}

\* The top of the stack.
LEMMA TopIs ==
  ASSUME NEW s, SearchFits(s), s.stack # <<>>
  PROVE  /\ DOMAIN s.stack = 1 .. Len(s.stack) /\ Len(s.stack) \in Nat \ {0}
         /\ Head(s.stack) = s.stack[1] /\ s.stack[1] \in Frames
         /\ s.stack[1] = NoParent => Len(s.stack) = 1
         /\ s.stack[1] # NoParent => s.stack[1] \in Nodes /\ Len(s.stack) > 1
<1> DEFINE st == s.stack
<1>1. st \in Seq(Frames) /\ StackFits(st, s.parent) /\ st # <<>>
  BY DEF SearchFits, SearchStates
<1> HIDE DEF st
<1>2. Len(st) \in Nat \ {0} /\ DOMAIN st = 1 .. Len(st) /\ Head(st) = st[1]
  BY <1>1, LenProperties, EmptySeq
<1>3. st[1] \in Frames BY <1>1, <1>2, ElementOfSeq
<1>4. st[Len(st)] = NoParent BY <1>1, <1>2 DEF StackFits
<1>5. st[1] = NoParent => Len(st) = 1
  <2> SUFFICES ASSUME st[1] = NoParent PROVE Len(st) = 1 OBVIOUS
  <2>1. 1 \in DOMAIN st /\ Len(st) \in DOMAIN st BY <1>2
  <2>2. 1 = Len(st) BY <1>1, <1>4, <2>1 DEF StackFits
  <2> QED BY <2>2
<1>6. st[1] # NoParent => st[1] \in Nodes /\ Len(st) > 1 BY <1>2, <1>3, <1>4 DEF Frames
<1> QED BY <1>2, <1>3, <1>5, <1>6 DEF st

LEMMA EnterFits ==
  ASSUME Graph, NEW s, SearchFits(s), s.stack # <<>>,
         NEW d \in s.todo[s.stack[1]], s.color[d] = "white"
  PROVE  LET r == Enter(s, s.stack[1], d)
         IN  SearchFits(r) /\ Work(r) \subseteq Work(s) /\ Work(r) # Work(s)
<1> DEFINE x == s.stack[1]
           st == s.stack
           r == Enter(s, x, d)
           L == Len(st)
<1>1. /\ DOMAIN st = 1 .. L /\ L \in Nat \ {0} /\ x \in Frames
      /\ x # NoParent => x \in Nodes
  BY TopIs
<1>2. /\ s \in SearchStates /\ StackFits(st, s.parent) /\ d \in Nodes /\ d \in Follows(x)
      /\ st \in Seq(Frames)
  BY <1>1 DEF SearchFits, SearchStates, Follows
<1>3. NoParent \notin Nodes /\ d # NoParent /\ Nodes \subseteq Frames
  BY <1>2, OrdersAssumption DEF OrdersAssumption, Nodes, Frames
<1>4. /\ r.stack = <<d>> \o st /\ r.cycles = s.cycles
      /\ r.todo = [s.todo EXCEPT ![x] = @ \ {d}]
      /\ r.color = [s.color EXCEPT ![d] = "gray"]
      /\ r.parent = [s.parent EXCEPT ![d] = x]
      /\ r = [stack |-> r.stack, todo |-> r.todo, color |-> r.color,
              parent |-> r.parent, cycles |-> r.cycles]
  BY DEF Enter, Followed
<1> HIDE DEF r
<1>5. /\ r.stack \in Seq(Frames) /\ Len(r.stack) = L + 1 /\ DOMAIN r.stack = 1 .. L + 1
      /\ r.stack[1] = d
      /\ \A i \in 1 .. L : r.stack[i + 1] = st[i]
  <2>1. <<d>> \in Seq(Frames) /\ Len(<<d>>) = 1 /\ <<d>>[1] = d BY <1>2, <1>3
  <2>2. /\ r.stack \in Seq(Frames) /\ Len(r.stack) = 1 + L
        /\ \A i \in 1 .. 1 + L : r.stack[i] = IF i <= 1 THEN <<d>>[i] ELSE st[i - 1]
    BY <1>2, <1>4, <2>1, ConcatProperties
  <2>3. DOMAIN r.stack = 1 .. L + 1 BY <1>1, <2>2, LenProperties
  <2>4. r.stack[1] = d BY <1>1, <2>1, <2>2
  <2>5. ASSUME NEW i \in 1 .. L PROVE r.stack[i + 1] = st[i]
    <3> DEFINE j == i + 1
    <3>1. j \in 1 .. 1 + L /\ ~(j <= 1) /\ j - 1 = i BY <1>1
    <3> HIDE DEF j
    <3>2. r.stack[j] = st[j - 1] BY <2>2, <3>1
    <3> QED BY <3>1, <3>2 DEF j
  <2> QED BY <1>1, <2>2, <2>3, <2>4, <2>5
<1>6. \A i \in 1 .. L : st[i] # d
  BY <1>1, <1>2 DEF SearchFits
<1>7. /\ r.todo \in [Frames -> SUBSET Nodes]
      /\ r.color \in [Nodes -> {"white", "gray", "black"}]
      /\ r.parent \in [Nodes -> Frames] /\ r.cycles \in SUBSET Seq(Nodes)
  BY <1>1, <1>2, <1>4 DEF SearchStates
<1>8. r \in SearchStates BY <1>4, <1>5, <1>7 DEF SearchStates
<1>9. /\ \A y \in Frames : r.todo[y] = IF y = x THEN s.todo[x] \ {d} ELSE s.todo[y]
      /\ \A y \in Nodes : r.color[y] = IF y = d THEN "gray" ELSE s.color[y]
      /\ \A y \in Nodes : r.parent[y] = IF y = d THEN x ELSE s.parent[y]
  BY <1>1, <1>2, <1>4 DEF SearchStates
<1>10. ASSUME NEW i \in 1 .. L + 1
       PROVE  \/ i = 1 /\ r.stack[i] = d
              \/ i - 1 \in 1 .. L /\ r.stack[i] = st[i - 1] /\ r.stack[i] # d
  <2>1. CASE i = 1 BY <1>5, <2>1
  <2>2. CASE i # 1
    <3> DEFINE j == i - 1
    <3>1. j \in 1 .. L /\ j + 1 = i BY <1>1, <2>2
    <3>2. r.stack[j + 1] = st[j] BY <1>5, <3>1
    <3> QED BY <1>6, <3>1, <3>2
  <2> QED BY <2>1, <2>2
<1>11. StackFits(r.stack, r.parent)
  <2>1. ASSUME NEW i \in 1 .. L + 1, NEW j \in 1 .. L + 1, r.stack[i] = r.stack[j] PROVE i = j
    <3>1. CASE i = 1 BY <1>5, <1>10, <2>1, <3>1
    <3>2. CASE j = 1 BY <1>5, <1>10, <2>1, <3>2
    <3>3. CASE i # 1 /\ j # 1
      <4>1. i - 1 \in 1 .. L /\ j - 1 \in 1 .. L /\ st[i - 1] = st[j - 1]
        BY <1>10, <2>1, <3>3
      <4>2. i - 1 = j - 1 BY <1>1, <1>2, <4>1 DEF StackFits
      <4> QED BY <1>1, <4>2
    <3> QED BY <3>1, <3>2, <3>3
  <2>2. ASSUME NEW i \in 1 .. L + 1 - 1
        PROVE  /\ r.stack[i] \in Nodes /\ r.parent[r.stack[i]] = r.stack[i + 1]
               /\ r.stack[i + 1] \in Nodes => r.stack[i] \in forward[r.stack[i + 1]]
    <3>1. i \in 1 .. L /\ i \in 1 .. L + 1 /\ r.stack[i + 1] = st[i] BY <1>1, <1>5
    <3>2. CASE i = 1
      BY <1>2, <1>3, <1>5, <1>9, <3>1, <3>2 DEF Follows
    <3>3. CASE i # 1
      <4> DEFINE j == i - 1
      <4>1. j \in 1 .. L - 1 /\ j + 1 = i BY <1>1, <3>1, <3>3
      <4>2. r.stack[i] = st[j] /\ st[j] # d BY <1>6, <1>10, <3>1, <3>3
      <4>3. /\ st[j] \in Nodes /\ s.parent[st[j]] = st[j + 1]
            /\ st[j + 1] \in Nodes => st[j] \in forward[st[j + 1]]
        BY <1>2, <4>1 DEF StackFits
      <4> QED BY <1>9, <3>1, <4>1, <4>2, <4>3
    <3> QED BY <3>2, <3>3
  <2>3. r.stack[L + 1] = NoParent
    <3>1. L \in 1 .. L /\ st[L] = NoParent BY <1>1, <1>2 DEF StackFits
    <3> QED BY <1>5, <3>1
  <2> QED BY <1>1, <1>5, <2>1, <2>2, <2>3 DEF StackFits
<1>12. \A y \in Frames : r.todo[y] \subseteq Follows(y)
  BY <1>9 DEF SearchFits
<1>13. ASSUME NEW y \in Nodes
       PROVE  /\ r.color[y] = "gray" <=> \E i \in DOMAIN r.stack : r.stack[i] = y
              /\ r.color[y] = "white" => r.todo[y] = Follows(y)
  <2>1. s.color[y] = "gray" <=> \E i \in 1 .. L : st[i] = y BY <1>1 DEF SearchFits
  <2>2. (\E i \in DOMAIN r.stack : r.stack[i] = y) <=> y = d \/ \E i \in 1 .. L : st[i] = y
    <3>1. ASSUME NEW i \in DOMAIN r.stack, r.stack[i] = y
          PROVE  y = d \/ \E j \in 1 .. L : st[j] = y
      BY <1>5, <1>10, <3>1
    <3>2. 1 \in DOMAIN r.stack /\ \A i \in 1 .. L : i + 1 \in DOMAIN r.stack
      BY <1>1, <1>5
    <3> QED BY <1>5, <3>1, <3>2
  <2>3. s.color[y] = "white" => s.todo[y] = Follows(y) BY DEF SearchFits
  <2>4. y = x => s.color[y] = "gray" BY <1>1, <2>1
  <2> QED BY <1>3, <1>9, <2>1, <2>2, <2>3, <2>4
<1>14. ASSUME r.cycles = {}
       PROVE  /\ \A y \in Nodes : r.color[y] = "black" =>
                     y \notin Upstream(y) /\ \A e \in Follows(y) : r.color[e] = "black"
              /\ \A i \in DOMAIN r.stack : \A e \in Follows(r.stack[i]) \ r.todo[r.stack[i]] :
                     r.color[e] = "black" \/ (i > 1 /\ e = r.stack[i - 1])
              /\ r.stack = <<>> => \A y \in Nodes : r.color[y] = "black"
  <2>1. /\ \A y \in Nodes : s.color[y] = "black" =>
               y \notin Upstream(y) /\ \A e \in Follows(y) : s.color[e] = "black"
        /\ \A i \in 1 .. L : \A e \in Follows(st[i]) \ s.todo[st[i]] :
               s.color[e] = "black" \/ (i > 1 /\ e = st[i - 1])
    BY <1>1, <1>4, <1>14 DEF SearchFits
  <2>2. \A y \in Frames : Follows(y) \subseteq Nodes BY DEF Follows
  <2>3. \A y \in Nodes : s.color[y] = "black" <=> r.color[y] = "black" BY <1>9
  <2>4. \A y \in Nodes : r.color[y] = "black" =>
            y \notin Upstream(y) /\ \A e \in Follows(y) : r.color[e] = "black"
    BY <1>3, <2>1, <2>2, <2>3
  <2>5. ASSUME NEW i \in 1 .. L + 1, NEW e \in Follows(r.stack[i]) \ r.todo[r.stack[i]]
        PROVE  r.color[e] = "black" \/ (i > 1 /\ e = r.stack[i - 1])
    <3>1. CASE i = 1 /\ r.stack[i] = d
      <4>1. r.todo[d] = Follows(d)
        <5>1. d # x BY <1>1, <1>6
        <5> QED BY <1>2, <1>3, <1>9, <5>1 DEF SearchFits
      <4> QED BY <2>5, <3>1, <4>1
    <3>2. CASE i - 1 \in 1 .. L /\ r.stack[i] = st[i - 1] /\ r.stack[i] # d
      <4> DEFINE j == i - 1
      <4>1. j \in 1 .. L /\ i > 1 /\ st[j] \in Frames /\ e \in Nodes
        BY <1>2, <2>2, <2>5, <3>2, ElementOfSeq
      <4>2. CASE e = d /\ st[j] = x
        <5>1. 1 \in DOMAIN st /\ j \in DOMAIN st BY <1>1, <4>1
        <5>2. j = 1 BY <1>2, <4>2, <5>1 DEF StackFits
        <5>3. i - 1 = 1 BY <5>2
        <5> QED BY <1>5, <4>1, <4>2, <5>3
      <4>3. CASE ~(e = d /\ st[j] = x)
        <5>1. e \in Follows(st[j]) \ s.todo[st[j]] BY <1>9, <2>5, <3>2, <4>1, <4>3
        <5>2. s.color[e] = "black" \/ (j > 1 /\ e = st[j - 1]) BY <2>1, <4>1, <5>1
        <5>3. j > 1 => r.stack[i - 1] = st[j - 1]
          <6> SUFFICES ASSUME j > 1 PROVE r.stack[i - 1] = st[j - 1] OBVIOUS
          <6>1. i - 1 \in 1 .. L + 1 /\ i - 1 # 1 BY <1>1, <4>1
          <6> QED BY <1>10, <6>1
        <5> QED BY <2>3, <4>1, <5>2, <5>3
      <4> QED BY <4>2, <4>3
    <3> QED BY <1>10, <3>1, <3>2
  <2>6. r.stack # <<>> BY <1>1, <1>5
  <2> QED BY <1>5, <2>4, <2>5, <2>6
<1>15. \A c \in r.cycles : RealCycle(c) BY <1>4 DEF SearchFits
<1>16. SearchFits(r) BY <1>8, <1>11, <1>12, <1>13, <1>14, <1>15 DEF SearchFits
<1>17. r.stack # <<>> BY <1>1, <1>5
<1>18. \A y \in Nodes : s.color[y] = "black" <=> r.color[y] = "black" BY <1>9
<1>19. Work(r) \subseteq Work(s)
  <2> SUFFICES ASSUME NEW y \in Frames, NEW z \in Frames, <<y, z>> \in Work(r)
               PROVE  <<y, z>> \in Work(s)
    BY DEF Work
  <2>1. \/ z \in r.todo[y]
        \/ z = NoParent /\ IF y = NoParent THEN r.stack # <<>> ELSE r.color[y] # "black"
    BY DEF Work
  <2>2. r.todo[y] \subseteq s.todo[y] BY <1>9
  <2>3. y # NoParent => y \in Nodes BY DEF Frames
  <2> QED BY <1>18, <2>1, <2>2, <2>3 DEF Work
<1>20. <<x, d>> \in Work(s) /\ <<x, d>> \notin Work(r)
  <2>1. d \in Frames /\ d \notin r.todo[x] BY <1>1, <1>2, <1>3, <1>9
  <2> QED BY <1>1, <1>3, <2>1 DEF Work
<1> QED BY <1>16, <1>19, <1>20 DEF r

\* A dependency is followed that calls nothing: it closes a cycle or is finished.
LEMMA FollowedFits ==
  ASSUME Graph, NEW s, SearchFits(s), s.stack # <<>>,
         NEW d \in s.todo[s.stack[1]],
         NEW C \in SUBSET Seq(Nodes), \A c \in C : RealCycle(c),
         C = {} => s.cycles = {} /\ s.color[d] = "black"
  PROVE  LET r == [stack |-> s.stack, todo |-> Followed(s, s.stack[1], d),
                   color |-> s.color, parent |-> s.parent, cycles |-> C]
         IN  SearchFits(r) /\ Work(r) \subseteq Work(s) /\ Work(r) # Work(s)
<1> DEFINE x == s.stack[1]
           todo == Followed(s, x, d)
           r == [stack |-> s.stack, todo |-> todo, color |-> s.color,
                 parent |-> s.parent, cycles |-> C]
<1>1. DOMAIN s.stack = 1 .. Len(s.stack) /\ Len(s.stack) \in Nat \ {0} /\ x \in Frames
  BY TopIs
<1>2. s \in SearchStates /\ d \in Nodes BY <1>1 DEF SearchFits, SearchStates
<1>3. NoParent \notin Nodes /\ Nodes \subseteq Frames
  BY OrdersAssumption DEF OrdersAssumption, Nodes, Frames
<1>4. /\ todo \in [Frames -> SUBSET Nodes]
      /\ \A y \in Frames : todo[y] = IF y = x THEN s.todo[x] \ {d} ELSE s.todo[y]
  BY <1>1, <1>2 DEF Followed, SearchStates
<1> HIDE DEF todo
<1>5. r \in SearchStates BY <1>2, <1>4 DEF SearchStates
<1>6. \A y \in Frames : todo[y] \subseteq Follows(y) BY <1>4 DEF SearchFits
<1>7. ASSUME NEW y \in Nodes
      PROVE  /\ s.color[y] = "gray" <=> \E i \in DOMAIN s.stack : s.stack[i] = y
             /\ s.color[y] = "white" => todo[y] = Follows(y)
  <2>1. y = x => s.color[y] = "gray" BY <1>1 DEF SearchFits
  <2> QED BY <1>3, <1>4, <2>1 DEF SearchFits
<1>8. ASSUME C = {}
      PROVE  /\ \A y \in Nodes : s.color[y] = "black" =>
                    y \notin Upstream(y) /\ \A e \in Follows(y) : s.color[e] = "black"
             /\ \A i \in DOMAIN s.stack : \A e \in Follows(s.stack[i]) \ todo[s.stack[i]] :
                    s.color[e] = "black" \/ (i > 1 /\ e = s.stack[i - 1])
             /\ s.stack = <<>> => \A y \in Nodes : s.color[y] = "black"
  <2>1. /\ s.color[d] = "black"
        /\ \A y \in Nodes : s.color[y] = "black" =>
               y \notin Upstream(y) /\ \A e \in Follows(y) : s.color[e] = "black"
        /\ \A i \in DOMAIN s.stack : \A e \in Follows(s.stack[i]) \ s.todo[s.stack[i]] :
               s.color[e] = "black" \/ (i > 1 /\ e = s.stack[i - 1])
    BY <1>8 DEF SearchFits
  <2>2. ASSUME NEW i \in DOMAIN s.stack, NEW e \in Follows(s.stack[i]) \ todo[s.stack[i]]
        PROVE  s.color[e] = "black" \/ (i > 1 /\ e = s.stack[i - 1])
    <3>1. s.stack[i] \in Frames
      <4>1. s.stack \in Seq(Frames) BY <1>2 DEF SearchStates
      <4> QED BY <1>1, <4>1, ElementOfSeq
    <3>2. e = d \/ e \notin s.todo[s.stack[i]] BY <1>4, <2>2, <3>1
    <3> QED BY <2>1, <2>2, <3>2
  <2> QED BY <2>1, <2>2
<1>9. SearchFits(r) BY <1>5, <1>6, <1>7, <1>8 DEF SearchFits
<1>10. Work(r) \subseteq Work(s) BY <1>4 DEF Work
<1>11. <<x, d>> \in Work(s) /\ <<x, d>> \notin Work(r)
  <2>1. d \in Frames /\ d # NoParent /\ d \notin todo[x] BY <1>1, <1>2, <1>3, <1>4
  <2> QED BY <1>1, <2>1 DEF Work
<1> QED BY <1>9, <1>10, <1>11 DEF todo

LEMMA ReportFits ==
  ASSUME Graph, NEW s, SearchFits(s), s.stack # <<>>,
         NEW d \in s.todo[s.stack[1]], s.color[d] = "gray"
  PROVE  LET r == Report(s, s.stack[1], d)
         IN  SearchFits(r) /\ Work(r) \subseteq Work(s) /\ Work(r) # Work(s)
<1> DEFINE x == s.stack[1]
           w == WayBack(x, d, s.parent)
           C == s.cycles \cup {w}
<1>1. /\ DOMAIN s.stack = 1 .. Len(s.stack) /\ Len(s.stack) \in Nat \ {0} /\ x \in Frames
      /\ x = NoParent => Len(s.stack) = 1
      /\ x # NoParent => x \in Nodes /\ Len(s.stack) > 1
  BY TopIs
<1>2. /\ s.stack \in Seq(Frames) /\ StackFits(s.stack, s.parent)
      /\ s.cycles \in SUBSET Seq(Nodes) /\ \A c \in s.cycles : RealCycle(c)
      /\ d \in Nodes /\ d \in Follows(x)
  BY <1>1 DEF SearchFits, SearchStates
<1>3. PICK i \in 1 .. Len(s.stack) : s.stack[i] = d BY <1>1, <1>2 DEF SearchFits
<1>4. x # NoParent
  <2> SUFFICES ASSUME x = NoParent PROVE FALSE OBVIOUS
  <2>1. i = 1 BY <1>1, <1>3
  <2> QED BY <1>2, <1>3, <2>1, OrdersAssumption DEF OrdersAssumption, Nodes
<1>5. d \in forward[x] BY <1>2, <1>4 DEF Follows
<1>6. \E m \in DOMAIN s.stack : s.stack[m] = d BY <1>1, <1>3
<1>7. RealCycle(w) BY <1>1, <1>2, <1>4, <1>5, <1>6, WayBackIsCycle
<1> HIDE DEF w
<1>8. C \in SUBSET Seq(Nodes) /\ C # {} /\ \A c \in C : RealCycle(c)
  BY <1>2, <1>7 DEF RealCycle
<1>9. Report(s, x, d) = [stack |-> s.stack, todo |-> Followed(s, x, d), color |-> s.color,
                         parent |-> s.parent, cycles |-> C]
  BY DEF Report, w
<1> HIDE DEF C
<1> QED BY <1>8, <1>9, FollowedFits

LEMMA PassFits ==
  ASSUME Graph, NEW s, SearchFits(s), s.stack # <<>>,
         NEW d \in s.todo[s.stack[1]], s.color[d] = "black"
  PROVE  LET r == Pass(s, s.stack[1], d)
         IN  SearchFits(r) /\ Work(r) \subseteq Work(s) /\ Work(r) # Work(s)
<1>1. s.cycles \in SUBSET Seq(Nodes) /\ \A c \in s.cycles : RealCycle(c)
  BY DEF SearchFits, SearchStates
<1> QED BY <1>1, FollowedFits DEF Pass

\* A task that was finished before any cycle was found leads to finished tasks
\* only, and so not back to itself.
LEMMA FinishedIsAcyclic ==
  ASSUME Graph, NEW B \in SUBSET Nodes, \A y \in B : Follows(y) \subseteq B,
         NEW x \in Nodes \ B, Follows(x) \subseteq B
  PROVE  x \notin Upstream(x)
<1> DEFINE S == {u \in Task : u \in Nodes => u \in B}
<1>1. \A y \in Task : forward[y] \subseteq Task BY DEF Graph, TypeOK
<1>2. x \in Task /\ NoParent \notin Nodes
  BY OrdersAssumption DEF OrdersAssumption, Nodes
<1>3. \A y \in Nodes : Follows(y) = forward[y] \cap Nodes BY <1>2 DEF Follows
<1>4. forward[x] \subseteq S BY <1>1, <1>2, <1>3
<1>5. ASSUME NEW u \in S, NEW v \in forward[u] PROVE v \in S
  <2>1. u \in Nodes BY DEF Graph, EdgesMirror, Nodes
  <2> QED BY <1>1, <1>3, <2>1
<1>6. S \in SUBSET Task /\ x \notin S BY <1>2
<1> HIDE DEF S
<1> QED BY <1>4, <1>5, <1>6 DEF Upstream

LEMMA LeaveFits ==
  ASSUME Graph, NEW s, SearchFits(s), s.stack # <<>>, s.todo[s.stack[1]] = {}
  PROVE  LET r == Leave(s, s.stack[1])
         IN  SearchFits(r) /\ Work(r) \subseteq Work(s) /\ Work(r) # Work(s)
<1> DEFINE x == s.stack[1]
           st == s.stack
           r == Leave(s, x)
           L == Len(st)
<1>1. /\ DOMAIN st = 1 .. L /\ L \in Nat \ {0} /\ x \in Frames
      /\ x = NoParent => L = 1
      /\ x # NoParent => x \in Nodes /\ L > 1
  BY TopIs
<1>2. s \in SearchStates /\ StackFits(st, s.parent) /\ st \in Seq(Frames) /\ s.todo[x] = {}
  BY DEF SearchFits, SearchStates
<1>3. NoParent \notin Nodes /\ Nodes \subseteq Frames
  BY OrdersAssumption DEF OrdersAssumption, Nodes, Frames
<1>4. /\ r.stack = Tail(st) /\ r.todo = s.todo /\ r.parent = s.parent /\ r.cycles = s.cycles
      /\ r.color = [t \in Nodes |-> IF t = x THEN "black" ELSE s.color[t]]
      /\ r = [stack |-> r.stack, todo |-> r.todo, color |-> r.color,
              parent |-> r.parent, cycles |-> r.cycles]
  BY DEF Leave
<1> HIDE DEF r
<1>5. /\ r.stack \in Seq(Frames) /\ Len(r.stack) = L - 1 /\ DOMAIN r.stack = 1 .. L - 1
      /\ \A i \in 1 .. L - 1 : r.stack[i] = st[i + 1]
  <2>1. /\ r.stack \in Seq(Frames) /\ Len(r.stack) = L - 1
        /\ \A i \in 1 .. Len(r.stack) : r.stack[i] = st[i + 1]
    BY <1>2, <1>4, HeadTailProperties
  <2> QED BY <1>1, <2>1, LenProperties
<1>6. /\ r.color \in [Nodes -> {"white", "gray", "black"}]
      /\ \A y \in Nodes : r.color[y] = IF y = x THEN "black" ELSE s.color[y]
  BY <1>2, <1>4 DEF SearchStates
<1>7. r \in SearchStates
  <2>1. r.todo \in [Frames -> SUBSET Nodes] /\ r.parent \in [Nodes -> Frames]
        /\ r.cycles \in SUBSET Seq(Nodes)
    BY <1>2, <1>4 DEF SearchStates
  <2> QED BY <1>4, <1>5, <1>6, <2>1 DEF SearchStates
<1>8. StackFits(r.stack, r.parent)
  <2>1. ASSUME NEW i \in 1 .. L - 1, NEW j \in 1 .. L - 1, r.stack[i] = r.stack[j] PROVE i = j
    <3>1. i + 1 \in DOMAIN st /\ j + 1 \in DOMAIN st /\ st[i + 1] = st[j + 1]
      BY <1>1, <1>5, <2>1
    <3>2. i + 1 = j + 1 BY <1>2, <3>1 DEF StackFits
    <3> QED BY <3>2
  <2>2. ASSUME NEW i \in 1 .. L - 1 - 1
        PROVE  /\ r.stack[i] \in Nodes /\ r.parent[r.stack[i]] = r.stack[i + 1]
               /\ r.stack[i + 1] \in Nodes => r.stack[i] \in forward[r.stack[i + 1]]
    <3> DEFINE j == i + 1
    <3>1. i \in 1 .. L - 1 /\ j \in 1 .. L - 1 BY <1>1
    <3> HIDE DEF j
    <3>2. /\ st[j] \in Nodes /\ s.parent[st[j]] = st[j + 1]
          /\ st[j + 1] \in Nodes => st[j] \in forward[st[j + 1]]
      BY <1>2, <3>1 DEF StackFits
    <3>3. r.stack[i] = st[j] BY <1>5, <3>1 DEF j
    <3>4. r.stack[j] = st[j + 1] BY <1>5, <3>1
    <3> QED BY <1>4, <3>2, <3>3, <3>4 DEF j
  <2>3. L - 1 > 0 => r.stack[L - 1] = NoParent
    <3> SUFFICES ASSUME L - 1 > 0 PROVE r.stack[L - 1] = NoParent OBVIOUS
    <3>1. L - 1 \in 1 .. L - 1 /\ L - 1 + 1 = L /\ L > 0 BY <1>1
    <3>2. st[L] = NoParent BY <1>2, <3>1 DEF StackFits
    <3>3. r.stack[L - 1] = st[L - 1 + 1] BY <1>5, <3>1
    <3> QED BY <3>1, <3>2, <3>3
  <2> QED BY <1>5, <2>1, <2>2, <2>3 DEF StackFits
<1>9. \A y \in Frames : r.todo[y] \subseteq Follows(y) BY <1>4 DEF SearchFits
<1>10. ASSUME NEW y \in Nodes
       PROVE  /\ r.color[y] = "gray" <=> \E i \in DOMAIN r.stack : r.stack[i] = y
              /\ r.color[y] = "white" => r.todo[y] = Follows(y)
  <2>1. s.color[y] = "gray" <=> \E i \in 1 .. L : st[i] = y BY <1>1 DEF SearchFits
  <2>2. ASSUME NEW i \in 1 .. L - 1, r.stack[i] = y PROVE y # x /\ \E j \in 1 .. L : st[j] = y
    <3> DEFINE j == i + 1
    <3>1. j \in 1 .. L /\ j # 1 /\ 1 \in 1 .. L BY <1>1
    <3>2. st[j] = y BY <1>5, <2>2
    <3> HIDE DEF j
    <3>3. st[j] # st[1] BY <1>1, <1>2, <3>1 DEF StackFits
    <3> QED BY <3>1, <3>2, <3>3
  <2>3. ASSUME NEW j \in 1 .. L, st[j] = y, y # x PROVE \E i \in 1 .. L - 1 : r.stack[i] = y
    <3> DEFINE i == j - 1
    <3>1. j # 1 BY <2>3
    <3>2. i \in 1 .. L - 1 /\ i + 1 = j BY <1>1, <3>1
    <3> HIDE DEF i
    <3>3. r.stack[i] = st[i + 1] BY <1>5, <3>2
    <3> QED BY <2>3, <3>2, <3>3
  <2>4. (\E i \in DOMAIN r.stack : r.stack[i] = y) <=> y # x /\ \E j \in 1 .. L : st[j] = y
    BY <1>5, <2>2, <2>3
  <2>5. s.color[y] = "white" => s.todo[y] = Follows(y) BY DEF SearchFits
  <2> QED BY <1>4, <1>6, <2>1, <2>4, <2>5
<1>11. ASSUME r.cycles = {}
       PROVE  /\ \A y \in Nodes : r.color[y] = "black" =>
                     y \notin Upstream(y) /\ \A e \in Follows(y) : r.color[e] = "black"
              /\ \A i \in DOMAIN r.stack : \A e \in Follows(r.stack[i]) \ r.todo[r.stack[i]] :
                     r.color[e] = "black" \/ (i > 1 /\ e = r.stack[i - 1])
              /\ r.stack = <<>> => \A y \in Nodes : r.color[y] = "black"
  <2>1. /\ \A y \in Nodes : s.color[y] = "black" =>
               y \notin Upstream(y) /\ \A e \in Follows(y) : s.color[e] = "black"
        /\ \A i \in 1 .. L : \A e \in Follows(st[i]) \ s.todo[st[i]] :
               s.color[e] = "black" \/ (i > 1 /\ e = st[i - 1])
    BY <1>1, <1>4, <1>11 DEF SearchFits
  <2>2. \A y \in Frames : Follows(y) \subseteq Nodes BY DEF Follows
  <2>3. \A e \in Follows(x) : s.color[e] = "black"
    <3>1. 1 \in 1 .. L /\ ~(1 > 1) BY <1>1
    <3> QED BY <1>2, <2>1, <3>1
  <2>4. \A y \in Nodes : s.color[y] = "black" => r.color[y] = "black" BY <1>6
  <2>5. x \in Nodes => x \notin Upstream(x)
    <3> SUFFICES ASSUME x \in Nodes PROVE x \notin Upstream(x) OBVIOUS
    <3> DEFINE B == {y \in Nodes : s.color[y] = "black"}
    <3>1. s.color[x] = "gray" BY <1>1 DEF SearchFits
    <3>2. x \notin B /\ B \in SUBSET Nodes BY <3>1
    <3>3. \A y \in B : Follows(y) \subseteq B BY <1>3, <2>1, <2>2
    <3>4. Follows(x) \subseteq B BY <1>1, <2>2, <2>3
    <3> HIDE DEF B
    <3> QED BY <3>2, <3>3, <3>4, FinishedIsAcyclic
  <2>6. ASSUME NEW y \in Nodes, r.color[y] = "black"
        PROVE  y \notin Upstream(y) /\ \A e \in Follows(y) : r.color[e] = "black"
    <3>1. CASE y = x BY <1>3, <2>2, <2>3, <2>4, <2>5, <3>1
    <3>2. CASE y # x BY <1>3, <1>6, <2>1, <2>2, <2>4, <2>6, <3>2
    <3> QED BY <3>1, <3>2
  <2>7. ASSUME NEW i \in 1 .. L - 1, NEW e \in Follows(r.stack[i]) \ r.todo[r.stack[i]]
        PROVE  r.color[e] = "black" \/ (i > 1 /\ e = r.stack[i - 1])
    <3> DEFINE j == i + 1
    <3>1. j \in 1 .. L /\ j > 1 /\ j - 1 = i BY <1>1
    <3>2. r.stack[i] = st[j] BY <1>5
    <3> HIDE DEF j
    <3>3. st[j] \in Frames BY <1>1, <1>2, <3>1, ElementOfSeq
    <3>4. e \in Nodes /\ e \in Follows(st[j]) \ s.todo[st[j]] BY <1>4, <2>2, <2>7, <3>2, <3>3
    <3>5. s.color[e] = "black" \/ e = st[j - 1] BY <2>1, <3>1, <3>4
    <3>6. CASE s.color[e] = "black" BY <2>4, <3>4, <3>6
    <3>7. CASE e = st[i] /\ i = 1 BY <1>6, <3>4, <3>7
    <3>8. CASE e = st[i] /\ i # 1
      <4> DEFINE k == i - 1
      <4>1. k \in 1 .. L - 1 /\ k + 1 = i /\ i > 1 BY <1>1, <3>8
      <4> HIDE DEF k
      <4>2. r.stack[k] = st[k + 1] BY <1>5, <4>1
      <4> QED BY <3>8, <4>1, <4>2 DEF k
    <3> QED BY <3>1, <3>5, <3>6, <3>7, <3>8
  <2>8. ASSUME r.stack = <<>>, NEW y \in Nodes PROVE r.color[y] = "black"
    <3>1. L = 1 BY <1>1, <1>5, <2>8, EmptySeq
    <3>2. x = NoParent BY <1>1, <3>1
    <3>3. y \in Follows(x) BY <3>2 DEF Follows
    <3> QED BY <2>3, <2>4, <3>3
  <2> QED BY <1>5, <2>6, <2>7, <2>8
<1>12. \A c \in r.cycles : RealCycle(c) BY <1>4 DEF SearchFits
<1>13. SearchFits(r) BY <1>7, <1>8, <1>9, <1>10, <1>11, <1>12 DEF SearchFits
<1>14. Work(r) \subseteq Work(s)
  <2> SUFFICES ASSUME NEW y \in Frames, NEW z \in Frames, <<y, z>> \in Work(r)
               PROVE  <<y, z>> \in Work(s)
    BY DEF Work
  <2>1. \/ z \in r.todo[y]
        \/ z = NoParent /\ IF y = NoParent THEN r.stack # <<>> ELSE r.color[y] # "black"
    BY DEF Work
  <2>2. y # NoParent => y \in Nodes BY DEF Frames
  <2>3. y # NoParent /\ r.color[y] # "black" => s.color[y] # "black" BY <1>6, <2>2
  <2> QED BY <1>4, <2>1, <2>3 DEF Work
<1>15. <<x, NoParent>> \in Work(s) /\ <<x, NoParent>> \notin Work(r)
  <2>1. NoParent \in Frames /\ NoParent \notin s.todo[x] BY <1>2 DEF Frames
  <2>2. CASE x = NoParent
    <3>1. r.stack = <<>> BY <1>1, <1>5, <2>2, EmptySeq
    <3> QED BY <1>4, <2>1, <2>2, <3>1 DEF Work
  <2>3. CASE x # NoParent
    <3>1. s.color[x] = "gray" BY <1>1, <2>3 DEF SearchFits
    <3>2. r.color[x] = "black" BY <1>1, <1>6, <2>3
    <3> QED BY <1>1, <1>4, <2>1, <2>3, <3>1, <3>2 DEF Work
  <2> QED BY <2>2, <2>3
<1> QED BY <1>13, <1>14, <1>15 DEF r

LEMMA StartSearches == Graph => SearchFits(SearchStart)
<1> SUFFICES ASSUME Graph PROVE SearchFits(SearchStart) OBVIOUS
<1> DEFINE s == SearchStart
           st == <<NoParent>>
<1>1. NoParent \in Frames /\ NoParent \notin Nodes /\ Nodes \subseteq Frames
  BY OrdersAssumption DEF OrdersAssumption, Nodes, Frames
<1>2. /\ s.stack = st /\ s.cycles = {}
      /\ s.todo = [x \in Frames |-> Follows(x)]
      /\ s.color = [t \in Nodes |-> "white"] /\ s.parent = [t \in Nodes |-> NoParent]
      /\ s = [stack |-> s.stack, todo |-> s.todo, color |-> s.color,
              parent |-> s.parent, cycles |-> s.cycles]
  BY DEF SearchStart
<1>3. st \in Seq(Frames) /\ Len(st) = 1 /\ DOMAIN st = 1 .. 1 /\ st[1] = NoParent BY <1>1
<1> HIDE DEF s, st
<1>4. \A x \in Frames : Follows(x) \in SUBSET Nodes BY DEF Follows
<1>5. s \in SearchStates BY <1>1, <1>2, <1>3, <1>4 DEF SearchStates
<1>6. StackFits(s.stack, s.parent) BY <1>2, <1>3 DEF StackFits
<1>7. \A x \in Nodes : ~\E i \in DOMAIN st : st[i] = x BY <1>1, <1>3
<1>8. st # <<>> BY <1>3
<1>9. \A i \in DOMAIN st : st[i] \in Frames BY <1>1, <1>3
<1>10. \A x \in Frames : s.todo[x] = Follows(x) BY <1>2
<1>11. \A x \in Nodes : s.color[x] = "white" /\ s.todo[x] = Follows(x) BY <1>1, <1>2, <1>10
<1> QED BY <1>2, <1>5, <1>6, <1>7, <1>8, <1>9, <1>10, <1>11 DEF SearchFits, s

LEMMA TurnSearches ==
  ASSUME Graph, NEW s, SearchFits(s)
  PROVE  LET r == SearchTurn(s)
         IN  /\ SearchFits(r)
             /\ s.stack = <<>> => r = s
             /\ s.stack # <<>> => Work(r) \subseteq Work(s) /\ Work(r) # Work(s)
<1>1. CASE s.stack = <<>>
  <2>1. SearchTurn(s) = s BY <1>1 DEF SearchTurn
  <2> QED BY <1>1, <2>1
<1>2. CASE s.stack # <<>>
  <2> DEFINE x == Head(s.stack)
             d == CHOOSE t \in s.todo[x] : TRUE
  <2>1. SearchTurn(s) = IF s.todo[x] = {} THEN Leave(s, x)
                        ELSE CASE s.color[d] = "white" -> Enter(s, x, d)
                               [] s.color[d] = "gray"  -> Report(s, x, d)
                               [] s.color[d] = "black" -> Pass(s, x, d)
    BY <1>2 DEF SearchTurn
  <2>2. x = s.stack[1] /\ x \in Frames BY <1>2, TopIs
  <2> HIDE DEF x
  <2>3. CASE s.todo[x] = {}
    <3>1. SearchTurn(s) = Leave(s, x) BY <2>1, <2>3
    <3> QED BY <1>2, <2>2, <2>3, <3>1, LeaveFits
  <2>4. CASE s.todo[x] # {}
    <3>1. d \in s.todo[x] BY <2>4
    <3> HIDE DEF d
    <3>2. d \in Nodes BY <2>2, <3>1 DEF SearchFits, SearchStates
    <3>3. s.color[d] \in {"white", "gray", "black"} BY <3>2 DEF SearchFits, SearchStates
    <3>4. CASE s.color[d] = "white"
      <4>1. SearchTurn(s) = Enter(s, x, d) BY <2>1, <2>4, <3>4
      <4> QED BY <1>2, <2>2, <3>1, <3>4, <4>1, EnterFits
    <3>5. CASE s.color[d] = "gray"
      <4>1. SearchTurn(s) = Report(s, x, d) BY <2>1, <2>4, <3>5
      <4> QED BY <1>2, <2>2, <3>1, <3>5, <4>1, ReportFits
    <3>6. CASE s.color[d] = "black"
      <4>1. SearchTurn(s) = Pass(s, x, d) BY <2>1, <2>4, <3>6
      <4> QED BY <1>2, <2>2, <3>1, <3>6, <4>1, PassFits
    <3> QED BY <3>3, <3>4, <3>5, <3>6
  <2> QED BY <2>3, <2>4
<1> QED BY <1>1, <1>2

LEMMA SearchedDef ==
  ASSUME Graph
  PROVE  \A n \in SearchTurns :
             Searched[n] = IF n = 0 THEN SearchStart ELSE SearchTurn(Searched[n - 1])
<1> DEFINE M == Cardinality(Frames \X Frames)
           S == {s \in SearchStates : SearchFits(s)}
           step == [p \in S \X (1 .. M) |-> SearchTurn(p[1])]
           Fits(g) == g = [n \in SearchTurns |-> IF n = 0 THEN SearchStart ELSE SearchTurn(g[n - 1])]
<1>1. M \in Nat /\ SearchTurns = 0 .. M
  BY FramesFinite, FS_Product, FS_CardinalityType DEF SearchTurns
<1>2. SearchStart \in S BY StartSearches DEF SearchFits
<1>3. ASSUME NEW s \in S PROVE SearchTurn(s) \in S
  <2>1. SearchFits(SearchTurn(s)) BY TurnSearches
  <2> QED BY <2>1 DEF SearchFits
<1>4. step \in Steps(M, S)
  <2> HIDE DEF S, M
  <2> QED BY <1>3 DEF Steps
<1>5. \A s \in S, n \in 1 .. M : step[<<s, n>>] = SearchTurn(s) OBVIOUS
<1> HIDE DEF S, step, M
<1>6. PICK g : Loops(g, M, S, SearchStart, step) BY <1>1, <1>2, <1>4, TurnsDefine
<1>7. /\ g \in [0 .. M -> S] /\ g[0] = SearchStart
      /\ \A n \in 1 .. M : g[n] = step[<<g[n - 1], n>>]
  BY <1>6 DEF Loops
<1>8. ASSUME NEW n \in 0 .. M PROVE g[n] = IF n = 0 THEN SearchStart ELSE SearchTurn(g[n - 1])
  <2>1. n # 0 => n - 1 \in 0 .. M /\ n \in 1 .. M BY <1>1
  <2>2. n # 0 => g[n - 1] \in S /\ g[n] = step[<<g[n - 1], n>>] BY <1>7, <2>1
  <2> QED BY <1>5, <1>7, <2>1, <2>2
<1>9. Fits(g) BY <1>1, <1>7, <1>8
<1>10. Searched = CHOOSE h : Fits(h) BY DEF Searched
<1>11. Fits(Searched)
  <2> HIDE DEF Fits
  <2> QED BY <1>9, <1>10
<1> QED BY <1>11

\* The turns suffice: after each there is less work left, and none is left to
\* an empty stack.
LEMMA SearchEnds ==
  ASSUME Graph
  PROVE  LET s == Searched[Cardinality(Frames \X Frames)]
         IN  SearchFits(s) /\ s.stack = <<>>
<1> DEFINE M == Cardinality(Frames \X Frames)
           Left(n) == Cardinality(Work(Searched[n]))
           Fits(n) == /\ SearchFits(Searched[n])
                      /\ Searched[n].stack = <<>> \/ Left(n) + n <= M
           R == {n \in Nat : n <= M => Fits(n)}
<1>1. /\ M \in Nat /\ SearchTurns = 0 .. M
      /\ \A W \in SUBSET (Frames \X Frames) :
             IsFiniteSet(W) /\ Cardinality(W) \in Nat /\ Cardinality(W) <= M
  BY FramesFinite, FS_Product, FS_Subset, FS_CardinalityType DEF SearchTurns
<1>2. \A s : Work(s) \in SUBSET (Frames \X Frames) BY DEF Work
<1>3. \A n \in SearchTurns :
          Searched[n] = IF n = 0 THEN SearchStart ELSE SearchTurn(Searched[n - 1])
  BY SearchedDef
<1>4. 0 \in R
  <2>1. Searched[0] = SearchStart BY <1>1, <1>3
  <2>2. SearchFits(Searched[0]) BY <2>1, StartSearches
  <2>3. Left(0) \in Nat /\ Left(0) <= M BY <1>1, <1>2
  <2> QED BY <2>2, <2>3
<1>5. ASSUME NEW n \in R, n < M PROVE n + 1 \in R
  <2> DEFINE m == n + 1
             s == Searched[n]
             r == Searched[m]
  <2> HIDE DEF M
  <2>1. n \in Nat /\ Fits(n) BY <1>1, <1>5
  <2>2. m \in SearchTurns /\ m # 0 /\ m - 1 = n /\ m \in Nat BY <1>1, <1>5, <2>1
  <2> HIDE DEF m
  <2>3. r = SearchTurn(s) BY <1>3, <2>2
  <2> HIDE DEF r, s
  <2>4. SearchFits(s) BY <2>1 DEF s
  <2>5. /\ SearchFits(r)
        /\ s.stack = <<>> => r = s
        /\ s.stack # <<>> => Work(r) \subseteq Work(s) /\ Work(r) # Work(s)
    BY <2>3, <2>4, TurnSearches
  <2>6. CASE s.stack = <<>> BY <2>2, <2>5, <2>6 DEF r
  <2>7. CASE s.stack # <<>>
    <3> DEFINE a == Cardinality(Work(s))
               b == Cardinality(Work(r))
    <3>1. IsFiniteSet(Work(s)) /\ a \in Nat /\ b \in Nat BY <1>1, <1>2
    <3>2. b <= a /\ a # b BY <2>5, <2>7, <3>1, FS_Subset
    <3>3. a + n <= M BY <2>1, <2>7 DEF s
    <3> HIDE DEF a, b
    <3>4. b + m <= M BY <1>1, <2>1, <3>1, <3>2, <3>3 DEF m
    <3>5. Left(m) + m <= M BY <3>4 DEF b, r
    <3>6. Fits(m) BY <2>5, <3>5 DEF r
    <3> HIDE DEF Fits
    <3>7. m \in R BY <2>2, <3>6
    <3> QED BY <3>7 DEF m
  <2> QED BY <2>6, <2>7 DEF m
<1>6. 0 .. M \subseteq R
  <2>1. R \in SUBSET Nat OBVIOUS
  <2> HIDE DEF R, M
  <2> QED BY <1>1, <1>4, <1>5, <2>1, CountTo
<1>7. SearchFits(Searched[M]) /\ (Searched[M].stack = <<>> \/ Left(M) + M <= M)
  <2> HIDE DEF M, Fits
  <2>1. M \in R /\ M <= M BY <1>1, <1>6
  <2>2. Fits(M) BY <2>1
  <2> QED BY <2>2 DEF Fits
<1>8. Searched[M].stack = <<>>
  <2> DEFINE s == Searched[M]
  <2> HIDE DEF M, s
  <2> SUFFICES ASSUME s.stack # <<>> PROVE FALSE BY DEF s
  <2>1. IsFiniteSet(Work(s)) /\ Cardinality(Work(s)) \in Nat BY <1>1, <1>2
  <2>2. Cardinality(Work(s)) + M <= M BY <1>7 DEF s
  <2>3. Cardinality(Work(s)) = 0 BY <1>1, <2>1, <2>2
  <2>4. Work(s) = {} BY <2>1, <2>3, FS_EmptySet
  <2>5. <<NoParent, NoParent>> \in Work(s) BY DEF Work, Frames
  <2> QED BY <2>4, <2>5
<1> QED BY <1>7, <1>8

\* The members of a cycle all wait for one another.
LEMMA RealCycleIsCyclic ==
  ASSUME TypeOK, NEW c, RealCycle(c)
  PROVE  Cyclic
<1> DEFINE R == {c[i] : i \in 1 .. Len(c)}
<1>1. c \in Seq(Nodes) /\ Len(c) \in Nat \ {0} /\ IsChain(c) /\ c[Len(c)] \in forward[c[1]]
  BY DEF RealCycle
<1>2. \A i \in 1 .. Len(c) : c[i] \in Nodes BY <1>1, ElementOfSeq
<1>3. 1 \in 1 .. Len(c) /\ Len(c) \in 1 .. Len(c) BY <1>1
<1>4. R \in SUBSET Nodes /\ R # {} BY <1>2, <1>3
<1>5. ASSUME NEW i \in 1 .. Len(c) PROVE \E b \in R : b \in forward[c[i]]
  <2>1. CASE i = 1 BY <1>1, <1>3, <2>1
  <2>2. CASE i # 1
    <3> DEFINE j == i - 1
    <3>1. j \in 1 .. Len(c) - 1 /\ j \in 1 .. Len(c) /\ j + 1 = i BY <1>1, <2>2
    <3> HIDE DEF j
    <3>2. c[j] \in forward[c[j + 1]] BY <1>1, <3>1 DEF IsChain
    <3> QED BY <3>1, <3>2
  <2> QED BY <2>1, <2>2
<1>6. \A x \in R : \E b \in R : b \in forward[x] BY <1>5
<1> HIDE DEF R
<1> QED BY <1>4, <1>6, StuckIsCyclic

\* detectCycles finds a cycle in every graph that has one and none in a graph
\* that has not, and each it reports is a cycle of dependencies: the grey tasks
\* are the calls under way, and a task that turned black before a cycle was
\* found is not upstream of itself.
THEOREM CyclesAlwaysReal == Spec => []CyclesAreReal
<1>1. Graph => CyclesAreReal
  <2> SUFFICES ASSUME Graph PROVE CyclesAreReal OBVIOUS
  <2> DEFINE s == Searched[Cardinality(Frames \X Frames)]
  <2>1. SearchFits(s) /\ s.stack = <<>> BY SearchEnds
  <2>2. DetectCycles = s.cycles BY DEF DetectCycles
  <2> HIDE DEF s
  <2>3. \A c \in DetectCycles : RealCycle(c) BY <2>1, <2>2 DEF SearchFits
  <2>4. DetectCycles # {} => Cyclic BY <2>3, RealCycleIsCyclic DEF Graph
  <2>5. ASSUME DetectCycles = {} PROVE ~Cyclic
    <3>1. \A x \in Nodes : x \notin Upstream(x) BY <2>1, <2>2, <2>5 DEF SearchFits
    <3> QED BY <3>1 DEF Cyclic
  <2> QED BY <2>3, <2>4, <2>5 DEF CyclesAreReal, RealCycle, IsChain
<1> QED BY <1>1, DagTypeCorrect, EdgesAlwaysMirror, PTL DEF Graph
=============================================================================
