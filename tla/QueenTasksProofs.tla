-------------------------- MODULE QueenTasksProofs --------------------------
(***************************************************************************)
(* Theorems about the task life cycle of the Queen coordinator.            *)
(***************************************************************************)
EXTENDS QueenTasks, FiniteSetTheorems, SequenceTheorems,
        WellFoundedInduction, TLAPS

(***************************************************************************)
(* The list operations keep lists of tasks lists of tasks                  *)
(***************************************************************************)
\* A set of naturals that is not empty has a least element.
LEMMA LeastNatural ==
    ASSUME NEW S \in SUBSET Nat, S # {}
    PROVE  /\ Min(S) \in S
           /\ \A y \in S : Min(S) <= y
<1>1. PICK x \in S : \A y \in S : ~(<<y, x>> \in OpToRel(<, Nat))
    BY WFMin, NatLessThanWellFounded
<1>2. \A y \in S : x <= y
    <2> SUFFICES ASSUME NEW y \in S, y < x PROVE FALSE
        OBVIOUS
    <2>1. <<y, x>> \in OpToRel(<, Nat)
        BY DEF OpToRel
    <2> QED BY <1>1, <2>1
<1> QED BY <1>2 DEF Min

\* Two parts of a list, put together, are a list of the same elements.
LEMMA PartsType ==
    ASSUME NEW S, NEW q \in Seq(S), NEW i \in Int, NEW j \in Int, NEW k \in Int,
           NEW m \in Int, NEW mid \in Seq(S),
           i >= 1, j <= Len(q), k >= 1, m <= Len(q)
    PROVE  SubSeq(q, i, j) \o mid \o SubSeq(q, k, m) \in Seq(S)
<1>1. \A n \in 1 .. Len(q) : q[n] \in S
    BY ElementOfSeq
<1>2. SubSeq(q, i, j) \in Seq(S) /\ SubSeq(q, k, m) \in Seq(S)
    BY <1>1, SubSeqProperties, LenProperties
<1> QED BY <1>2, ConcatProperties

\* A list of one element.
LEMMA SingleType ==
    ASSUME NEW S, NEW e \in S
    PROVE  <<e>> \in Seq(S)
<1>1. <<e>> \in [1 .. 1 -> S]
    BY SMT
<1> QED BY <1>1, SeqDef

\* InsertAt keeps a list.
LEMMA InsertAtType ==
    ASSUME NEW S, NEW q \in Seq(S), NEW e \in S, NEW n \in 0 .. Len(q)
    PROVE  InsertAt(q, n + 1, e) \in Seq(S)
<1>1. Len(q) \in Nat
    BY LenProperties
<1>2. SubSeq(q, 1, n) \o <<e>> \o SubSeq(q, n + 1, Len(q)) \in Seq(S)
    BY <1>1, SingleType, PartsType
<1>3. n + 1 - 1 = n
    OBVIOUS
<1> QED BY <1>2, <1>3 DEF InsertAt

\* The place binaryInsert finds is one of the list.
LEMMA InsertPlace ==
    ASSUME NEW q \in Seq(Task), NEW t \in Task
    PROVE  Cardinality(NoLater(q, t)) \in 0 .. Len(q)
<1>1. Len(q) \in Nat /\ NoLater(q, t) \subseteq 1 .. Len(q)
    BY LenProperties DEF NoLater
<1>2. IsFiniteSet(1 .. Len(q)) /\ Cardinality(1 .. Len(q)) = Len(q)
    <2> DEFINE n == Len(q)
    <2>1. n \in Nat
        BY <1>1
    <2> HIDE DEF n
    <2>2. IsFiniteSet(1 .. n) /\ Cardinality(1 .. n) = n
        BY <2>1, FS_Interval
    <2> QED BY <2>2 DEF n
<1> QED BY <1>1, <1>2, FS_Subset, FS_CardinalityType

\* binaryInsert keeps a list of tasks.
LEMMA InsertType ==
    ASSUME NEW q \in Seq(Task), NEW t \in Task
    PROVE  Insert(q, t) \in Seq(Task)
<1>1. InsertAt(q, Cardinality(NoLater(q, t)) + 1, t) \in Seq(Task)
    BY InsertPlace, InsertAtType
<1> QED BY <1>1 DEF Insert

\* Removing an entry keeps a list of tasks.
LEMMA RemoveFirstType ==
    ASSUME NEW q \in Seq(Task), NEW t
    PROVE  RemoveFirst(q, t) \in Seq(Task)
<1> DEFINE I == {i \in 1 .. Len(q) : q[i] = t}
<1>1. CASE I = {}
    BY <1>1 DEF RemoveFirst
<1>2. CASE I # {}
    <2>1. Len(q) \in Nat
        BY LenProperties
    <2>2. Min(I) \in I
        <3>1. I \in SUBSET Nat
            BY <2>1
        <3> HIDE DEF I
        <3> QED BY <1>2, <3>1, LeastNatural
    <2>3. RemoveFirst(q, t) =
              SubSeq(q, 1, Min(I) - 1) \o SubSeq(q, Min(I) + 1, Len(q))
        BY <1>2 DEF RemoveFirst, RemoveAt, SelectInSeq
    <2>4. /\ SubSeq(q, 1, Min(I) - 1) \in Seq(Task)
          /\ SubSeq(q, Min(I) + 1, Len(q)) \in Seq(Task)
        <3> DEFINE k == Min(I)
        <3>1. k \in 1 .. Len(q)
            BY <2>2
        <3> HIDE DEF k
        <3>2. \A n \in 1 .. Len(q) : q[n] \in Task
            BY ElementOfSeq
        <3>3. SubSeq(q, 1, k - 1) \in Seq(Task) /\ SubSeq(q, k + 1, Len(q)) \in Seq(Task)
            BY <2>1, <3>1, <3>2, SubSeqProperties
        <3> QED BY <3>3 DEF k
    <2> QED BY <2>3, <2>4, ConcatProperties
<1> QED BY <1>1, <1>2

(***************************************************************************)
(* Type correctness                                                        *)
(***************************************************************************)
\* An invocation that assigns has a task; and only a pass over the queues that is
\* between two lists may have run past the last priority.
InRange(fr) ==
    /\ fr.pc \in {"route", "spawn", "announce", "refused", "rejected"} => fr.task \in Task
    /\ fr.pc # "drain" => fr.pri \in Priority

FramesInRange == \A f \in Frame : InRange(frames[f])

TypeInv == TypeOK /\ FramesInRange

FrameOK(fr) == fr \in FrameState /\ InRange(fr)

FramesOK(frs) ==
    /\ frs \in [Frame -> FrameState]
    /\ \A f \in Frame : InRange(frs[f])

\* Replacing one frame by a well-formed one keeps the frames well-formed.
LEMMA SetFrame ==
    ASSUME TypeInv, NEW f \in Frame, NEW fr, FrameOK(fr), Set(f, fr)
    PROVE  FramesOK(frames')
BY DEF TypeInv, TypeOK, FramesInRange, FrameOK, FramesOK, Set

LEMMA SameFrames ==
    ASSUME TypeInv, UNCHANGED frames
    PROVE  FramesOK(frames')
BY DEF TypeInv, TypeOK, FramesInRange, FramesOK

LEMMA NoFrameOK == NoFrame \in FrameState /\ NoFrame.pri = 0 /\ NoFrame.pc = "idle"
<1>1. <<>> \in Seq(Domain)
    BY EmptySeq
<1> QED BY <1>1 DEF FrameState, NoFrame

LEMMA FreshFrames ==
    /\ FrameOK(NoFrame)
    /\ \A p \in 0 .. 4 : FrameOK(Draining(p))
<1>1. FrameOK(NoFrame)
    BY NoFrameOK DEF FrameOK, InRange, Priority
<1>2. ASSUME NEW p \in 0 .. 4 PROVE FrameOK(Draining(p))
    BY NoFrameOK DEF FrameOK, InRange, Draining, FrameState
<1> QED BY <1>1, <1>2

LEMMA AssigningOK ==
    ASSUME NEW by \in {"submit", "queue"}, NEW t \in Task, NEW p \in Priority,
           NEW d \in Domain \cup {NoDomain}
    PROVE  FrameOK(Assigning(by, t, p, d))
<1>1. FirstStop(d) \in {"refused", "route"}
    BY DEF FirstStop
<1>2. Assigning(by, t, p, d) \in FrameState
    BY <1>1, EmptySeq DEF Assigning, FrameState, Priority
<1>3. Assigning(by, t, p, d).pri = p /\ Assigning(by, t, p, d).task = t
    BY DEF Assigning
<1> QED BY <1>2, <1>3 DEF FrameOK, InRange

LEMMA ReturnedOK ==
    ASSUME NEW fr \in FrameState, fr.pri \in Priority
    PROVE  FrameOK(Returned(fr))
<1>1. CASE fr.by = "queue"
    BY <1>1, FreshFrames DEF Returned, Priority
<1>2. CASE fr.by = "steal"
    <2>1. Returned(fr) = [fr EXCEPT !.pc = "steal", !.task = NoTask, !.dom = NoDomain]
        BY <1>2 DEF Returned
    <2> QED BY <2>1 DEF FrameOK, InRange, FrameState
<1>3. CASE fr.by \notin {"queue", "steal"}
    BY <1>3, FreshFrames DEF Returned
<1> QED BY <1>1, <1>2, <1>3

\* the chosen domain is a domain, or none
LEMMA ChosenType ==
    ASSUME NEW t \in Task, NEW healthy, NEW dq, NEW d \in Chosen(t, healthy, dq)
    PROVE  d \in Domain \cup {NoDomain}
<1>1. Candidates(t) \in Seq(Domain)
    BY QueenAssumption DEF Candidates
<1>2. \A i \in DOMAIN Candidates(t) : Candidates(t)[i] \in Domain
    BY <1>1, LenProperties, ElementOfSeq
<1> QED BY <1>2 DEF Chosen

LEMMA EnqueueType ==
    ASSUME TypeOK, NEW t \in Task, Enqueue(t)
    PROVE  /\ queue' \in [Priority -> Seq(Task)]
           /\ domainQueue' \in [Domain -> Seq(Task)]
<1>1. PriorityOf[t] \in Priority
    BY QueenAssumption
<1>2. Insert(queue[PriorityOf[t]], t) \in Seq(Task)
    BY <1>1, InsertType DEF TypeOK
<1>3. queue' \in [Priority -> Seq(Task)]
    BY <1>1, <1>2 DEF TypeOK, Enqueue
<1>4. \A d \in Domain : Append(domainQueue[d], t) \in Seq(Task)
    BY AppendProperties DEF TypeOK
<1>5. domainQueue' \in [Domain -> Seq(Task)]
    BY <1>4 DEF TypeOK, Enqueue, EnqueueInDomain
<1> QED BY <1>3, <1>5

LEMMA WithoutType ==
    ASSUME TypeOK, NEW t
    PROVE  WithoutInDomains(t) \in [Domain -> Seq(Task)]
<1>1. \A d \in Domain : RemoveFirst(domainQueue[d], t) \in Seq(Task)
    BY RemoveFirstType DEF TypeOK
<1> QED BY <1>1 DEF TypeOK, WithoutInDomains

LEMMA RemoveType ==
    ASSUME TypeOK, NEW t \in Task, RemoveFromQueues(t)
    PROVE  /\ queue' \in [Priority -> Seq(Task)]
           /\ domainQueue' \in [Domain -> Seq(Task)]
<1>1. PriorityOf[t] \in Priority
    BY QueenAssumption
<1>2. RemoveFirst(queue[PriorityOf[t]], t) \in Seq(Task)
    BY <1>1, RemoveFirstType DEF TypeOK
<1>3. queue' \in [Priority -> Seq(Task)]
    BY <1>1, <1>2 DEF TypeOK, RemoveFromQueues
<1> QED BY <1>3, WithoutType DEF RemoveFromQueues

TasksOK ==
    /\ status \in [Task -> Status]
    /\ domain \in [Task -> Domain \cup {NoDomain}]
    /\ retries \in [Task -> 0 .. RetryLimit]
    /\ agent \in [Task -> {"none", "running", "stopped"}]
    /\ orphans \in Nat

QueuesOK ==
    /\ queue \in [Priority -> Seq(Task)]
    /\ domainQueue \in [Domain -> Seq(Task)]

ReportsOK ==
    /\ callbacks \in [Task -> Nat]
    /\ events \in [Task -> Nat]

\* The type invariant, group of variables by group of variables.
LEMMA TypeParts ==
    TypeInv <=> TasksOK /\ counter \in Int /\ QueuesOK /\ FramesOK(frames) /\ ReportsOK
BY DEF TypeInv, TypeOK, FramesInRange, TasksOK, QueuesOK, FramesOK, ReportsOK

LEMMA TypePartsNext ==
    TypeInv' <=> TasksOK' /\ counter' \in Int /\ QueuesOK' /\ FramesOK(frames') /\ ReportsOK'
BY DEF TypeInv, TypeOK, FramesInRange, TasksOK, QueuesOK, FramesOK, ReportsOK

LEMMA Unchanged ==
    ASSUME TypeInv
    PROVE  /\ UNCHANGED tasksVars => TasksOK'
           /\ UNCHANGED counter => counter' \in Int
           /\ UNCHANGED queueVars => QueuesOK'
           /\ UNCHANGED frames => FramesOK(frames')
           /\ UNCHANGED reportVars => ReportsOK'
BY DEF TypeInv, TypeOK, FramesInRange, FramesOK, TasksOK, QueuesOK, ReportsOK,
       tasksVars, queueVars, reportVars

\* Submissions keep the type invariant.
LEMMA SubmitType ==
    ASSUME TypeInv, NEW t \in Task
    PROVE  /\ \A f \in Frame : SubmitDirect(t, f) => TypeInv'
           /\ SubmitQueued(t) => TypeInv'
<1>1. ASSUME NEW f \in Frame, SubmitDirect(t, f) PROVE TypeInv'
    <2>1. PICK healthy \in HealthViews :
              \E d \in Chosen(t, healthy, domainQueue) : Set(f, Assigning("submit", t, 0, d))
        BY <1>1 DEF SubmitDirect
    <2>2. PICK d \in Chosen(t, healthy, domainQueue) : Set(f, Assigning("submit", t, 0, d))
        BY <2>1
    <2>3. FramesOK(frames')
        BY <2>2, ChosenType, AssigningOK, SetFrame DEF Priority
    <2>4. counter' \in Int
        BY <1>1 DEF SubmitDirect, TypeInv, TypeOK
    <2> QED BY <1>1, <2>3, <2>4, Unchanged, TypePartsNext DEF SubmitDirect
<1>2. ASSUME SubmitQueued(t) PROVE TypeInv'
    <2>1. TasksOK'
        BY <1>2, QueenAssumption DEF SubmitQueued, TypeInv, TypeOK, TasksOK, Status
    <2>2. QueuesOK'
        BY <1>2, EnqueueType DEF SubmitQueued, TypeInv, QueuesOK
    <2>3. ReportsOK'
        BY <1>2 DEF SubmitQueued, TypeInv, TypeOK, ReportsOK
    <2> QED BY <1>2, <2>1, <2>2, <2>3, Unchanged, TypePartsNext DEF SubmitQueued
<1> QED BY <1>1, <1>2

\* A resumed assignment keeps the type invariant.
LEMMA AssignType ==
    ASSUME TypeInv, NEW f \in Frame,
           RouteAccepted(f) \/ RouteBreakerOpen(f) \/ Assign(f)
    PROVE  TypeInv'
<1>1. frames[f] \in FrameState /\ InRange(frames[f])
    BY DEF TypeInv, TypeOK, FramesInRange
<1>2. CASE RouteAccepted(f)
    <2>1. PoolHasRoom \in BOOLEAN
        BY DEF PoolHasRoom
    <2> DEFINE fr == [frames[f] EXCEPT !.pc = "spawn", !.hired = PoolHasRoom]
    <2>2. FrameOK(fr)
        BY <1>1, <1>2, <2>1 DEF FrameOK, InRange, FrameState, RouteAccepted
    <2>3. Set(f, fr)
        BY <1>2 DEF RouteAccepted
    <2> HIDE DEF fr
    <2>4. FramesOK(frames')
        BY <2>2, <2>3, SetFrame
    <2> QED BY <1>2, <2>4, Unchanged, TypePartsNext DEF RouteAccepted
<1>3. CASE RouteBreakerOpen(f)
    <2>1. FrameOK([frames[f] EXCEPT !.pc = "refused"])
        BY <1>1, <1>3 DEF FrameOK, InRange, FrameState, RouteBreakerOpen
    <2>2. FramesOK(frames')
        BY <1>3, <2>1, SetFrame DEF RouteBreakerOpen
    <2> QED BY <1>3, <2>2, Unchanged, TypePartsNext DEF RouteBreakerOpen
<1>4. CASE Assign(f)
    <2>1. FrameOK([frames[f] EXCEPT !.pc = "announce", !.hired = FALSE])
        BY <1>1, <1>4 DEF FrameOK, InRange, FrameState, Assign
    <2>2. FramesOK(frames')
        BY <1>4, <2>1, SetFrame DEF Assign
    <2>3. TasksOK'
        <3>1. /\ frames[f].task \in Task
              /\ frames[f].dom \in Domain \cup {NoDomain}
              /\ frames[f].hired \in BOOLEAN
            BY <1>1, <1>4 DEF FrameState, InRange, Assign
        <3> DEFINE t == frames[f].task
                   d == frames[f].dom
                   hired == frames[f].hired
        <3>2. /\ status' = [status EXCEPT ![t] = "running"]
              /\ domain' = [domain EXCEPT ![t] = d]
              /\ retries' = [retries EXCEPT ![t] = 0]
              /\ agent' = [agent EXCEPT ![t] = IF hired THEN "running" ELSE "none"]
              /\ orphans' = IF agent[t] = "running" THEN orphans + 1 ELSE orphans
            BY <1>4, Zenon DEF Assign
        <3> HIDE DEF t, d, hired
        <3>3. t \in Task /\ d \in Domain \cup {NoDomain} /\ hired \in BOOLEAN
            BY <3>1 DEF t, d, hired
        <3>4. status' \in [Task -> Status] /\ domain' \in [Task -> Domain \cup {NoDomain}]
            BY <3>2, <3>3 DEF TypeInv, TypeOK, Status
        <3>5. retries' \in [Task -> 0 .. RetryLimit]
            BY <3>2, <3>3, QueenAssumption DEF TypeInv, TypeOK
        <3>6. agent' \in [Task -> {"none", "running", "stopped"}]
            BY <3>2, <3>3 DEF TypeInv, TypeOK
        <3>7. orphans' \in Nat
            BY <3>2, <3>3 DEF TypeInv, TypeOK
        <3> QED BY <3>4, <3>5, <3>6, <3>7 DEF TasksOK
    <2> QED BY <1>4, <2>2, <2>3, Unchanged, TypePartsNext DEF Assign
<1> QED BY <1>2, <1>3, <1>4

\* Handing the task over, or the refusal of it, keeps the type invariant.
LEMMA DeliverType ==
    ASSUME TypeInv, NEW f \in Frame,
           Deliver(f) \/ PluginRefuses(f) \/ Refused(f)
    PROVE  TypeInv'
<1>1. /\ frames[f] \in FrameState
      /\ InRange(frames[f])
      /\ counter \in Int
    BY DEF TypeInv, TypeOK, FramesInRange
<1>2. CASE Deliver(f)
    <2>1. FramesOK(frames')
        BY <1>1, <1>2, ReturnedOK, SetFrame DEF Deliver, InRange
    <2>2. Published(f) \in Nat
        <3> DEFINE own == IF frames[f].dom \in PluginDomains THEN 0 ELSE 1
                   executor == IF ExecutorRuns /\ frames[f].by = "submit" THEN 1 ELSE 0
        <3>1. own \in Nat /\ executor \in Nat
            OBVIOUS
        <3>2. Published(f) = own + executor
            BY DEF Published
        <3> HIDE DEF own, executor
        <3> QED BY <3>1, <3>2
    <2>3. ReportsOK'
        <3> DEFINE t == frames[f].task
                   plugin == frames[f].dom \in PluginDomains
                   n == Published(f)
        <3>1. /\ callbacks' = [callbacks EXCEPT ![t] = IF plugin THEN @ + 1 ELSE @]
              /\ events' = [events EXCEPT ![t] = @ + n]
            BY <1>2, Zenon DEF Deliver
        <3>2. n \in Nat
            BY <2>2
        <3>3. t \in Task
            BY <1>1, <1>2 DEF InRange, Deliver
        <3>4. plugin \in BOOLEAN
            OBVIOUS
        <3> HIDE DEF t, plugin, n
        <3>5. callbacks' \in [Task -> Nat]
            BY <3>1, <3>3, <3>4 DEF TypeInv, TypeOK
        <3>6. events' \in [Task -> Nat]
            BY <3>1, <3>2, <3>3 DEF TypeInv, TypeOK
        <3> QED BY <3>5, <3>6 DEF ReportsOK
    <2> QED BY <1>2, <2>1, <2>3, Unchanged, TypePartsNext DEF Deliver
<1>3. CASE PluginRefuses(f)
    <2>1. FrameOK([frames[f] EXCEPT !.pc = "rejected"])
        BY <1>1, <1>3 DEF FrameOK, InRange, FrameState, PluginRefuses
    <2>2. FramesOK(frames')
        BY <1>3, <2>1, SetFrame DEF PluginRefuses
    <2>3. TasksOK'
        <3>1. frames[f].task \in Task /\ frames[f].dom \in Domain \cup {NoDomain}
            BY <1>1, <1>3 DEF FrameState, InRange, PluginRefuses
        <3> DEFINE t == frames[f].task
                   d == frames[f].dom
        <3>2. /\ status' = [status EXCEPT ![t] = "failed"]
              /\ domain' = [domain EXCEPT ![t] = d]
              /\ retries' = [retries EXCEPT ![t] = 0]
              /\ UNCHANGED <<agent, orphans>>
            BY <1>3, Zenon DEF PluginRefuses
        <3> HIDE DEF t, d
        <3>3. t \in Task /\ d \in Domain \cup {NoDomain}
            BY <3>1 DEF t, d
        <3>4. status' \in [Task -> Status] /\ domain' \in [Task -> Domain \cup {NoDomain}]
            BY <3>2, <3>3 DEF TypeInv, TypeOK, Status, Finished
        <3>5. retries' \in [Task -> 0 .. RetryLimit]
            BY <3>2, <3>3, QueenAssumption DEF TypeInv, TypeOK
        <3> QED BY <3>2, <3>4, <3>5 DEF TypeInv, TypeOK, TasksOK
    <2>4. counter' \in Int
        BY <1>1, <1>3 DEF PluginRefuses, AtLeastZero
    <2> QED BY <1>3, <2>2, <2>3, <2>4, Unchanged, TypePartsNext DEF PluginRefuses
<1>4. CASE Refused(f)
    <2>1. FramesOK(frames')
        BY <1>1, <1>4, ReturnedOK, SetFrame DEF Refused, InRange
    <2>2. counter' \in Int
        BY <1>1, <1>4 DEF Refused
    <2> QED BY <1>4, <2>1, <2>2, Unchanged, TypePartsNext DEF Refused
<1> QED BY <1>2, <1>3, <1>4

\* A pass over the queues keeps the type invariant.
LEMMA DrainType ==
    ASSUME TypeInv, NEW f \in Frame
    PROVE  /\ DrainStops(f) => TypeInv'
           /\ DomainEvent(f) => TypeInv'
           /\ \A p \in Priority : Dequeue(f, p) => TypeInv'
<1>1. ASSUME DrainStops(f) PROVE TypeInv'
    <2>1. FramesOK(frames')
        BY <1>1, FreshFrames, SetFrame DEF DrainStops
    <2> QED BY <1>1, <2>1, Unchanged, TypePartsNext DEF DrainStops
<1>2. ASSUME DomainEvent(f) PROVE TypeInv'
    <2>1. FramesOK(frames')
        BY <1>2, FreshFrames, SetFrame, 0 \in 0 .. 4 DEF DomainEvent
    <2> QED BY <1>2, <2>1, Unchanged, TypePartsNext DEF DomainEvent
<1>3. ASSUME NEW p \in Priority, Dequeue(f, p) PROVE TypeInv'
    <2> DEFINE t == Head(queue[p])
    <2>1. queue[p] \in Seq(Task) /\ queue[p] # <<>>
        BY <1>3 DEF TypeInv, TypeOK, Dequeue, Waiting
    <2>2. t \in Task /\ Tail(queue[p]) \in Seq(Task)
        BY <2>1, HeadTailProperties
    <2>3. /\ queue' = [queue EXCEPT ![p] = RemoveFirst(Tail(@), t)]
          /\ domainQueue' = WithoutInDomains(t)
          /\ counter' = counter + 1
          /\ \E healthy \in HealthViews :
                 \E d \in Chosen(t, healthy, domainQueue') : Set(f, Assigning("queue", t, p, d))
          /\ UNCHANGED <<tasksVars, reportVars>>
        BY <1>3 DEF Dequeue
    <2> HIDE DEF t
    <2>4. QueuesOK'
        <3>1. RemoveFirst(Tail(queue[p]), t) \in Seq(Task)
            BY <2>2, RemoveFirstType
        <3>2. queue' \in [Priority -> Seq(Task)]
            BY <2>3, <3>1 DEF TypeInv, TypeOK
        <3> QED BY <2>3, <3>2, WithoutType DEF QueuesOK, TypeInv
    <2>5. FramesOK(frames')
        BY <2>2, <2>3, ChosenType, AssigningOK, SetFrame
    <2>6. counter' \in Int
        BY <2>3 DEF TypeInv, TypeOK
    <2> QED BY <2>3, <2>4, <2>5, <2>6, Unchanged, TypePartsNext
<1> QED BY <1>1, <1>2, <1>3

\* Reports keep the type invariant.
LEMMA ReportType ==
    ASSUME TypeInv, NEW t \in Task, NEW f \in Frame, Report(t, f)
    PROVE  TypeInv'
<1>1. counter \in Int
    BY DEF TypeInv, TypeOK
<1>2. ASSUME NEW outcome \in Outcomes, CallbackReport(t, f, outcome) PROVE TypeInv'
    <2>1. FramesOK(frames')
        BY <1>2, FreshFrames, SetFrame, 0 \in 0 .. 4 DEF CallbackReport
    <2>2. TasksOK'
        BY <1>2 DEF CallbackReport, StopAgent, Outcomes, Finished, TypeInv, TypeOK, TasksOK, Status
    <2>3. ReportsOK'
        BY <1>2 DEF CallbackReport, TypeInv, TypeOK, ReportsOK
    <2>4. counter' \in Int
        BY <1>1, <1>2 DEF CallbackReport, AtLeastZero
    <2> QED BY <1>2, <2>1, <2>2, <2>3, <2>4, Unchanged, TypePartsNext DEF CallbackReport
<1>3. ASSUME EventTaken(t, f) PROVE FramesOK(frames') /\ (UNCHANGED callbacks => ReportsOK')
    <2>1. FramesOK(frames')
        BY <1>3, FreshFrames, SetFrame, 0 \in 0 .. 4 DEF EventTaken
    <2>2. UNCHANGED callbacks => ReportsOK'
        BY <1>3 DEF EventTaken, TypeInv, TypeOK, ReportsOK
    <2> QED BY <2>1, <2>2
<1>4. ASSUME SlotReturned(t) PROVE counter' \in Int
    BY <1>1, <1>4 DEF SlotReturned, AtLeastZero
<1>5. CASE TaskCompleted(t, f)
    <2>1. TasksOK'
        BY <1>5 DEF TaskCompleted, TypeInv, TypeOK, TasksOK, Status, Finished
    <2> QED BY <1>3, <1>4, <1>5, <2>1, Unchanged, TypePartsNext DEF TaskCompleted
<1>6. CASE TaskFailedRetry(t, f)
    <2>1. retries[t] + 1 \in 0 .. RetryLimit
        BY <1>6, QueenAssumption DEF TaskFailedRetry, RetriesLeft, TypeInv, TypeOK
    <2>2. TasksOK'
        BY <1>6, <2>1 DEF TaskFailedRetry, TypeInv, TypeOK, TasksOK, Status
    <2>3. QueuesOK'
        BY <1>6, EnqueueType DEF TaskFailedRetry, TypeInv, QueuesOK
    <2> QED BY <1>3, <1>4, <1>6, <2>2, <2>3, Unchanged, TypePartsNext DEF TaskFailedRetry
<1>7. CASE TaskFailedForGood(t, f)
    <2>1. TasksOK'
        BY <1>7 DEF TaskFailedForGood, TypeInv, TypeOK, TasksOK, Status, Finished
    <2> QED BY <1>3, <1>4, <1>7, <2>1, Unchanged, TypePartsNext DEF TaskFailedForGood
<1>8. CASE EventUnknown(t, f)
    BY <1>3, <1>8, Unchanged, TypePartsNext DEF EventUnknown
<1> QED BY <1>2, <1>5, <1>6, <1>7, <1>8 DEF Report

\* Cancelling and forgetting tasks keep the type invariant.
LEMMA RemovalType ==
    ASSUME TypeInv, NEW t \in Task
    PROVE  /\ CancelTask(t) => TypeInv'
           /\ CleanUp(t) => TypeInv'
           /\ CallbackUnknown(t) => TypeInv'
<1>1. ASSUME CancelTask(t) PROVE TypeInv'
    <2>1. TasksOK'
        BY <1>1 DEF CancelTask, StopAgent, TypeInv, TypeOK, TasksOK, Status
    <2>2. QueuesOK'
        BY <1>1, RemoveType DEF CancelTask, TypeInv, QueuesOK
    <2>3. counter' \in Int
        BY <1>1 DEF CancelTask, SlotReturned, AtLeastZero, TypeInv, TypeOK
    <2> QED BY <1>1, <2>1, <2>2, <2>3, Unchanged, TypePartsNext DEF CancelTask
<1>2. ASSUME CleanUp(t) PROVE TypeInv'
    <2>1. TasksOK'
        BY <1>2, QueenAssumption DEF CleanUp, TypeInv, TypeOK, TasksOK, Status
    <2> QED BY <1>2, <2>1, Unchanged, TypePartsNext DEF CleanUp
<1>3. ASSUME CallbackUnknown(t) PROVE TypeInv'
    <2>1. ReportsOK'
        BY <1>3 DEF CallbackUnknown, TypeInv, TypeOK, ReportsOK
    <2> QED BY <1>3, <2>1, Unchanged, TypePartsNext DEF CallbackUnknown
<1> QED BY <1>1, <1>2, <1>3

LEMMA DomainsFinite == IsFiniteSet(Domain)
<1>1. DomainSeq \in Seq(STRING)
    BY QueenAssumption
<1>2. Len(DomainSeq) \in Nat /\ DOMAIN DomainSeq = 1 .. Len(DomainSeq)
    BY <1>1, LenProperties
<1>3. IsFiniteSet(1 .. Len(DomainSeq))
    BY <1>2, FS_Interval
<1>4. DomainSeq \in [1 .. Len(DomainSeq) -> Domain]
    BY <1>1, <1>2, LenProperties DEF Domain
<1>5. DomainSeq \in Surjection(1 .. Len(DomainSeq), Domain)
    BY <1>2, <1>4 DEF Surjection, Domain
<1> QED BY <1>3, <1>5, FS_Surjection

\* The domains of a set in some order are a list of domains.
LEMMA SetToSeqsType ==
    ASSUME NEW S \in SUBSET Domain, NEW s \in SetToSeqs(S)
    PROVE  /\ s \in Seq(Domain)
           /\ S # {} => s # <<>>
<1>1. Cardinality(S) \in Nat /\ (S # {} => Cardinality(S) # 0)
    BY DomainsFinite, FS_Subset, FS_CardinalityType, FS_EmptySet
<1> DEFINE n == Cardinality(S)
<1>2. n \in Nat
    BY <1>1
<1>3. s \in [1 .. n -> S]
    BY DEF SetToSeqs
<1> HIDE DEF n
<1>4. s \in [1 .. n -> Domain]
    BY <1>3
<1>5. s \in Seq(Domain)
    BY <1>2, <1>4, SeqDef
<1>6. ASSUME n # 0 PROVE s # <<>>
    <2>1. 1 \in DOMAIN s
        BY <1>2, <1>3, <1>6
    <2>2. DOMAIN <<>> = {}
        BY EmptySeq, LenProperties
    <2> QED BY <2>1, <2>2
<1> QED BY <1>1, <1>5, <1>6 DEF n

LEMMA ShareType ==
    ASSUME TypeOK, NEW d \in Domain
    PROVE  Share(d, domainQueue) \in Nat
<1>1. Len(domainQueue[d]) \in Nat
    BY LenProperties DEF TypeOK
<1> QED BY <1>1, QueenAssumption DEF Share, MinOf

\* Work stealing keeps the type invariant.
LEMMA StealType ==
    ASSUME TypeInv, NEW f \in Frame
    PROVE  /\ StartStealing(f) => TypeInv'
           /\ StealTask(f) => TypeInv'
           /\ StealMovesOn(f) => TypeInv'
<1>1. frames[f] \in FrameState /\ InRange(frames[f])
    BY DEF TypeInv, TypeOK, FramesInRange
<1>2. ASSUME StartStealing(f) PROVE TypeInv'
    <2>1. PICK idle \in SUBSET {d \in Domain : Load(d, domainQueue) = 0} \ {{}} :
              \E thieves \in SetToSeqs(idle), victims \in SetToSeqs(Busy) :
                  /\ InDomainOrder(thieves)
                  /\ ByLoad(victims)
                  /\ Set(f, Looting(thieves, victims))
        BY <1>2 DEF StartStealing
    <2>2. PICK thieves \in SetToSeqs(idle), victims \in SetToSeqs(Busy) :
              Set(f, Looting(thieves, victims))
        BY <2>1
    <2>3. Busy \in SUBSET Domain /\ Busy # {}
        BY <1>2 DEF Busy, StartStealing
    <2>4. thieves \in Seq(Domain) /\ victims \in Seq(Domain) /\ victims # <<>>
        BY <2>3, SetToSeqsType
    <2>5. Share(Head(victims), domainQueue) \in Nat
        BY <2>4, HeadTailProperties, ShareType DEF TypeInv
    <2>6. FrameOK(Looting(thieves, victims))
        <3>1. Looting(thieves, victims) \in FrameState
            BY <2>4, <2>5 DEF Looting, FrameState
        <3> QED BY <3>1 DEF FrameOK, InRange, Looting, Priority
    <2>7. FramesOK(frames')
        BY <2>2, <2>6, SetFrame
    <2> QED BY <1>2, <2>7, Unchanged, TypePartsNext DEF StartStealing
<1>3. ASSUME StealTask(f) PROVE TypeInv'
    <2> DEFINE fr == frames[f]
    <2>1. PICK i \in Loot(f) :
              LET t == domainQueue[Head(fr.victims)][i]
              IN  /\ RemoveFromQueues(t)
                  /\ Set(f, [fr EXCEPT !.pc = "route", !.task = t,
                                       !.dom = Head(fr.thieves),
                                       !.thieves = Tail(@), !.left = @ - 1])
        BY <1>3, Zenon DEF StealTask
    <2>2. /\ fr.thieves \in Seq(Domain) /\ fr.thieves # <<>>
          /\ fr.victims \in Seq(Domain) /\ fr.victims # <<>>
          /\ fr.left \in Nat /\ fr.left # 0
          /\ i \in DOMAIN domainQueue[Head(fr.victims)]
        BY <1>1, <2>1 DEF Loot, FrameState
    <2>3. domainQueue[Head(fr.victims)] \in Seq(Task)
        BY <2>2, HeadTailProperties DEF TypeInv, TypeOK
    <2> DEFINE t == domainQueue[Head(fr.victims)][i]
    <2>4. t \in Task
        BY <2>2, <2>3, LenProperties, ElementOfSeq
    <2>5. Head(fr.thieves) \in Domain /\ Tail(fr.thieves) \in Seq(Domain)
        BY <2>2, HeadTailProperties
    <2> DEFINE assigned == [fr EXCEPT !.pc = "route", !.task = t, !.dom = Head(fr.thieves)]
               next == [assigned EXCEPT !.thieves = Tail(fr.thieves), !.left = fr.left - 1]
    <2>6. assigned \in FrameState /\ InRange(assigned)
        BY <1>1, <1>3, <2>4, <2>5 DEF FrameState, InRange, StealTask, Priority
    <2>7. Set(f, next)
        BY <2>1
    <2> HIDE DEF assigned
    <2>8. FrameOK(next)
        <3> DEFINE thieves == Tail(fr.thieves)
                   left == fr.left - 1
        <3>1. thieves \in Seq(Domain) /\ left \in Nat
            BY <2>2, <2>5
        <3> HIDE DEF thieves, left
        <3>2. [assigned EXCEPT !.thieves = thieves, !.left = left] \in FrameState
            BY <2>6, <3>1 DEF FrameState
        <3>3. InRange([assigned EXCEPT !.thieves = thieves, !.left = left])
            BY <2>6 DEF FrameState, InRange
        <3> QED BY <3>2, <3>3 DEF FrameOK, thieves, left
    <2>9. FramesOK(frames')
        BY <2>7, <2>8, SetFrame
    <2>10. QueuesOK'
        BY <2>1, <2>4, RemoveType DEF TypeInv, QueuesOK
    <2> QED BY <1>3, <2>9, <2>10, Unchanged, TypePartsNext DEF StealTask
<1>4. ASSUME StealMovesOn(f) PROVE TypeInv'
    <2> DEFINE fr == frames[f]
    <2>1. CASE fr.thieves = <<>> \/ Len(fr.victims) <= 1
        <3>1. Set(f, NoFrame)
            BY <1>4, <2>1, Zenon DEF StealMovesOn
        <3>2. FramesOK(frames')
            BY <3>1, FreshFrames, SetFrame
        <3> QED BY <1>4, <3>2, Unchanged, TypePartsNext DEF StealMovesOn
    <2>2. CASE ~(fr.thieves = <<>> \/ Len(fr.victims) <= 1)
        <3> DEFINE n == Share(fr.victims[2], domainQueue)
                   next == [fr EXCEPT !.victims = Tail(fr.victims), !.left = n]
        <3>1. Set(f, next)
            BY <1>4, <2>2 DEF StealMovesOn
        <3>2. fr.victims \in Seq(Domain) /\ Len(fr.victims) \in Nat
            BY <1>1, LenProperties DEF FrameState
        <3>3. fr.victims[2] \in Domain /\ Tail(fr.victims) \in Seq(Domain)
            BY <2>2, <3>2, ElementOfSeq, EmptySeq, HeadTailProperties
        <3>4. n \in Nat
            BY <3>3, ShareType DEF TypeInv
        <3>5. fr.pc = "steal"
            BY <1>4, Zenon DEF StealMovesOn
        <3> HIDE DEF n
        <3>6. FrameOK(next)
            BY <1>1, <3>3, <3>4, <3>5 DEF FrameOK, FrameState, InRange
        <3> HIDE DEF next
        <3>7. FramesOK(frames')
            BY <3>1, <3>6, SetFrame
        <3> QED BY <1>4, <3>7, Unchanged, TypePartsNext DEF StealMovesOn
    <2> QED BY <2>1, <2>2
<1> QED BY <1>2, <1>3, <1>4

\* The type invariant is inductive.
LEMMA TypeStep == TypeInv /\ [Next]_vars => TypeInv'
<1> SUFFICES ASSUME TypeInv, [Next]_vars PROVE TypeInv'
    OBVIOUS
<1>1. ASSUME NEW f \in Frame, Resume(f) PROVE TypeInv'
    BY <1>1, AssignType, DeliverType, DrainType, StealType DEF Resume
<1>2. ASSUME NEW t \in Task, NEW f \in Frame, Report(t, f) \/ SubmitDirect(t, f)
      PROVE  TypeInv'
    BY <1>2, ReportType, SubmitType
<1>3. ASSUME NEW t \in Task, SubmitQueued(t) \/ CallbackUnknown(t) \/ CancelTask(t) \/ CleanUp(t)
      PROVE  TypeInv'
    BY <1>3, SubmitType, RemovalType
<1>4. ASSUME NEW f \in Frame, DomainEvent(f) \/ StartStealing(f) PROVE TypeInv'
    BY <1>4, DrainType, StealType
<1>5. CASE UNCHANGED vars
    BY <1>5, Unchanged, TypePartsNext DEF vars, tasksVars, queueVars, reportVars
<1> QED BY <1>1, <1>2, <1>3, <1>4, <1>5 DEF Next

LEMMA TypeInit == Init => TypeInv
<1> SUFFICES ASSUME Init PROVE TypeInv
    OBVIOUS
<1>1. TasksOK /\ counter \in Int /\ ReportsOK
    BY QueenAssumption DEF Init, TasksOK, ReportsOK, Status
<1>2. QueuesOK
    BY EmptySeq DEF Init, QueuesOK
<1>3. FramesOK(frames)
    BY FreshFrames DEF Init, FramesOK, FrameOK
<1> QED BY <1>1, <1>2, <1>3, TypeParts

\* Every variable keeps its type, whatever the configuration: lists hold tasks
\* only, a retry count never passes taskRetryLimit, no report is consumed twice.
THEOREM TypeCorrect == Spec => []TypeOK
<1>1. TypeInv => TypeOK
    BY DEF TypeInv
<1> QED BY <1>1, TypeInit, TypeStep, PTL DEF Spec

(***************************************************************************)
(* Capacity                                                                *)
(*                                                                         *)
(* As long as work is reported by events and nothing is stolen, the slots  *)
(* that are taken cover the running tasks, so that maxConcurrentTasks      *)
(* holds, whatever fails, is retried, refused, run twice or cancelled.     *)
(***************************************************************************)
EventsOnly == PluginDomains = {} /\ Stealing = FALSE

\* Under that assumption an invocation that assigns was started by submitTask or
\* by processQueue.
Paying(fr) ==
    /\ fr.pc \notin {"steal", "rejected"}
    /\ fr.pc \in {"route", "spawn", "announce", "refused"} => fr.by \in {"submit", "queue"}

FramesPaying == \A f \in Frame : Paying(frames[f])

CapacityInv ==
    /\ TypeInv
    /\ FramesPaying
    /\ \A t \in Task : callbacks[t] = 0
    /\ CounterCovers
    /\ counter <= MaxConcurrent

LEMMA CountSubset ==
    ASSUME NEW S, NEW T, IsFiniteSet(S), T \subseteq S
    PROVE  Cardinality(T) \in Nat /\ Cardinality(T) <= Cardinality(S)
BY FS_Subset, FS_CardinalityType

LEMMA CountMore ==
    ASSUME NEW S, NEW T, NEW x, IsFiniteSet(S), T \subseteq S \cup {x}
    PROVE  Cardinality(T) \in Nat /\ Cardinality(T) <= Cardinality(S) + 1
<1>1. IsFiniteSet(S \cup {x}) /\ Cardinality(S \cup {x}) <= Cardinality(S) + 1
    <2>1. Cardinality(S) \in Nat
        BY FS_CardinalityType
    <2>2. Cardinality(S \cup {x}) \in {Cardinality(S), Cardinality(S) + 1}
        BY FS_AddElement, Zenon
    <2> QED BY <2>1, <2>2, FS_AddElement
<1>2. Cardinality(T) \in Nat /\ Cardinality(T) <= Cardinality(S \cup {x})
    BY <1>1, CountSubset
<1> QED BY <1>1, <1>2, FS_CardinalityType

LEMMA CountLess ==
    ASSUME NEW S, NEW T, NEW x \in S, IsFiniteSet(S), T \subseteq S \ {x}
    PROVE  Cardinality(T) \in Nat /\ Cardinality(T) <= Cardinality(S) - 1
<1>1. IsFiniteSet(S \ {x}) /\ Cardinality(S \ {x}) = Cardinality(S) - 1
    BY FS_RemoveElement
<1> QED BY <1>1, CountSubset

LEMMA CountsAreFinite ==
    /\ IsFiniteSet(Running) /\ Cardinality(Running) \in Nat
    /\ IsFiniteSet(Reserved) /\ Cardinality(Reserved) \in Nat
<1>1. IsFiniteSet(Task)
    BY QueenAssumption, FS_Interval DEF Task
<1>2. IsFiniteSet(Frame)
    BY QueenAssumption
<1>3. Running \in SUBSET Task /\ Reserved \in SUBSET Frame
    BY DEF Running, Reserved
<1> QED BY <1>1, <1>2, <1>3, FS_Subset, FS_CardinalityType

\* What replacing one frame does to the reserved slots.
LEMMA ReservedAfter ==
    ASSUME CapacityInv, NEW f \in Frame, NEW fr, Set(f, fr)
    PROVE  /\ Reserved' \subseteq Reserved \cup {f}
           /\ ~HoldsSlot(fr) => Reserved' \subseteq Reserved \ {f}
           /\ Paying(fr) => FramesPaying'
<1>1. frames' = [frames EXCEPT ![f] = fr] /\ frames \in [Frame -> FrameState]
    BY DEF Set, CapacityInv, TypeInv, TypeOK
<1>2. \A g \in Frame : frames'[g] = IF g = f THEN fr ELSE frames[g]
    BY <1>1
<1>3. Reserved' = {g \in Frame : HoldsSlot(frames'[g])}
    BY DEF Reserved, HoldsSlot
<1>4. FramesPaying' <=> \A g \in Frame : Paying(frames'[g])
    BY DEF FramesPaying, Paying
<1>5. \A g \in Reserved' : g \in Reserved \cup {f} /\ (~HoldsSlot(fr) => g # f)
    BY <1>2, <1>3 DEF Reserved
<1>6. Paying(fr) => FramesPaying'
    BY <1>2, <1>4 DEF CapacityInv, FramesPaying
<1> QED BY <1>5, <1>6

LEMMA FreshFramesPay ==
    /\ ~HoldsSlot(NoFrame) /\ Paying(NoFrame)
    /\ \A p : ~HoldsSlot(Draining(p)) /\ Paying(Draining(p))
    /\ \A by \in {"submit", "queue"} : \A t, p, d : Paying(Assigning(by, t, p, d))
<1>1. NoFrame.pc = "idle"
    BY DEF NoFrame
<1>2. \A p : Draining(p).pc = "drain"
    BY DEF Draining, NoFrame
<1>3. \A by, t, p, d : /\ Assigning(by, t, p, d).by = by
                       /\ Assigning(by, t, p, d).pc \in {"refused", "route"}
    BY DEF Assigning, FirstStop
<1> QED BY <1>1, <1>2, <1>3 DEF HoldsSlot, Paying

LEMMA CoversMeans ==
    CounterCovers <=> counter >= Cardinality(Running) + Cardinality(Reserved)
BY DEF CounterCovers

LEMMA CapacityParts ==
    ASSUME TypeInv', FramesPaying', (\A t \in Task : callbacks'[t] = 0),
           counter' >= Cardinality(Running') + Cardinality(Reserved'),
           counter' <= MaxConcurrent
    PROVE  CapacityInv'
BY DEF CapacityInv, CounterCovers

\* A step that leaves the running tasks alone and raises the counter by one for
\* at most one more reserved slot, within the limit.
LEMMA SlotTaken ==
    ASSUME CapacityInv, TypeInv', NEW f \in Frame, NEW fr, Set(f, fr), Paying(fr),
           counter' = counter + 1, counter' <= MaxConcurrent,
           UNCHANGED status, UNCHANGED callbacks
    PROVE  CapacityInv'
<1>1. Reserved' \subseteq Reserved \cup {f} /\ FramesPaying'
    BY ReservedAfter
<1>2. Running' = Running
    BY DEF Running
<1>3. Cardinality(Reserved') \in Nat /\ Cardinality(Reserved') <= Cardinality(Reserved) + 1
    BY <1>1, CountsAreFinite, CountMore
<1>4. counter' >= Cardinality(Running') + Cardinality(Reserved')
    BY <1>2, <1>3, CountsAreFinite, CoversMeans DEF CapacityInv, TypeInv, TypeOK
<1> QED BY <1>1, <1>4, CapacityParts DEF CapacityInv

\* A step that stops at most the task t, and gives its slot back if it ran.
LEMMA SlotGivenBack ==
    ASSUME CapacityInv, TypeInv', FramesPaying', NEW t \in Task,
           Reserved' \subseteq Reserved,
           SlotReturned(t) \/ (UNCHANGED counter /\ status[t] # "running"),
           \A u \in Task : status'[u] = "running" => u # t /\ status[u] = "running",
           UNCHANGED callbacks
    PROVE  CapacityInv'
<1>1. counter \in Int /\ MaxConcurrent \in Nat \ {0} /\ counter <= MaxConcurrent
    BY QueenAssumption DEF CapacityInv, TypeInv, TypeOK
<1>2. Cardinality(Reserved') \in Nat /\ Cardinality(Reserved') <= Cardinality(Reserved)
    BY CountsAreFinite, CountSubset
<1>3. Running' \subseteq Running \ {t}
    BY DEF Running
<1>4. counter >= Cardinality(Running) + Cardinality(Reserved)
    BY CoversMeans DEF CapacityInv
<1>5. CASE status[t] = "running"
    <2>1. t \in Running
        BY <1>5 DEF Running
    <2>2. Cardinality(Running') \in Nat /\ Cardinality(Running') <= Cardinality(Running) - 1
        BY <1>3, <2>1, CountsAreFinite, CountLess
    <2>3. counter' = AtLeastZero(counter - 1)
        BY <1>5 DEF SlotReturned
    <2>4. counter' >= counter - 1 /\ counter' <= MaxConcurrent /\ counter' \in Int
        BY <1>1, <2>3 DEF AtLeastZero
    <2>5. counter' >= Cardinality(Running') + Cardinality(Reserved')
        BY <1>1, <1>2, <1>4, <2>2, <2>4, CountsAreFinite
    <2> QED BY <2>4, <2>5, CapacityParts DEF CapacityInv
<1>6. CASE status[t] # "running"
    <2>1. Cardinality(Running') \in Nat /\ Cardinality(Running') <= Cardinality(Running)
        BY <1>3, CountsAreFinite, CountSubset
    <2>2. counter' = counter
        BY <1>6 DEF SlotReturned
    <2>3. counter' >= Cardinality(Running') + Cardinality(Reserved')
        BY <1>1, <1>2, <1>4, <2>1, <2>2, CountsAreFinite
    <2> QED BY <1>1, <2>2, <2>3, CapacityParts DEF CapacityInv
<1> QED BY <1>5, <1>6

\* A step in which no slot is reserved and no task starts to run.
LEMMA NothingTaken ==
    ASSUME CapacityInv, TypeInv', FramesPaying', Reserved' \subseteq Reserved,
           UNCHANGED counter, UNCHANGED callbacks,
           \A u \in Task : status'[u] = "running" => status[u] = "running"
    PROVE  CapacityInv'
<1>1. Running' \subseteq Running
    BY DEF Running
<1>2. /\ Cardinality(Reserved') \in Nat /\ Cardinality(Reserved') <= Cardinality(Reserved)
      /\ Cardinality(Running') \in Nat /\ Cardinality(Running') <= Cardinality(Running)
    BY <1>1, CountsAreFinite, CountSubset
<1>3. counter' >= Cardinality(Running') + Cardinality(Reserved')
    BY <1>2, CountsAreFinite, CoversMeans DEF CapacityInv, TypeInv, TypeOK
<1> QED BY <1>3, CapacityParts DEF CapacityInv

\* Submissions and passes over the queues.
LEMMA CapacitySubmit ==
    ASSUME CapacityInv, TypeInv', NEW f \in Frame
    PROVE  /\ \A t \in Task : SubmitDirect(t, f) => CapacityInv'
           /\ \A p \in Priority : Dequeue(f, p) => CapacityInv'
           /\ DrainStops(f) => CapacityInv'
           /\ DomainEvent(f) => CapacityInv'
<1>1. ASSUME NEW t \in Task, SubmitDirect(t, f) PROVE CapacityInv'
    <2>1. PICK d : Set(f, Assigning("submit", t, 0, d))
        BY <1>1 DEF SubmitDirect
    <2>2. /\ counter' = counter + 1 /\ counter' <= MaxConcurrent
          /\ UNCHANGED status /\ UNCHANGED callbacks
        BY <1>1 DEF SubmitDirect, SlotFree, tasksVars, reportVars
    <2> QED BY <2>1, <2>2, FreshFramesPay, SlotTaken
<1>3. ASSUME NEW p \in Priority, Dequeue(f, p) PROVE CapacityInv'
    <2>1. PICK d : Set(f, Assigning("queue", Head(queue[p]), p, d))
        BY <1>3 DEF Dequeue
    <2>2. /\ counter' = counter + 1 /\ counter < MaxConcurrent
          /\ UNCHANGED status /\ UNCHANGED callbacks
        BY <1>3 DEF Dequeue, tasksVars, reportVars
    <2>3. counter' <= MaxConcurrent
        BY <2>2, QueenAssumption DEF CapacityInv, TypeInv, TypeOK
    <2> QED BY <2>1, <2>2, <2>3, FreshFramesPay, SlotTaken
<1>4. ASSUME Set(f, NoFrame) \/ Set(f, Draining(0)),
             UNCHANGED <<tasksVars, counter, queueVars, reportVars>>
      PROVE  CapacityInv'
    <2>1. Reserved' \subseteq Reserved /\ FramesPaying'
        BY <1>4, FreshFramesPay, ReservedAfter
    <2> QED BY <1>4, <2>1, NothingTaken DEF tasksVars, reportVars
<1> QED BY <1>1, <1>3, <1>4 DEF DrainStops, DomainEvent

\* The assignment of a task that has its slot.
LEMMA CapacityAssign ==
    ASSUME CapacityInv, EventsOnly, TypeInv', NEW f \in Frame,
           \/ RouteAccepted(f) \/ RouteBreakerOpen(f) \/ Assign(f)
           \/ Deliver(f) \/ PluginRefuses(f) \/ Refused(f)
    PROVE  CapacityInv'
<1>1. Paying(frames[f]) /\ frames[f] \in FrameState
    BY DEF CapacityInv, FramesPaying, TypeInv, TypeOK
<1>2. ASSUME RouteAccepted(f) \/ RouteBreakerOpen(f) PROVE CapacityInv'
    <2> DEFINE hired == PoolHasRoom
    <2>1. PICK fr : /\ Set(f, fr)
                    /\ fr = [frames[f] EXCEPT !.pc = "spawn", !.hired = hired]
                       \/ fr = [frames[f] EXCEPT !.pc = "refused"]
        BY <1>2, Zenon DEF RouteAccepted, RouteBreakerOpen
    <2> HIDE DEF hired
    <2>2. frames[f].pc = "route"
        BY <1>2, Zenon DEF RouteAccepted, RouteBreakerOpen
    <2>3. fr.pc \in {"spawn", "refused"} /\ fr.by = frames[f].by
        BY <1>1, <2>1 DEF FrameState
    <2>4. f \in Reserved /\ Paying(fr)
        BY <1>1, <2>2, <2>3 DEF Reserved, HoldsSlot, Paying
    <2>5. Reserved' \subseteq Reserved /\ FramesPaying'
        BY <2>1, <2>4, ReservedAfter
    <2>6. UNCHANGED <<tasksVars, counter, queueVars, reportVars>>
        BY <1>2, Zenon DEF RouteAccepted, RouteBreakerOpen
    <2> QED BY <2>5, <2>6, NothingTaken DEF tasksVars, reportVars
<1>3. ASSUME Assign(f) PROVE CapacityInv'
    <2> DEFINE fr == [frames[f] EXCEPT !.pc = "announce", !.hired = FALSE]
               t == frames[f].task
    <2>1. /\ frames[f].pc = "spawn"
          /\ status' = [status EXCEPT ![t] = "running"]
          /\ Set(f, fr)
          /\ UNCHANGED <<counter, queueVars, reportVars>>
        BY <1>3, Zenon DEF Assign
    <2>2. fr.pc = "announce" /\ fr.by = frames[f].by
        BY <1>1 DEF FrameState
    <2>3. f \in Reserved /\ Paying(fr) /\ ~HoldsSlot(fr)
        BY <1>1, <2>1, <2>2 DEF Reserved, HoldsSlot, Paying
    <2> HIDE DEF fr
    <2>4. Reserved' \subseteq Reserved \ {f} /\ FramesPaying'
        BY <2>1, <2>3, ReservedAfter
    <2>5. Running' \subseteq Running \cup {t}
        <3>1. \A u \in Task : status'[u] = "running" => u = t \/ status[u] = "running"
            BY <2>1 DEF CapacityInv, TypeInv, TypeOK
        <3> QED BY <3>1 DEF Running
    <2>6. Cardinality(Reserved') \in Nat /\ Cardinality(Reserved') <= Cardinality(Reserved) - 1
        BY <2>3, <2>4, CountsAreFinite, CountLess
    <2>7. Cardinality(Running') \in Nat /\ Cardinality(Running') <= Cardinality(Running) + 1
        BY <2>5, CountsAreFinite, CountMore
    <2>8. counter' = counter /\ UNCHANGED callbacks
        BY <2>1 DEF reportVars
    <2>9. counter' >= Cardinality(Running') + Cardinality(Reserved')
        BY <2>6, <2>7, <2>8, CountsAreFinite, CoversMeans DEF CapacityInv, TypeInv, TypeOK
    <2> QED BY <2>4, <2>8, <2>9, CapacityParts DEF CapacityInv
<1>4. ASSUME Deliver(f) PROVE CapacityInv'
    <2>1. /\ frames[f].pc = "announce"
          /\ Set(f, Returned(frames[f]))
          /\ UNCHANGED <<tasksVars, counter, queueVars>>
          /\ callbacks' = [callbacks EXCEPT ![frames[f].task] =
                 IF frames[f].dom \in PluginDomains THEN @ + 1 ELSE @]
        BY <1>4, Zenon DEF Deliver
    <2>2. ~HoldsSlot(Returned(frames[f])) /\ Paying(Returned(frames[f]))
        BY <1>1, <2>1, FreshFramesPay DEF Returned, Paying
    <2>3. Reserved' \subseteq Reserved /\ FramesPaying'
        BY <2>1, <2>2, ReservedAfter
    <2>4. UNCHANGED callbacks
        BY <2>1 DEF EventsOnly, CapacityInv, TypeInv, TypeOK
    <2> QED BY <2>1, <2>3, <2>4, NothingTaken DEF tasksVars
<1>5. ASSUME PluginRefuses(f) PROVE CapacityInv'
    BY <1>5, Zenon DEF PluginRefuses, EventsOnly
<1>6. ASSUME Refused(f) PROVE CapacityInv'
    <2>1. /\ frames[f].pc = "refused"
          /\ Set(f, Returned(frames[f]))
          /\ counter' = IF frames[f].by = "submit" THEN counter - 1 ELSE counter
          /\ UNCHANGED <<tasksVars, queueVars, reportVars>>
        BY <1>1, <1>6 DEF Refused, Paying
    <2>2. frames[f].by \in {"submit", "queue"} /\ f \in Reserved
        BY <1>1, <2>1 DEF Reserved, HoldsSlot, Paying
    <2>3. ~HoldsSlot(Returned(frames[f])) /\ Paying(Returned(frames[f]))
        BY <2>2, FreshFramesPay DEF Returned
    <2>4. Reserved' \subseteq Reserved \ {f} /\ FramesPaying'
        BY <2>1, <2>3, ReservedAfter
    <2>5. Cardinality(Reserved') \in Nat /\ Cardinality(Reserved') <= Cardinality(Reserved) - 1
        BY <2>2, <2>4, CountsAreFinite, CountLess
    <2>6. Running' = Running /\ UNCHANGED callbacks
        BY <2>1 DEF Running, tasksVars, reportVars
    <2>7. counter \in Int /\ MaxConcurrent \in Nat /\ counter <= MaxConcurrent
        BY QueenAssumption DEF CapacityInv, TypeInv, TypeOK
    <2>8. counter' >= counter - 1 /\ counter' <= MaxConcurrent /\ counter' \in Int
        BY <2>1, <2>7
    <2>9. counter' >= Cardinality(Running') + Cardinality(Reserved')
        BY <2>5, <2>6, <2>7, <2>8, CountsAreFinite, CoversMeans DEF CapacityInv
    <2> QED BY <2>4, <2>6, <2>8, <2>9, CapacityParts DEF CapacityInv
<1> QED BY <1>2, <1>3, <1>4, <1>5, <1>6

\* Reports, cancellations, clean-up.
LEMMA CapacityReport ==
    ASSUME CapacityInv, TypeInv', NEW t \in Task
    PROVE  /\ \A f \in Frame : Report(t, f) => CapacityInv'
           /\ CancelTask(t) => CapacityInv'
           /\ CleanUp(t) => CapacityInv'
           /\ CallbackUnknown(t) => CapacityInv'
<1>1. status \in [Task -> Status] /\ callbacks[t] = 0
    BY DEF CapacityInv, TypeInv, TypeOK
<1>2. ASSUME NEW f \in Frame, EventTaken(t, f), UNCHANGED callbacks,
             SlotReturned(t) \/ (UNCHANGED counter /\ status[t] # "running"),
             \A u \in Task : status'[u] = "running" => u # t /\ status[u] = "running"
      PROVE  CapacityInv'
    <2>1. Set(f, Draining(0))
        BY <1>2 DEF EventTaken
    <2>2. Reserved' \subseteq Reserved /\ FramesPaying'
        BY <2>1, FreshFramesPay, ReservedAfter
    <2> QED BY <1>2, <2>2, SlotGivenBack
<1>3. ASSUME NEW f \in Frame, Report(t, f) PROVE CapacityInv'
    <2>1. \A outcome : ~CallbackReport(t, f, outcome)
        BY <1>1 DEF CallbackReport
    <2>2. CASE TaskCompleted(t, f)
        BY <1>1, <1>2, <2>2 DEF TaskCompleted
    <2>3. CASE TaskFailedRetry(t, f)
        BY <1>1, <1>2, <2>3 DEF TaskFailedRetry
    <2>4. CASE TaskFailedForGood(t, f)
        BY <1>1, <1>2, <2>4 DEF TaskFailedForGood
    <2>5. CASE EventUnknown(t, f)
        <3>1. UNCHANGED <<tasksVars, counter, callbacks>> /\ status[t] # "running" /\ EventTaken(t, f)
            BY <2>5 DEF EventUnknown, Known
        <3> QED BY <1>2, <3>1 DEF tasksVars
    <2> QED BY <1>3, <2>1, <2>2, <2>3, <2>4, <2>5 DEF Report
<1>4. ASSUME UNCHANGED frames PROVE Reserved' = Reserved /\ FramesPaying'
    BY <1>4 DEF Reserved, HoldsSlot, CapacityInv, FramesPaying, Paying
<1>5. ASSUME CancelTask(t) PROVE CapacityInv'
    <2>1. \A u \in Task : status'[u] = "running" => u # t /\ status[u] = "running"
        BY <1>1, <1>5 DEF CancelTask
    <2> QED BY <1>4, <1>5, <2>1, SlotGivenBack DEF CancelTask, reportVars
<1>6. ASSUME CleanUp(t) PROVE CapacityInv'
    <2>1. \A u \in Task : status'[u] = "running" => status[u] = "running"
        BY <1>1, <1>6 DEF CleanUp
    <2> QED BY <1>4, <1>6, <2>1, NothingTaken DEF CleanUp, reportVars
<1>7. ~CallbackUnknown(t)
    BY <1>1 DEF CallbackUnknown
<1> QED BY <1>3, <1>5, <1>6, <1>7

LEMMA CapacityStep ==
    ASSUME EventsOnly
    PROVE  CapacityInv /\ [Next]_vars => CapacityInv'
<1> SUFFICES ASSUME CapacityInv, [Next]_vars PROVE CapacityInv'
    OBVIOUS
<1>1. TypeInv'
    BY TypeStep DEF CapacityInv
<1>2. \A f \in Frame : ~StartStealing(f) /\ ~StealTask(f) /\ ~StealMovesOn(f)
    BY Zenon DEF EventsOnly, CapacityInv, FramesPaying, Paying,
                 StartStealing, StealTask, StealMovesOn
<1>3. ASSUME NEW f \in Frame, Resume(f) PROVE CapacityInv'
    BY <1>1, <1>2, <1>3, CapacitySubmit, CapacityAssign DEF Resume
<1>4. ASSUME NEW t \in Task, NEW f \in Frame, Report(t, f) \/ SubmitDirect(t, f)
      PROVE  CapacityInv'
    BY <1>1, <1>4, CapacitySubmit, CapacityReport
<1>5. ASSUME NEW t \in Task, SubmitQueued(t) PROVE CapacityInv'
    <2>1. UNCHANGED <<frames, callbacks, counter>>
        BY <1>5 DEF SubmitQueued
    <2>2. Reserved' = Reserved /\ FramesPaying'
        BY <2>1 DEF Reserved, HoldsSlot, CapacityInv, FramesPaying, Paying
    <2>3. \A u \in Task : status'[u] = "running" => status[u] = "running"
        BY <1>5 DEF SubmitQueued, CapacityInv, TypeInv, TypeOK
    <2> QED BY <1>1, <2>1, <2>2, <2>3, NothingTaken
<1>6. ASSUME NEW t \in Task, CallbackUnknown(t) \/ CancelTask(t) \/ CleanUp(t)
      PROVE  CapacityInv'
    BY <1>1, <1>6, CapacityReport
<1>7. ASSUME NEW f \in Frame, DomainEvent(f) \/ StartStealing(f) PROVE CapacityInv'
    BY <1>1, <1>2, <1>7, CapacitySubmit
<1>8. CASE UNCHANGED vars
    <2>1. UNCHANGED <<status, frames, callbacks, counter>>
        BY <1>8 DEF vars
    <2>2. Reserved' = Reserved /\ FramesPaying'
        BY <2>1 DEF Reserved, HoldsSlot, CapacityInv, FramesPaying, Paying
    <2> QED BY <1>1, <2>1, <2>2, NothingTaken
<1> QED BY <1>3, <1>4, <1>5, <1>6, <1>7, <1>8 DEF Next

LEMMA CapacityInit == Init => CapacityInv
<1> SUFFICES ASSUME Init PROVE CapacityInv
    OBVIOUS
<1>1. Running = {} /\ Reserved = {}
    BY DEF Init, Running, Reserved, HoldsSlot, NoFrame
<1>2. CounterCovers
    BY <1>1, FS_EmptySet DEF Init, CounterCovers
<1>3. FramesPaying
    BY FreshFramesPay DEF Init, FramesPaying
<1>4. counter <= MaxConcurrent
    BY QueenAssumption DEF Init
<1> QED BY <1>2, <1>3, <1>4, TypeInit DEF Init, CapacityInv

\* runningTaskCounter covers every task that runs or is about to (CC-002), for any
\* number of tasks, invocations and domains, when domains report by events and
\* work stealing is off.
THEOREM CounterCoversAlways ==
    ASSUME EventsOnly
    PROVE  Spec => []CounterCovers
<1>1. CapacityInv => CounterCovers
    BY DEF CapacityInv
<1> QED BY <1>1, CapacityInit, CapacityStep, PTL DEF Spec

\* Under the same conditions maxConcurrentTasks is never exceeded.
THEOREM CapacityAlways ==
    ASSUME EventsOnly
    PROVE  Spec => []CapacityRespected
<1>1. CapacityInv => CapacityRespected
    BY CountsAreFinite, CoversMeans, QueenAssumption
       DEF CapacityInv, CapacityRespected, TypeInv, TypeOK
<1> QED BY <1>1, CapacityInit, CapacityStep, PTL DEF Spec
=============================================================================
