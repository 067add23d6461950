------------------------- MODULE QueenOneCopyProofs -------------------------
(***************************************************************************)
(* Each task of the Queen coordinator is in one place at a time -- its     *)
(* list, one invocation, one report -- when submissions are not run a      *)
(* second time by DomainTaskExecutor.  What follows from it: the lists of  *)
(* the domains are right, finished tasks stay finished, cancelled tasks    *)
(* leave no agent behind, and the counter of running tasks is exact.       *)
(***************************************************************************)
EXTENDS QueenQueuesProofs

SingleReport == ExecutorRuns = FALSE

(***************************************************************************)
(* The invariant                                                           *)
(***************************************************************************)
Owed(t) == callbacks[t] + events[t]

\* What a cancellation may make of a task that is under way all the same.
Withdrawn == IF Cancels THEN {"cancelled", "gone"} ELSE {}

\* No list repeats a task, and the lists agree on who waits.
ListsAgree ==
    /\ \A p \in Priority :
           /\ IsInjective(queue[p])
           /\ \A t \in Range(queue[p]) : PriorityOf[t] = p
    /\ \A d \in Domain :
           /\ IsInjective(domainQueue[d])
           /\ \A t \in Task : t \in Range(domainQueue[d]) <=> Waits(t) /\ d \in TargetSet(t)

\* A task that waits owes no report; one that owes a report owes one only, and
\* is not finished; a report by event is of a domain without a plugin.
TaskFits(t) ==
    /\ Waits(t) => status[t] = "queued" /\ Owed(t) = 0
    /\ Owed(t) > 0 => Owed(t) = 1 /\ status[t] \in {"running"} \cup Withdrawn
    /\ events[t] > 0 => domain[t] \notin PluginDomains

\* What the record of its task says at each point of an invocation.
FrameFits(fr, st, dm) ==
    /\ fr.pc \in {"idle", "drain", "steal"} => fr.task = NoTask
    /\ fr.pc = "steal" => fr.by = "steal"
    /\ fr.pc \in {"route", "spawn", "refused"} =>
           IF fr.by = "submit" THEN st[fr.task] = "none"
                               ELSE st[fr.task] \in {"queued"} \cup Withdrawn
    /\ fr.pc = "announce" => /\ st[fr.task] \in {"running"} \cup Withdrawn
                             /\ dm[fr.task] \in {fr.dom, NoDomain}
    /\ fr.pc = "rejected" => st[fr.task] \in {"failed", "gone"}

\* A task in an invocation is nowhere else.
FrameAlone(f) ==
    frames[f].task # NoTask =>
        /\ ~Waits(frames[f].task)
        /\ Owed(frames[f].task) = 0
        /\ \A g \in Frame \ {f} : frames[g].task # frames[f].task

PlaceInv ==
    /\ TypeInv
    /\ ListsAgree
    /\ \A t \in Task : TaskFits(t)
    /\ \A f \in Frame : FrameFits(frames[f], status, domain)
    /\ \A f \in Frame : FrameAlone(f)

(***************************************************************************)
(* The lists                                                               *)
(***************************************************************************)
LEMMA ListTypes ==
    ASSUME TypeInv
    PROVE  /\ PriorityOf \in [Task -> Priority]
           /\ queue \in [Priority -> Seq(Task)]
           /\ domainQueue \in [Domain -> Seq(Task)]
BY QueenAssumption DEF TypeInv, TypeOK

\* A new member of the lists is one of them all.
LEMMA EnqueueAgrees ==
    ASSUME TypeInv, ListsAgree, NEW t \in Task, ~Waits(t), Enqueue(t)
    PROVE  /\ ListsAgree'
           /\ Waits(t)'
           /\ \A u \in Task \ {t} : Waits(u)' = Waits(u)
<1> DEFINE p == PriorityOf[t]
<1>1. p \in Priority /\ queue[p] \in Seq(Task)
    BY ListTypes
<1>2. \A r \in Priority : queue'[r] = IF r = p THEN Insert(queue[p], t) ELSE queue[r]
    BY ListTypes DEF Enqueue
<1>3. /\ Range(Insert(queue[p], t)) = Range(queue[p]) \cup {t}
      /\ IsInjective(Insert(queue[p], t))
    BY <1>1, InsertMembers DEF ListsAgree, Waits
<1>4. Waits(t)' /\ \A u \in Task \ {t} : Waits(u)' = Waits(u)
    <2>1. t \in Range(queue'[p])
        BY <1>1, <1>2, <1>3
    <2>2. ASSUME NEW u \in Task \ {t}
          PROVE  u \in Range(queue'[PriorityOf[u]]) <=> u \in Range(queue[PriorityOf[u]])
        <3>1. PriorityOf[u] \in Priority
            BY ListTypes
        <3>2. CASE PriorityOf[u] = p
            BY <1>2, <1>3, <3>1, <3>2
        <3>3. CASE PriorityOf[u] # p
            BY <1>2, <3>1, <3>3
        <3> QED BY <3>2, <3>3
    <2> QED BY <2>1, <2>2 DEF Waits
<1>5. ASSUME NEW r \in Priority
      PROVE  IsInjective(queue'[r]) /\ \A u \in Range(queue'[r]) : PriorityOf[u] = r
    BY <1>1, <1>2, <1>3 DEF ListsAgree
<1>6. ASSUME NEW d \in Domain
      PROVE  /\ IsInjective(domainQueue'[d])
             /\ \A u \in Task : u \in Range(domainQueue'[d]) <=> Waits(u)' /\ d \in TargetSet(u)
    <2>1. domainQueue[d] \in Seq(Task) /\ t \notin Range(domainQueue[d])
        BY ListTypes DEF ListsAgree
    <2>2. /\ IsInjective(domainQueue[d])
          /\ \A u \in Task : u \in Range(domainQueue[d]) <=> Waits(u) /\ d \in TargetSet(u)
        BY DEF ListsAgree
    <2>3. /\ Range(Append(domainQueue[d], t)) = Range(domainQueue[d]) \cup {t}
          /\ IsInjective(Append(domainQueue[d], t))
        BY <2>1, <2>2, AppendMembers
    <2>4. domainQueue'[d] = IF d \in TargetSet(t) THEN Append(domainQueue[d], t)
                                                  ELSE domainQueue[d]
        BY DEF Enqueue, EnqueueInDomain
    <2> QED BY <1>4, <2>1, <2>2, <2>3, <2>4
<1>7. ListsAgree'
    BY <1>5, <1>6 DEF ListsAgree
<1> QED BY <1>4, <1>7

\* Removed from the domains' lists it is named for, it is in none of them.
LEMMA DomainsAgree ==
    ASSUME TypeInv, ListsAgree, NEW t \in Task, domainQueue' = WithoutInDomains(t),
           ~Waits(t)', \A u \in Task \ {t} : Waits(u)' = Waits(u), NEW d \in Domain
    PROVE  /\ IsInjective(domainQueue'[d])
           /\ \A u \in Task : u \in Range(domainQueue'[d]) <=> Waits(u)' /\ d \in TargetSet(u)
<1>1. domainQueue[d] \in Seq(Task)
    BY ListTypes
<1>2. /\ IsInjective(domainQueue[d])
      /\ \A u \in Task : u \in Range(domainQueue[d]) <=> Waits(u) /\ d \in TargetSet(u)
    BY DEF ListsAgree
<1>3. domainQueue'[d] = IF d \in TargetSet(t) THEN RemoveFirst(domainQueue[d], t)
                                              ELSE domainQueue[d]
    BY DEF WithoutInDomains
<1>4. /\ IsInjective(RemoveFirst(domainQueue[d], t))
      /\ Range(RemoveFirst(domainQueue[d], t)) = Range(domainQueue[d]) \ {t}
    BY <1>1, <1>2, RemoveFirstMembers
<1> QED BY <1>2, <1>3, <1>4

\* A task that leaves its list leaves all lists.
LEMMA LeavesAgree ==
    ASSUME TypeInv, ListsAgree, NEW t \in Task, NEW r,
           queue' = [queue EXCEPT ![PriorityOf[t]] = r], domainQueue' = WithoutInDomains(t),
           IsInjective(r), Range(r) = Range(queue[PriorityOf[t]]) \ {t}
    PROVE  /\ ListsAgree'
           /\ ~Waits(t)'
           /\ \A u \in Task \ {t} : Waits(u)' = Waits(u)
<1> DEFINE p == PriorityOf[t]
<1>1. p \in Priority
    BY ListTypes
<1>2. \A s \in Priority : queue'[s] = IF s = p THEN r ELSE queue[s]
    BY ListTypes
<1>3. ~Waits(t)' /\ \A u \in Task \ {t} : Waits(u)' = Waits(u)
    BY <1>1, <1>2, ListTypes DEF Waits
<1>4. ASSUME NEW s \in Priority
      PROVE  IsInjective(queue'[s]) /\ \A u \in Range(queue'[s]) : PriorityOf[u] = s
    BY <1>1, <1>2 DEF ListsAgree
<1>5. ListsAgree'
    BY <1>3, <1>4, DomainsAgree DEF ListsAgree
<1> QED BY <1>3, <1>5

LEMMA RemoveAgrees ==
    ASSUME TypeInv, ListsAgree, NEW t \in Task, RemoveFromQueues(t)
    PROVE  /\ ListsAgree'
           /\ ~Waits(t)'
           /\ \A u \in Task \ {t} : Waits(u)' = Waits(u)
<1> DEFINE q == queue[PriorityOf[t]]
<1>1. q \in Seq(Task) /\ IsInjective(q)
    BY ListTypes DEF ListsAgree
<1>2. IsInjective(RemoveFirst(q, t)) /\ Range(RemoveFirst(q, t)) = Range(q) \ {t}
    BY <1>1, RemoveFirstMembers
<1> QED BY <1>2, LeavesAgree DEF RemoveFromQueues

LEMMA DequeueAgrees ==
    ASSUME TypeInv, ListsAgree, NEW p \in Priority, queue[p] # <<>>, NEW t \in Task,
           t = Head(queue[p]), queue' = [queue EXCEPT ![p] = RemoveFirst(Tail(@), t)],
           domainQueue' = WithoutInDomains(t)
    PROVE  /\ ListsAgree'
           /\ Waits(t) /\ ~Waits(t)'
           /\ \A u \in Task \ {t} : Waits(u)' = Waits(u)
<1> DEFINE q == queue[p]
<1>1. q \in Seq(Task) /\ IsInjective(q)
    BY ListTypes DEF ListsAgree
<1>2. /\ Tail(q) \in Seq(Task) /\ t \in Range(q)
      /\ IsInjective(Tail(q)) /\ Range(Tail(q)) = Range(q) \ {t}
    BY <1>1, TailMembers
<1>3. IsInjective(RemoveFirst(Tail(q), t)) /\ Range(RemoveFirst(Tail(q), t)) = Range(q) \ {t}
    BY <1>2, RemoveFirstMembers
<1>4. PriorityOf[t] = p
    BY <1>2 DEF ListsAgree
<1> QED BY <1>2, <1>3, <1>4, LeavesAgree DEF Waits

(***************************************************************************)
(* One task moves at a time                                                *)
(***************************************************************************)
\* Whatever happens to the task t, the others keep their places.
LEMMA OneTaskMoves ==
    ASSUME PlaceInv, TypeInv', ListsAgree', NEW t \in Task, TaskFits(t)',
           \A u \in Task \ {t} :
               /\ Waits(u)' = Waits(u)
               /\ status'[u] = status[u] /\ domain'[u] = domain[u]
               /\ callbacks'[u] = callbacks[u] /\ events'[u] = events[u],
           \A g \in Frame :
               \/ frames'[g] = frames[g] /\ frames[g].task # t
               \/ /\ frames'[g].task \in {NoTask, t}
                  /\ FrameFits(frames'[g], status', domain')
                  /\ frames'[g].task = t => /\ ~Waits(t)' /\ Owed(t)' = 0
                                            /\ \A h \in Frame \ {g} : frames'[h].task # t
    PROVE  PlaceInv'
<1>1. \A u \in Task \ {t} : TaskFits(u)'
    BY DEF PlaceInv, TaskFits, Owed
<1>2. ASSUME NEW g \in Frame PROVE FrameFits(frames'[g], status', domain')
    <2>1. CASE frames'[g] = frames[g] /\ frames[g].task # t
        <3>1. FrameFits(frames[g], status, domain) /\ InRange(frames[g])
            BY DEF PlaceInv, TypeInv, FramesInRange
        <3>2. frames[g].task \in Task => /\ status'[frames[g].task] = status[frames[g].task]
                                         /\ domain'[frames[g].task] = domain[frames[g].task]
            BY <2>1
        <3> QED BY <2>1, <3>1, <3>2 DEF FrameFits, InRange
    <2>2. CASE ~(frames'[g] = frames[g] /\ frames[g].task # t)
        BY <2>2
    <2> QED BY <2>1, <2>2
<1>3. ASSUME NEW g \in Frame PROVE FrameAlone(g)'
    <2>1. \A h \in Frame : frames'[h].task \in Task \cup {NoTask}
        BY DEF TypeInv, TypeOK, FrameState
    <2>2. CASE frames'[g].task = t
        BY <2>2 DEF FrameAlone
    <2>3. CASE frames'[g].task \in Task \ {t}
        <3>1. frames'[g] = frames[g]
            BY <2>3 DEF Task, NoTask
        <3> DEFINE u == frames[g].task
        <3>2. u \in Task \ {t} /\ u # NoTask
            BY <2>3, <3>1 DEF Task, NoTask
        <3>3. ~Waits(u) /\ Owed(u) = 0 /\ \A h \in Frame \ {g} : frames[h].task # u
            BY <3>2 DEF PlaceInv, FrameAlone
        <3>4. \A h \in Frame \ {g} : frames'[h].task # u
            BY <3>2, <3>3
        <3>5. ASSUME NEW w \in Task \ {t}, ~Waits(w), Owed(w) = 0 PROVE ~Waits(w)' /\ Owed(w)' = 0
            BY <3>5 DEF Owed
        <3>6. PICK w \in Task \ {t} : w = u
            BY <3>2
        <3>7. ~Waits(w)' /\ Owed(w)' = 0 /\ frames'[g].task = w
            BY <3>1, <3>3, <3>5, <3>6
        <3> QED BY <3>4, <3>6, <3>7 DEF FrameAlone, Waits, Owed
    <2>4. CASE frames'[g].task = NoTask
        BY <2>4 DEF FrameAlone
    <2> QED BY <2>1, <2>2, <2>3, <2>4
<1> QED BY <1>1, <1>2, <1>3 DEF PlaceInv

\* No task is at stake: only invocations without one change.
LEMMA NoTaskMoves ==
    ASSUME PlaceInv, TypeInv', UNCHANGED <<status, domain, queueVars, reportVars>>,
           \A g \in Frame :
               \/ frames'[g] = frames[g]
               \/ frames'[g].task = NoTask /\ FrameFits(frames'[g], status, domain)
    PROVE  PlaceInv'
<1>1. ListsAgree' /\ \A u : Waits(u)' = Waits(u) /\ Owed(u)' = Owed(u)
    BY DEF PlaceInv, ListsAgree, Waits, Owed, queueVars, reportVars
<1>2. \A u \in Task : TaskFits(u)'
    BY DEF PlaceInv, TaskFits, Waits, Owed, queueVars, reportVars
<1>3. \A g \in Frame : FrameFits(frames'[g], status', domain')
    BY DEF PlaceInv
<1>4. ASSUME NEW g \in Frame PROVE FrameAlone(g)'
    <2>1. CASE frames'[g].task = NoTask
        BY <2>1 DEF FrameAlone
    <2>2. CASE frames'[g].task # NoTask
        <3>1. frames'[g] = frames[g] /\ FrameAlone(g)
            BY <2>2 DEF PlaceInv
        <3> QED BY <2>2, <3>1 DEF FrameAlone, Waits, Owed, queueVars, reportVars
    <2> QED BY <2>1, <2>2
<1> QED BY <1>1, <1>2, <1>3, <1>4 DEF PlaceInv

\* Where a task is, told from its record.
LEMMA PlaceOf ==
    ASSUME PlaceInv, NEW t \in Task
    PROVE  /\ Waits(t) \/ Owed(t) > 0 => \A g \in Frame : frames[g].task # t
           /\ Submittable(t) => ~Waits(t) /\ Owed(t) = 0 /\ \A g \in Frame : frames[g].task # t
           /\ callbacks[t] \in Nat /\ events[t] \in Nat /\ Owed(t) \in Nat
           /\ \A g \in Frame : frames[g].task = t => frames[g].pc \notin {"idle", "drain", "steal"}
<1>1. /\ callbacks \in [Task -> Nat] /\ events \in [Task -> Nat]
      /\ frames \in [Frame -> FrameState]
    BY DEF PlaceInv, TypeInv, TypeOK
<1>2. t # NoTask
    BY DEF Task, NoTask
<1>3. callbacks[t] \in Nat /\ events[t] \in Nat /\ Owed(t) \in Nat
    BY <1>1 DEF Owed
<1>4. ASSUME NEW g \in Frame, frames[g].task = t
      PROVE  ~Waits(t) /\ Owed(t) = 0 /\ frames[g].pc \notin {"idle", "drain", "steal"}
    <2>1. FrameAlone(g) /\ FrameFits(frames[g], status, domain)
        BY DEF PlaceInv
    <2> QED BY <1>2, <1>4, <2>1 DEF FrameAlone, FrameFits
<1>5. ASSUME Submittable(t) PROVE ~Waits(t) /\ Owed(t) = 0 /\ \A g \in Frame : frames[g].task # t
    <2>1. status[t] = "none" /\ \A g \in Frame : frames[g].by = "submit" => frames[g].task # t
        BY <1>5 DEF Submittable
    <2>2. ~Waits(t) /\ Owed(t) = 0
        BY <1>3, <2>1 DEF PlaceInv, TaskFits, Withdrawn
    <2>3. ASSUME NEW g \in Frame, frames[g].task = t PROVE FALSE
        <3>1. FrameFits(frames[g], status, domain) /\ frames[g] \in FrameState
            BY <1>1 DEF PlaceInv
        <3> QED BY <1>4, <2>1, <2>3, <3>1 DEF FrameFits, FrameState, Withdrawn
    <2> QED BY <2>2, <2>3
<1> QED BY <1>2, <1>3, <1>4, <1>5

\* What the moves of a task t leave to all others.
OthersStay(t) ==
    \A u \in Task \ {t} :
        /\ Waits(u)' = Waits(u)
        /\ status'[u] = status[u] /\ domain'[u] = domain[u]
        /\ callbacks'[u] = callbacks[u] /\ events'[u] = events[u]

\* The invocation f takes up the task t, goes on with it, or lets go of it.
LEMMA FrameMoves ==
    ASSUME PlaceInv, TypeInv', ListsAgree', NEW t \in Task, NEW f \in Frame, NEW fr, Set(f, fr),
           TaskFits(t)', OthersStay(t), \A g \in Frame \ {f} : frames[g].task # t,
           fr.task \in {NoTask, t}, FrameFits(fr, status', domain'),
           fr.task = t => ~Waits(t)' /\ Owed(t)' = 0
    PROVE  PlaceInv'
<1>1. \A g \in Frame : frames'[g] = IF g = f THEN fr ELSE frames[g]
    BY SetMeans DEF PlaceInv
<1>2. t # NoTask
    BY DEF Task, NoTask
<1>3. ASSUME NEW g \in Frame
      PROVE  \/ frames'[g] = frames[g] /\ frames[g].task # t
             \/ /\ frames'[g].task \in {NoTask, t}
                /\ FrameFits(frames'[g], status', domain')
                /\ frames'[g].task = t => /\ ~Waits(t)' /\ Owed(t)' = 0
                                          /\ \A h \in Frame \ {g} : frames'[h].task # t
    BY <1>1
<1> QED BY <1>3, OneTaskMoves DEF OthersStay

\* The invocations stay; those of t fit its new record.
LEMMA RecordMoves ==
    ASSUME PlaceInv, TypeInv', ListsAgree', NEW t \in Task, UNCHANGED frames,
           TaskFits(t)', OthersStay(t),
           \A g \in Frame : frames[g].task = t => /\ FrameFits(frames[g], status', domain')
                                                  /\ ~Waits(t)' /\ Owed(t)' = 0
    PROVE  PlaceInv'
<1>1. t # NoTask
    BY DEF Task, NoTask
<1>2. ASSUME NEW g \in Frame
      PROVE  \/ frames'[g] = frames[g] /\ frames[g].task # t
             \/ /\ frames'[g].task \in {NoTask, t}
                /\ FrameFits(frames'[g], status', domain')
                /\ frames'[g].task = t => /\ ~Waits(t)' /\ Owed(t)' = 0
                                          /\ \A h \in Frame \ {g} : frames'[h].task # t
    <2>1. CASE frames[g].task = t
        <3>1. \A h \in Frame \ {g} : frames[h].task # t
            BY <1>1, <2>1 DEF PlaceInv, FrameAlone
        <3> QED BY <2>1, <3>1
    <2> QED BY <2>1
<1> QED BY <1>2, OneTaskMoves DEF OthersStay

\* The lists as they were.
LEMMA ListsStay ==
    ASSUME PlaceInv, UNCHANGED queueVars
    PROVE  ListsAgree' /\ \A u : Waits(u)' = Waits(u)
BY DEF PlaceInv, ListsAgree, Waits, queueVars

\* Outside the task t, the record and the reports as they were.
LEMMA RecordsOf ==
    ASSUME PlaceInv, NEW t \in Task, \A u \in Task \ {t} : Waits(u)' = Waits(u),
           \/ UNCHANGED status
           \/ \E s : status' = [status EXCEPT ![t] = s],
           \/ UNCHANGED domain
           \/ \E d : domain' = [domain EXCEPT ![t] = d],
           \/ UNCHANGED callbacks
           \/ \E n : callbacks' = [callbacks EXCEPT ![t] = n],
           \/ UNCHANGED events
           \/ \E n : events' = [events EXCEPT ![t] = n]
    PROVE  OthersStay(t)
<1>1. /\ status \in [Task -> Status] /\ domain \in [Task -> Domain \cup {NoDomain}]
      /\ callbacks \in [Task -> Nat] /\ events \in [Task -> Nat]
    BY DEF PlaceInv, TypeInv, TypeOK
<1> QED BY <1>1 DEF OthersStay

(***************************************************************************)
(* The invariant holds                                                     *)
(***************************************************************************)
\* The task of an invocation that assigns.
LEMMA Holder ==
    ASSUME PlaceInv, NEW f \in Frame,
           frames[f].pc \in {"route", "spawn", "announce", "refused", "rejected"}
    PROVE  \E t \in Task : /\ t = frames[f].task
                           /\ ~Waits(t) /\ callbacks[t] = 0 /\ events[t] = 0
                           /\ \A g \in Frame \ {f} : frames[g].task # t
<1>1. FrameAlone(f) /\ InRange(frames[f])
    BY DEF PlaceInv, TypeInv, FramesInRange
<1>2. PICK t \in Task : t = frames[f].task
    BY <1>1 DEF InRange
<1>3. t # NoTask
    BY DEF Task, NoTask
<1>4. ~Waits(t) /\ Owed(t) = 0 /\ \A g \in Frame \ {f} : frames[g].task # t
    BY <1>1, <1>2, <1>3 DEF FrameAlone
<1>5. callbacks[t] = 0 /\ events[t] = 0
    BY <1>4, PlaceOf DEF Owed
<1> QED BY <1>2, <1>4, <1>5

\* An invocation goes on with its task, whose record stays.
LEMMA TaskInHand ==
    ASSUME PlaceInv, TypeInv', NEW f \in Frame, NEW fr, Set(f, fr),
           frames[f].pc \in {"route", "spawn", "announce", "refused", "rejected"},
           fr.task \in {NoTask, frames[f].task}, FrameFits(fr, status, domain),
           UNCHANGED <<tasksVars, queueVars, reportVars>>
    PROVE  PlaceInv'
<1>1. PICK t \in Task : /\ t = frames[f].task
                        /\ ~Waits(t) /\ callbacks[t] = 0 /\ events[t] = 0
                        /\ \A g \in Frame \ {f} : frames[g].task # t
    BY Holder
<1>2. ListsAgree' /\ \A u : Waits(u)' = Waits(u)
    BY ListsStay
<1>3. UNCHANGED <<status, domain, callbacks, events>>
    BY DEF tasksVars, reportVars
<1>4. OthersStay(t)
    BY <1>2, <1>3 DEF OthersStay
<1>5. TaskFits(t)' /\ ~Waits(t)' /\ Owed(t)' = 0
    BY <1>1, <1>2, <1>3 DEF TaskFits, Owed
<1> QED BY <1>1, <1>2, <1>3, <1>4, <1>5, FrameMoves

\* The steps of an assignment, up to the return to its caller.
LEMMA PlaceRoute ==
    ASSUME PlaceInv, TypeInv', NEW f \in Frame,
           RouteAccepted(f) \/ RouteBreakerOpen(f) \/ Refused(f)
    PROVE  PlaceInv'
<1>1. /\ FrameFits(frames[f], status, domain) /\ frames[f] \in FrameState
      /\ UNCHANGED <<tasksVars, queueVars, reportVars>>
    BY DEF PlaceInv, TypeInv, TypeOK, RouteAccepted, RouteBreakerOpen, Refused
<1>2. CASE RouteAccepted(f)
    <2> DEFINE hired == PoolHasRoom
               fr == [frames[f] EXCEPT !.pc = "spawn", !.hired = hired]
    <2>1. frames[f].pc = "route" /\ Set(f, fr)
        BY <1>2, Zenon DEF RouteAccepted
    <2> HIDE DEF hired
    <2>2. fr.pc = "spawn" /\ fr.task = frames[f].task /\ fr.by = frames[f].by
        BY <1>1 DEF FrameState
    <2> HIDE DEF fr
    <2>3. FrameFits(fr, status, domain)
        BY <1>1, <2>1, <2>2 DEF FrameFits
    <2> QED BY <1>1, <2>1, <2>2, <2>3, TaskInHand
<1>3. CASE RouteBreakerOpen(f)
    <2> DEFINE fr == [frames[f] EXCEPT !.pc = "refused"]
    <2>1. frames[f].pc = "route" /\ Set(f, fr)
        BY <1>3, Zenon DEF RouteBreakerOpen
    <2>2. fr.pc = "refused" /\ fr.task = frames[f].task /\ fr.by = frames[f].by
        BY <1>1 DEF FrameState
    <2> HIDE DEF fr
    <2>3. FrameFits(fr, status, domain)
        BY <1>1, <2>1, <2>2 DEF FrameFits
    <2> QED BY <1>1, <2>1, <2>2, <2>3, TaskInHand
<1>4. CASE Refused(f)
    <2> DEFINE fr == Returned(frames[f])
    <2>1. frames[f].pc \in {"refused", "rejected"} /\ Set(f, fr)
        BY <1>4, Zenon DEF Refused
    <2>2. /\ fr.pc \in {"idle", "drain", "steal"} /\ fr.task = NoTask
          /\ fr.pc = "steal" => fr.by = "steal"
        BY <1>1, FrameShapes
    <2> HIDE DEF fr
    <2>3. FrameFits(fr, status, domain)
        BY <2>2 DEF FrameFits
    <2> QED BY <1>1, <2>1, <2>2, <2>3, TaskInHand
<1> QED BY <1>2, <1>3, <1>4

\* The execution record is written; the plugin refuses, or the task is out.
LEMMA PlaceRecord ==
    ASSUME PlaceInv, TypeInv', SingleReport, NEW f \in Frame,
           Assign(f) \/ Deliver(f) \/ PluginRefuses(f)
    PROVE  PlaceInv'
<1>1. FrameFits(frames[f], status, domain) /\ frames[f] \in FrameState
    BY DEF PlaceInv, TypeInv, TypeOK
<1>2. frames[f].pc \in {"route", "spawn", "announce", "refused", "rejected"}
    BY Zenon DEF Assign, Deliver, PluginRefuses
<1>3. PICK t \in Task : /\ t = frames[f].task
                        /\ ~Waits(t) /\ callbacks[t] = 0 /\ events[t] = 0
                        /\ \A g \in Frame \ {f} : frames[g].task # t
    BY <1>2, Holder
<1>4. ListsAgree' /\ \A u : Waits(u)' = Waits(u)
    BY ListsStay, Zenon DEF Assign, Deliver, PluginRefuses
<1>5. /\ status \in [Task -> Status] /\ domain \in [Task -> Domain \cup {NoDomain}]
      /\ callbacks \in [Task -> Nat] /\ events \in [Task -> Nat]
    BY DEF PlaceInv, TypeInv, TypeOK
<1>6. CASE Assign(f)
    <2> DEFINE fr == [frames[f] EXCEPT !.pc = "announce", !.hired = FALSE]
               d == frames[f].dom
    <2>1. /\ Set(f, fr) /\ UNCHANGED <<callbacks, events>>
          /\ status' = [status EXCEPT ![t] = "running"]
          /\ domain' = [domain EXCEPT ![t] = d]
        BY <1>3, <1>6, Zenon DEF Assign, reportVars
    <2>2. fr.pc = "announce" /\ fr.task = t /\ fr.dom = d
        BY <1>1, <1>3 DEF FrameState
    <2> HIDE DEF fr, d
    <2>3. status'[t] = "running" /\ domain'[t] = d
        BY <1>5, <2>1
    <2>4. TaskFits(t)' /\ ~Waits(t)' /\ Owed(t)' = 0
        BY <1>3, <1>4, <2>1 DEF TaskFits, Owed
    <2>5. FrameFits(fr, status', domain')
        BY <2>2, <2>3 DEF FrameFits
    <2>6. OthersStay(t)
        BY <1>4, <2>1, RecordsOf
    <2> QED BY <1>3, <1>4, <2>1, <2>2, <2>4, <2>5, <2>6, FrameMoves
<1>7. CASE PluginRefuses(f)
    <2> DEFINE fr == [frames[f] EXCEPT !.pc = "rejected"]
    <2>1. /\ Set(f, fr) /\ UNCHANGED <<callbacks, events>>
          /\ status' = [status EXCEPT ![t] = "failed"]
          /\ domain' = [domain EXCEPT ![t] = frames[f].dom]
        BY <1>3, <1>7, Zenon DEF PluginRefuses, reportVars
    <2>2. fr.pc = "rejected" /\ fr.task = t
        BY <1>1, <1>3 DEF FrameState
    <2> HIDE DEF fr
    <2>3. status'[t] = "failed"
        BY <1>5, <2>1
    <2>4. TaskFits(t)' /\ ~Waits(t)' /\ Owed(t)' = 0
        BY <1>3, <1>4, <2>1 DEF TaskFits, Owed
    <2>5. FrameFits(fr, status', domain')
        BY <2>2, <2>3 DEF FrameFits
    <2>6. OthersStay(t)
        BY <1>4, <2>1, RecordsOf
    <2> QED BY <1>3, <1>4, <2>1, <2>2, <2>4, <2>5, <2>6, FrameMoves
<1>8. CASE Deliver(f)
    <2> DEFINE fr == Returned(frames[f])
               c == IF frames[f].dom \in PluginDomains THEN 1 ELSE 0
    <2>1. /\ frames[f].pc = "announce" /\ Set(f, fr) /\ UNCHANGED <<status, domain>>
          /\ callbacks' = [callbacks EXCEPT ![t] =
                 IF frames[f].dom \in PluginDomains THEN @ + 1 ELSE @]
          /\ events' = [events EXCEPT ![t] = @ + Published(f)]
        BY <1>3, <1>8, Zenon DEF Deliver, tasksVars
    <2>2. Published(f) = 1 - c /\ c \in {0, 1}
        BY DEF Published, SingleReport
    <2>3. callbacks'[t] = c /\ events'[t] = 1 - c /\ Owed(t)' = 1
        BY <1>3, <1>5, <2>1, <2>2 DEF Owed
    <2>4. status[t] \in {"running"} \cup Withdrawn /\ domain[t] \in {frames[f].dom, NoDomain}
        BY <1>1, <1>3, <2>1 DEF FrameFits
    <2>5. events'[t] > 0 => domain[t] \notin PluginDomains
        BY <2>2, <2>3, <2>4, QueenAssumption
    <2>6. TaskFits(t)'
        BY <1>3, <1>4, <2>1, <2>3, <2>4, <2>5 DEF TaskFits
    <2>7. /\ fr.pc \in {"idle", "drain", "steal"} /\ fr.task = NoTask
          /\ fr.pc = "steal" => fr.by = "steal"
        BY <1>1, FrameShapes
    <2> HIDE DEF fr
    <2>8. FrameFits(fr, status', domain') /\ t # NoTask
        BY <2>7 DEF FrameFits, Task, NoTask
    <2>9. OthersStay(t)
        BY <1>4, <2>1, RecordsOf
    <2> QED BY <1>3, <1>4, <2>1, <2>6, <2>7, <2>8, <2>9, FrameMoves
<1> QED BY <1>6, <1>7, <1>8

\* An assignment that starts fits a record that says the task is not yet submitted,
\* or that it is queued.
LEMMA StartFits ==
    ASSUME NEW by \in {"submit", "queue"}, NEW t, NEW p, NEW d, NEW st, NEW dm,
           IF by = "submit" THEN st[t] = "none" ELSE st[t] \in {"queued"} \cup Withdrawn
    PROVE  FrameFits(Assigning(by, t, p, d), st, dm) /\ Assigning(by, t, p, d).task = t
<1> DEFINE fr == Assigning(by, t, p, d)
<1>1. fr.pc \in {"route", "refused"} /\ fr.task = t /\ fr.by = by
    BY FrameShapes DEF FirstStop
<1> HIDE DEF fr
<1>2. FrameFits(fr, st, dm) /\ fr.task = t
    BY <1>1 DEF FrameFits
<1> QED BY <1>2 DEF fr

LEMMA PlaceSubmit ==
    ASSUME PlaceInv, TypeInv', NEW t \in Task, NEW f \in Frame, SubmitDirect(t, f)
    PROVE  PlaceInv'
<1>1. Submittable(t) /\ UNCHANGED <<tasksVars, queueVars, reportVars>>
    BY DEF SubmitDirect
<1>2. PICK d : Set(f, Assigning("submit", t, 0, d))
    BY DEF SubmitDirect
<1> DEFINE fr == Assigning("submit", t, 0, d)
<1>3. ~Waits(t) /\ Owed(t) = 0 /\ \A g \in Frame : frames[g].task # t
    BY <1>1, PlaceOf
<1>4. ListsAgree' /\ \A u : Waits(u)' = Waits(u)
    BY <1>1, ListsStay
<1>5. UNCHANGED <<status, domain, callbacks, events>> /\ status[t] = "none"
    BY <1>1 DEF tasksVars, reportVars, Submittable
<1>6. OthersStay(t)
    BY <1>4, <1>5 DEF OthersStay
<1>7. TaskFits(t)' /\ ~Waits(t)' /\ Owed(t)' = 0
    <2>1. TaskFits(t)
        BY DEF PlaceInv
    <2> QED BY <1>3, <1>4, <1>5, <2>1 DEF TaskFits, Owed
<1>8. FrameFits(fr, status', domain') /\ fr.task = t
    BY <1>5, StartFits
<1> HIDE DEF fr
<1>9. Set(f, fr)
    BY <1>2 DEF fr
<1> QED BY <1>3, <1>4, <1>6, <1>7, <1>8, <1>9, FrameMoves

LEMMA PlaceDequeue ==
    ASSUME PlaceInv, TypeInv', NEW f \in Frame, NEW p \in Priority, Dequeue(f, p)
    PROVE  PlaceInv'
<1>1. TypeInv /\ ListsAgree /\ UNCHANGED <<tasksVars, reportVars>>
    BY DEF PlaceInv, Dequeue
<1>2. PICK t, d :
          /\ t \in Task
          /\ Set(f, Assigning("queue", t, p, d))
          /\ domainQueue' = WithoutInDomains(t)
          /\ queue[p] # <<>> /\ t = Head(queue[p])
          /\ queue' = [queue EXCEPT ![p] = RemoveFirst(Tail(@), t)]
    BY <1>1, DequeueKeeps
<1> DEFINE fr == Assigning("queue", t, p, d)
<1>3. /\ ListsAgree' /\ Waits(t) /\ ~Waits(t)'
      /\ \A u \in Task \ {t} : Waits(u)' = Waits(u)
    BY <1>1, <1>2, DequeueAgrees
<1>4. TaskFits(t) /\ \A g \in Frame : frames[g].task # t
    BY <1>2, <1>3, PlaceOf DEF PlaceInv
<1>5. status[t] = "queued" /\ Owed(t) = 0
    BY <1>3, <1>4 DEF TaskFits
<1>6. UNCHANGED <<status, domain, callbacks, events>>
    BY <1>1 DEF tasksVars, reportVars
<1>7. OthersStay(t)
    BY <1>3, <1>6 DEF OthersStay
<1>8. TaskFits(t)' /\ Owed(t)' = 0
    BY <1>3, <1>4, <1>5, <1>6 DEF TaskFits, Owed
<1>9. FrameFits(fr, status', domain') /\ fr.task = t
    BY <1>5, <1>6, StartFits
<1> HIDE DEF fr
<1>10. Set(f, fr)
    BY <1>2 DEF fr
<1> QED BY <1>2, <1>3, <1>4, <1>7, <1>8, <1>9, <1>10, FrameMoves

LEMMA PlaceSteal ==
    ASSUME PlaceInv, TypeInv', NEW f \in Frame, StealTask(f)
    PROVE  PlaceInv'
<1>1. TypeInv /\ ListsAgree /\ frames[f].pc = "steal" /\ UNCHANGED <<tasksVars, reportVars>>
    BY Zenon DEF PlaceInv, StealTask
<1>2. PICK t \in Task, d \in Domain, fr \in FrameState :
          /\ t \in Range(domainQueue[d])
          /\ RemoveFromQueues(t)
          /\ Set(f, fr)
          /\ fr.pc = "route" /\ fr.task = t /\ fr.by = frames[f].by
    BY <1>1, Theft
<1>3. Waits(t)
    BY <1>1, <1>2 DEF ListsAgree
<1>4. ListsAgree' /\ ~Waits(t)' /\ \A u \in Task \ {t} : Waits(u)' = Waits(u)
    BY <1>1, <1>2, RemoveAgrees
<1>5. TaskFits(t) /\ \A g \in Frame : frames[g].task # t
    BY <1>3, PlaceOf DEF PlaceInv
<1>6. status[t] = "queued" /\ Owed(t) = 0
    BY <1>3, <1>5 DEF TaskFits
<1>7. UNCHANGED <<status, domain, callbacks, events>>
    BY <1>1 DEF tasksVars, reportVars
<1>8. OthersStay(t)
    BY <1>4, <1>7 DEF OthersStay
<1>9. TaskFits(t)' /\ Owed(t)' = 0
    BY <1>4, <1>5, <1>6, <1>7 DEF TaskFits, Owed
<1>10. frames[f].by = "steal"
    BY <1>1 DEF PlaceInv, FrameFits
<1>11. FrameFits(fr, status', domain')
    BY <1>2, <1>6, <1>7, <1>10 DEF FrameFits
<1> QED BY <1>2, <1>4, <1>5, <1>8, <1>9, <1>11, FrameMoves

\* Passes that begin, end or move on without a task.
LEMMA PlaceLoops ==
    ASSUME PlaceInv, TypeInv', NEW f \in Frame,
           DrainStops(f) \/ DomainEvent(f) \/ StartStealing(f) \/ StealMovesOn(f)
    PROVE  PlaceInv'
<1>1. UNCHANGED <<status, domain, queueVars, reportVars>>
    BY Zenon DEF DrainStops, DomainEvent, StartStealing, StealMovesOn, tasksVars
<1>2. \E fr : /\ Set(f, fr) /\ fr.task = NoTask /\ fr.pc \in {"idle", "drain", "steal"}
              /\ fr.pc = "steal" => fr.by = "steal"
    <2>1. CASE DrainStops(f)
        BY <2>1, FrameShapes DEF DrainStops
    <2>2. CASE DomainEvent(f)
        BY <2>2, FrameShapes DEF DomainEvent
    <2>3. CASE StartStealing(f)
        BY <2>3, FrameShapes DEF StartStealing
    <2>4. CASE StealMovesOn(f)
        <3>1. frames[f].pc = "steal" /\ FrameFits(frames[f], status, domain)
            BY <2>4, Zenon DEF PlaceInv, StealMovesOn
        <3>2. frames[f].task = NoTask /\ frames[f].by = "steal"
            BY <3>1 DEF FrameFits
        <3>3. PICK fr : /\ Set(f, fr) /\ fr.pc \in {"idle", "steal"}
                        /\ fr.task \in {NoTask, frames[f].task}
                        /\ fr.pc = "steal" => fr.by = frames[f].by
            BY <2>4, MovesOnShape DEF PlaceInv
        <3> QED BY <3>2, <3>3
    <2> QED BY <2>1, <2>2, <2>3, <2>4
<1>3. PICK fr : /\ Set(f, fr) /\ fr.task = NoTask /\ fr.pc \in {"idle", "drain", "steal"}
                /\ fr.pc = "steal" => fr.by = "steal"
    BY <1>2
<1>4. FrameFits(fr, status, domain)
    BY <1>3 DEF FrameFits
<1>5. \A g \in Frame : frames'[g] = IF g = f THEN fr ELSE frames[g]
    BY <1>3, SetMeans DEF PlaceInv
<1>6. \A g \in Frame : \/ frames'[g] = frames[g]
                       \/ frames'[g].task = NoTask /\ FrameFits(frames'[g], status, domain)
    BY <1>3, <1>4, <1>5
<1> QED BY <1>1, <1>6, NoTaskMoves

\* A task that owes a report is nowhere else.
LEMMA Owing ==
    ASSUME PlaceInv, NEW t \in Task, callbacks[t] > 0 \/ events[t] > 0
    PROVE  /\ Owed(t) = 1 /\ ~Waits(t) /\ \A g \in Frame : frames[g].task # t
           /\ status[t] \in {"running"} \cup Withdrawn
<1>1. callbacks[t] \in Nat /\ events[t] \in Nat /\ Owed(t) > 0
    BY PlaceOf DEF Owed
<1>2. TaskFits(t)
    BY DEF PlaceInv
<1> QED BY <1>1, <1>2, PlaceOf DEF TaskFits

\* A report ends the work: nothing is owed any more.
LEMMA PlaceReport ==
    ASSUME PlaceInv, TypeInv', NEW t \in Task, NEW f \in Frame, Report(t, f)
    PROVE  PlaceInv'
<1>1. /\ status \in [Task -> Status] /\ callbacks \in [Task -> Nat] /\ events \in [Task -> Nat]
      /\ TypeInv /\ ListsAgree
    BY DEF PlaceInv, TypeInv, TypeOK
<1>2. /\ Set(f, Draining(0)) /\ UNCHANGED domain
      /\ \/ callbacks[t] > 0 /\ callbacks' = [callbacks EXCEPT ![t] = @ - 1] /\ UNCHANGED events
         \/ events[t] > 0 /\ events' = [events EXCEPT ![t] = @ - 1] /\ UNCHANGED callbacks
    BY Zenon DEF Report, CallbackReport, TaskCompleted, TaskFailedRetry, TaskFailedForGood,
                 EventUnknown, EventTaken, tasksVars
<1>3. Owed(t) = 1 /\ ~Waits(t) /\ \A g \in Frame : frames[g].task # t
    BY <1>2, Owing
<1>4. callbacks'[t] = 0 /\ events'[t] = 0 /\ Owed(t)' = 0
    BY <1>1, <1>2, <1>3 DEF Owed
<1>5. Draining(0).task = NoTask /\ FrameFits(Draining(0), status', domain') /\ NoTask # t
    BY FrameShapes DEF FrameFits, Task, NoTask
<1>6. CASE TaskFailedRetry(t, f)
    <2>1. ListsAgree' /\ Waits(t)' /\ \A u \in Task \ {t} : Waits(u)' = Waits(u)
        BY <1>1, <1>3, <1>6, EnqueueAgrees DEF TaskFailedRetry
    <2>2. status' = [status EXCEPT ![t] = "queued"]
        BY <1>6 DEF TaskFailedRetry
    <2>3. TaskFits(t)'
        BY <1>1, <1>4, <2>2 DEF TaskFits
    <2>4. OthersStay(t)
        BY <1>2, <2>1, <2>2, RecordsOf
    <2> QED BY <1>2, <1>3, <1>5, <2>1, <2>3, <2>4, FrameMoves
<1>7. CASE ~TaskFailedRetry(t, f)
    <2>1. UNCHANGED queueVars
        BY <1>7, Zenon DEF Report, CallbackReport, TaskCompleted, TaskFailedForGood, EventUnknown
    <2>2. UNCHANGED status \/ \E s : status' = [status EXCEPT ![t] = s]
        BY <1>7, Zenon DEF Report, CallbackReport, TaskCompleted, TaskFailedForGood, EventUnknown,
                           tasksVars
    <2>3. ListsAgree' /\ \A u : Waits(u)' = Waits(u)
        BY <2>1, ListsStay
    <2>4. TaskFits(t)'
        BY <1>3, <1>4, <2>3 DEF TaskFits
    <2>5. OthersStay(t)
        BY <1>2, <2>2, <2>3, RecordsOf
    <2> QED BY <1>2, <1>3, <1>5, <2>3, <2>4, <2>5, FrameMoves
<1> QED BY <1>6, <1>7

LEMMA PlaceQueued ==
    ASSUME PlaceInv, TypeInv', SingleReport, NEW t \in Task, SubmitQueued(t)
    PROVE  PlaceInv'
<1>1. TypeInv /\ ListsAgree /\ status \in [Task -> Status]
    BY DEF PlaceInv, TypeInv, TypeOK
<1>2. ~Waits(t) /\ Owed(t) = 0 /\ \A g \in Frame : frames[g].task # t
    BY PlaceOf DEF SubmitQueued
<1>3. ListsAgree' /\ Waits(t)' /\ \A u \in Task \ {t} : Waits(u)' = Waits(u)
    BY <1>1, <1>2, EnqueueAgrees DEF SubmitQueued
<1>4. /\ status' = [status EXCEPT ![t] = "queued"] /\ domain' = [domain EXCEPT ![t] = NoDomain]
      /\ UNCHANGED <<frames, callbacks>>
      /\ events' = [events EXCEPT ![t] = events[t]]
    BY DEF SubmitQueued, SingleReport
<1>5. callbacks[t] = 0 /\ events[t] = 0 /\ callbacks \in [Task -> Nat] /\ events \in [Task -> Nat]
    BY <1>2, PlaceOf DEF Owed, PlaceInv, TypeInv, TypeOK
<1>6. TaskFits(t)'
    BY <1>1, <1>4, <1>5 DEF TaskFits, Owed
<1>7. OthersStay(t)
    BY <1>3, <1>4, RecordsOf
<1> QED BY <1>2, <1>3, <1>4, <1>6, <1>7, RecordMoves

\* A cancellation that meets an assignment under way leaves it be.
LEMMA PlaceCancel ==
    ASSUME PlaceInv, TypeInv', NEW t \in Task, CancelTask(t)
    PROVE  PlaceInv'
<1>1. /\ TypeInv /\ ListsAgree /\ status \in [Task -> Status]
      /\ callbacks \in [Task -> Nat] /\ events \in [Task -> Nat]
    BY DEF PlaceInv, TypeInv, TypeOK
<1>2. /\ Cancels /\ status[t] \in {"queued", "running", "cancelled"}
      /\ status' = [status EXCEPT ![t] = "cancelled"]
      /\ RemoveFromQueues(t) /\ UNCHANGED <<domain, frames, callbacks, events>>
    BY DEF CancelTask, Cancellable, reportVars
<1>3. ListsAgree' /\ ~Waits(t)' /\ \A u \in Task \ {t} : Waits(u)' = Waits(u)
    BY <1>1, <1>2, RemoveAgrees
<1>4. status'[t] = "cancelled" /\ "cancelled" \in Withdrawn
    BY <1>1, <1>2 DEF Withdrawn
<1>5. TaskFits(t)'
    <2>1. TaskFits(t)
        BY DEF PlaceInv
    <2> QED BY <1>2, <1>3, <1>4, <2>1 DEF TaskFits, Owed
<1>6. OthersStay(t)
    BY <1>2, <1>3, RecordsOf
<1>7. ASSUME NEW g \in Frame, frames[g].task = t
      PROVE  FrameFits(frames[g], status', domain') /\ ~Waits(t)' /\ Owed(t)' = 0
    <2>1. FrameFits(frames[g], status, domain) /\ FrameAlone(g) /\ t # NoTask
        BY DEF PlaceInv, Task, NoTask
    <2>2. frames[g].pc # "rejected"
        BY <1>2, <1>7, <2>1 DEF FrameFits
    <2>3. FrameFits(frames[g], status', domain')
        BY <1>2, <1>4, <1>7, <2>1, <2>2 DEF FrameFits
    <2>4. Owed(t)' = 0
        BY <1>2, <1>7, <2>1 DEF FrameAlone, Owed
    <2> QED BY <1>3, <2>3, <2>4
<1> QED BY <1>2, <1>3, <1>5, <1>6, <1>7, RecordMoves

LEMMA PlaceCleanUp ==
    ASSUME PlaceInv, TypeInv', NEW t \in Task, CleanUp(t)
    PROVE  PlaceInv'
<1>1. status \in [Task -> Status] /\ domain \in [Task -> Domain \cup {NoDomain}]
    BY DEF PlaceInv, TypeInv, TypeOK
<1>2. /\ status[t] \in Finished \cup {"cancelled"}
      /\ status' = [status EXCEPT ![t] = "gone"] /\ domain' = [domain EXCEPT ![t] = NoDomain]
      /\ UNCHANGED <<queueVars, frames, callbacks, events>>
    BY DEF CleanUp, reportVars
<1>3. ListsAgree' /\ \A u : Waits(u)' = Waits(u)
    BY <1>2, ListsStay
<1>4. status'[t] = "gone" /\ domain'[t] = NoDomain /\ NoDomain \notin PluginDomains
    BY <1>1, <1>2, QueenAssumption
<1>5. "cancelled" \in Withdrawn => "gone" \in Withdrawn
    BY DEF Withdrawn
<1>6. TaskFits(t)'
    <2>1. TaskFits(t)
        BY DEF PlaceInv
    <2>2. ~Waits(t)
        BY <1>2, <2>1 DEF TaskFits, Finished
    <2>3. Owed(t) > 0 => Owed(t) = 1 /\ "gone" \in Withdrawn
        BY <1>2, <1>5, <2>1 DEF TaskFits, Finished, Withdrawn
    <2> QED BY <1>2, <1>3, <1>4, <2>2, <2>3 DEF TaskFits, Owed
<1>7. OthersStay(t)
    BY <1>2, <1>3, RecordsOf
<1>8. ASSUME NEW g \in Frame, frames[g].task = t
      PROVE  FrameFits(frames[g], status', domain') /\ ~Waits(t)' /\ Owed(t)' = 0
    <2>1. FrameFits(frames[g], status, domain) /\ FrameAlone(g) /\ t # NoTask
        BY DEF PlaceInv, Task, NoTask
    <2>2. FrameFits(frames[g], status', domain')
        BY <1>2, <1>4, <1>5, <1>8, <2>1 DEF FrameFits, Finished, Withdrawn
    <2>3. Owed(t)' = 0 /\ ~Waits(t)'
        BY <1>2, <1>3, <1>8, <2>1 DEF FrameAlone, Owed
    <2> QED BY <2>2, <2>3
<1> QED BY <1>2, <1>3, <1>6, <1>7, <1>8, RecordMoves

LEMMA PlaceCallback ==
    ASSUME PlaceInv, TypeInv', NEW t \in Task, CallbackUnknown(t)
    PROVE  PlaceInv'
<1>1. callbacks \in [Task -> Nat] /\ events \in [Task -> Nat]
    BY DEF PlaceInv, TypeInv, TypeOK
<1>2. /\ callbacks[t] > 0 /\ callbacks' = [callbacks EXCEPT ![t] = @ - 1]
      /\ UNCHANGED <<status, domain, queueVars, frames, events>>
    BY DEF CallbackUnknown, tasksVars
<1>3. Owed(t) = 1 /\ ~Waits(t) /\ \A g \in Frame : frames[g].task # t
    BY <1>2, Owing
<1>4. ListsAgree' /\ \A u : Waits(u)' = Waits(u)
    BY <1>2, ListsStay
<1>5. TaskFits(t)'
    <2>1. callbacks'[t] = 0 /\ events'[t] = 0 /\ Owed(t)' = 0
        BY <1>1, <1>2, <1>3 DEF Owed
    <2> QED BY <1>3, <1>4, <2>1 DEF TaskFits
<1>6. OthersStay(t)
    BY <1>2, <1>4, RecordsOf
<1> QED BY <1>2, <1>3, <1>4, <1>5, <1>6, RecordMoves

LEMMA PlaceStep == SingleReport /\ PlaceInv /\ [Next]_vars => PlaceInv'
<1> SUFFICES ASSUME SingleReport, PlaceInv, [Next]_vars PROVE PlaceInv'
    OBVIOUS
<1>1. TypeInv'
    BY TypeStep DEF PlaceInv
<1>2. ASSUME NEW f \in Frame, Resume(f) PROVE PlaceInv'
    BY <1>1, <1>2, PlaceRoute, PlaceRecord, PlaceDequeue, PlaceSteal, PlaceLoops DEF Resume
<1>3. ASSUME NEW t \in Task, NEW f \in Frame, Report(t, f) \/ SubmitDirect(t, f) PROVE PlaceInv'
    BY <1>1, <1>3, PlaceReport, PlaceSubmit
<1>4. ASSUME NEW t \in Task,
             SubmitQueued(t) \/ CallbackUnknown(t) \/ CancelTask(t) \/ CleanUp(t)
      PROVE  PlaceInv'
    BY <1>1, <1>4, PlaceQueued, PlaceCallback, PlaceCancel, PlaceCleanUp
<1>5. ASSUME NEW f \in Frame, DomainEvent(f) \/ StartStealing(f) PROVE PlaceInv'
    BY <1>1, <1>5, PlaceLoops
<1>6. CASE UNCHANGED vars
    <2>1. \A g \in Frame : frames'[g] = frames[g]
        BY <1>6 DEF vars
    <2>2. UNCHANGED <<status, domain, queueVars, reportVars>>
        BY <1>6 DEF vars, queueVars, reportVars
    <2> QED BY <1>1, <2>1, <2>2, NoTaskMoves
<1> QED BY <1>2, <1>3, <1>4, <1>5, <1>6 DEF Next

LEMMA PlaceInit == Init => PlaceInv
<1> SUFFICES ASSUME Init PROVE PlaceInv
    OBVIOUS
<1>1. TypeInv
    BY TypeInit
<1>2. /\ \A p \in Priority : queue[p] = <<>>
      /\ \A d \in Domain : domainQueue[d] = <<>>
      /\ \A t \in Task : callbacks[t] = 0 /\ events[t] = 0
    BY DEF Init
<1>3. Range(<<>>) = {} /\ IsInjective(<<>>)
    BY EmptySeq DEF Range, IsInjective
<1>4. \A t \in Task : ~Waits(t)
    BY <1>2, <1>3, QueenAssumption DEF Waits
<1>5. ListsAgree
    BY <1>2, <1>3, <1>4 DEF ListsAgree
<1>6. \A t \in Task : TaskFits(t)
    BY <1>2, <1>4 DEF TaskFits, Owed
<1>7. \A f \in Frame : FrameFits(frames[f], status, domain) /\ FrameAlone(f)
    BY FrameShapes DEF Init, FrameFits, FrameAlone
<1> QED BY <1>1, <1>5, <1>6, <1>7 DEF PlaceInv

(***************************************************************************)
(* What follows                                                            *)
(***************************************************************************)
\* The places of a value in a list without repetitions.
LEMMA PlacesInList ==
    ASSUME NEW q \in Seq(Task), IsInjective(q), NEW t \in Task
    PROVE  Cardinality({i \in DOMAIN q : q[i] = t}) = IF t \in Range(q) THEN 1 ELSE 0
<1> DEFINE P == {i \in DOMAIN q : q[i] = t}
<1>1. CASE t \in Range(q)
    <2>1. PICK i \in DOMAIN q : q[i] = t
        BY <1>1, Members
    <2>2. P = {i}
        BY <2>1 DEF IsInjective
    <2> QED BY <1>1, <2>2, FS_Singleton
<1>2. CASE t \notin Range(q)
    <2>1. P = {}
        BY <1>2, Members
    <2> QED BY <1>2, <2>1, FS_EmptySet
<1> QED BY <1>1, <1>2

\* At most one element: none or one.
LEMMA AtMostOne ==
    ASSUME NEW S, \A x, y \in S : x = y
    PROVE  Cardinality(S) = IF S = {} THEN 0 ELSE 1
<1>1. CASE S = {}
    BY <1>1, FS_EmptySet
<1>2. CASE S # {}
    <2>1. PICK x : x \in S
        BY <1>2
    <2>2. S = {x}
        BY <2>1
    <2> QED BY <1>2, <2>2, FS_Singleton
<1> QED BY <1>1, <1>2

\* Every task is in at most one place: its list, an invocation, or a report still
\* to come.  Without it a task would be run twice at once, or its one slot be given
\* back twice.
THEOREM OneCopyAlways ==
    ASSUME SingleReport
    PROVE  Spec => []OneCopy
<1>1. ASSUME PlaceInv, NEW t \in Task PROVE Copies(t) <= 1
    <2> DEFINE Q == {i \in DOMAIN queue[PriorityOf[t]] : queue[PriorityOf[t]][i] = t}
               F == {f \in Frame : frames[f].task = t}
    <2>1. queue[PriorityOf[t]] \in Seq(Task) /\ IsInjective(queue[PriorityOf[t]])
        BY <1>1, ListTypes DEF PlaceInv, ListsAgree
    <2>2. Cardinality(Q) = IF Waits(t) THEN 1 ELSE 0
        BY <2>1, PlacesInList DEF Waits
    <2>3. \A x, y \in F : x = y
        BY <1>1 DEF PlaceInv, FrameAlone, Task, NoTask
    <2>4. Cardinality(F) = IF F = {} THEN 0 ELSE 1
        BY <2>3, AtMostOne
    <2>5. Waits(t) \/ Owed(t) > 0 => F = {}
        BY <1>1, PlaceOf
    <2>6. Waits(t) => Owed(t) = 0
        BY <1>1 DEF PlaceInv, TaskFits
    <2>7. Owed(t) \in Nat /\ callbacks[t] \in Nat /\ events[t] \in Nat /\ Owed(t) <= 1
        BY <1>1, PlaceOf DEF PlaceInv, TaskFits
    <2>8. Copies(t) = Cardinality(Q) + Cardinality(F) + callbacks[t] + events[t]
        BY DEF Copies
    <2> HIDE DEF Q, F
    <2> QED BY <2>2, <2>4, <2>5, <2>6, <2>7, <2>8 DEF Owed
<1>2. PlaceInv => OneCopy
    BY <1>1 DEF OneCopy
<1> QED BY <1>2, PlaceInit, PlaceStep, PTL DEF Spec

\* The lists of the domains, on which load balancing and work stealing decide, hold
\* exactly the waiting tasks that name the domain, once each: what enters or leaves
\* the priority lists enters or leaves them in the same step.
THEOREM DomainQueuesMirrorAlways ==
    ASSUME SingleReport
    PROVE  Spec => []DomainQueuesMirror
<1>1. ASSUME PlaceInv, NEW d \in Domain, NEW t \in Task
      PROVE  Cardinality({i \in DOMAIN domainQueue[d] : domainQueue[d][i] = t}) =
                 IF d \in TargetSet(t)
                 THEN Cardinality({i \in DOMAIN queue[PriorityOf[t]] : queue[PriorityOf[t]][i] = t})
                 ELSE 0
    <2>1. /\ queue[PriorityOf[t]] \in Seq(Task) /\ IsInjective(queue[PriorityOf[t]])
          /\ domainQueue[d] \in Seq(Task) /\ IsInjective(domainQueue[d])
          /\ t \in Range(domainQueue[d]) <=> Waits(t) /\ d \in TargetSet(t)
        BY <1>1, ListTypes DEF PlaceInv, ListsAgree
    <2> QED BY <2>1, PlacesInList DEF Waits
<1>2. PlaceInv => DomainQueuesMirror
    BY <1>1 DEF DomainQueuesMirror
<1> QED BY <1>2, PlaceInit, PlaceStep, PTL DEF Spec

\* A task that completed or failed for good is never queued or run again: when it
\* ended nothing else was under way for it, and nothing can start.
THEOREM FinishedStaysFinishedAlways ==
    ASSUME SingleReport
    PROVE  Spec => FinishedStaysFinished
<1>1. ASSUME PlaceInv, [Next]_vars, NEW t \in Task, status[t] \in Finished
      PROVE  status'[t] \in {status[t], "gone"}
    <2>1. status \in [Task -> Status]
        BY <1>1 DEF PlaceInv, TypeInv, TypeOK
    <2>2. status[t] \notin {"none", "queued", "running", "cancelled", "gone"}
        BY <1>1 DEF Finished
    <2>3. callbacks[t] = 0 /\ events[t] = 0
        <3>1. callbacks[t] \in Nat /\ events[t] \in Nat
            BY <1>1, PlaceOf
        <3> QED BY <1>1, <2>2, <3>1, Owing DEF Withdrawn
    <2>4. ASSUME UNCHANGED status PROVE status'[t] \in {status[t], "gone"}
        BY <2>4
    <2>5. ASSUME NEW f \in Frame, Assign(f) \/ PluginRefuses(f)
          PROVE  status'[t] \in {status[t], "gone"}
        <3>1. /\ frames[f].pc \in {"spawn", "announce"}
              /\ \E s : status' = [status EXCEPT ![frames[f].task] = s]
            BY <2>5, Zenon DEF Assign, PluginRefuses
        <3>2. FrameFits(frames[f], status, domain)
            BY <1>1 DEF PlaceInv
        <3>3. frames[f].task # t
            BY <2>2, <3>1, <3>2 DEF FrameFits, Withdrawn
        <3> QED BY <2>1, <3>1, <3>3
    <2>6. ASSUME NEW f \in Frame, Resume(f) PROVE status'[t] \in {status[t], "gone"}
        BY <2>4, <2>5, <2>6, Zenon DEF Resume, RouteAccepted, RouteBreakerOpen, Deliver, Refused,
               DrainStops, Dequeue, StealTask, StealMovesOn, tasksVars
    <2>7. ASSUME NEW u \in Task, NEW f \in Frame, Report(u, f) \/ SubmitDirect(u, f)
          PROVE  status'[t] \in {status[t], "gone"}
        <3>1. \/ UNCHANGED status
              \/ (callbacks[u] > 0 \/ events[u] > 0) /\ \E s : status' = [status EXCEPT ![u] = s]
            BY <2>7, Zenon DEF Report, SubmitDirect, CallbackReport, TaskCompleted, TaskFailedRetry,
                   TaskFailedForGood, EventUnknown, EventTaken, tasksVars
        <3> QED BY <2>1, <2>3, <3>1
    <2>8. ASSUME NEW u \in Task,
                 SubmitQueued(u) \/ CallbackUnknown(u) \/ CancelTask(u) \/ CleanUp(u)
          PROVE  status'[t] \in {status[t], "gone"}
        <3>1. \/ UNCHANGED status
              \/ status' = [status EXCEPT ![u] = "gone"]
              \/ u # t /\ \E s : status' = [status EXCEPT ![u] = s]
            BY <2>2, <2>8, Zenon DEF SubmitQueued, Submittable, CallbackUnknown, CancelTask,
                   Cancellable, CleanUp, tasksVars
        <3> QED BY <2>1, <3>1
    <2>9. ASSUME NEW f \in Frame, DomainEvent(f) \/ StartStealing(f)
          PROVE  status'[t] \in {status[t], "gone"}
        BY <2>4, <2>9 DEF DomainEvent, StartStealing, tasksVars
    <2>10. CASE UNCHANGED vars
        BY <2>4, <2>10 DEF vars
    <2> QED BY <1>1, <2>6, <2>7, <2>8, <2>9, <2>10 DEF Next
<1>2. PlaceInv /\ [Next]_vars =>
          [\A t \in Task : status[t] \in Finished => status'[t] \in {status[t], "gone"}]_vars
    BY <1>1
<1> QED BY <1>2, PlaceInit, PlaceStep, PTL DEF Spec, FinishedStaysFinished

\* No agent of its own works for a task that is cancelled or that a plugin completed.
Straying(st, dm, ag) ==
    /\ st = "cancelled" \/ (st = "completed" /\ dm \in PluginDomains)
    /\ ag = "running"

StrayInv == PlaceInv /\ \A t \in Task : ~Straying(status[t], domain[t], agent[t])

LEMMA StrayStep == SingleReport /\ StrayInv /\ [Next]_vars => StrayInv'
<1> SUFFICES ASSUME SingleReport, StrayInv, [Next]_vars PROVE StrayInv'
    OBVIOUS
<1>1. PlaceInv /\ PlaceInv'
    BY PlaceStep DEF StrayInv
<1>2. /\ status \in [Task -> Status] /\ domain \in [Task -> Domain \cup {NoDomain}]
      /\ agent \in [Task -> {"none", "running", "stopped"}]
    BY <1>1 DEF PlaceInv, TypeInv, TypeOK
<1> DEFINE Fine == \A t \in Task : ~Straying(status'[t], domain'[t], agent'[t])
<1>3. ASSUME UNCHANGED <<status, domain, agent>> PROVE Fine
    BY <1>3 DEF StrayInv
<1>4. ASSUME NEW f \in Frame, Resume(f) PROVE Fine
    <2>1. CASE Assign(f)
        <3>1. PICK d, a : /\ status' = [status EXCEPT ![frames[f].task] = "running"]
                          /\ domain' = [domain EXCEPT ![frames[f].task] = d]
                          /\ agent' = [agent EXCEPT ![frames[f].task] = a]
            BY <2>1, Zenon DEF Assign
        <3> QED BY <1>2, <3>1 DEF StrayInv, Straying
    <2>2. CASE PluginRefuses(f)
        <3>1. PICK d : /\ status' = [status EXCEPT ![frames[f].task] = "failed"]
                       /\ domain' = [domain EXCEPT ![frames[f].task] = d]
                       /\ UNCHANGED agent
            BY <2>2, Zenon DEF PluginRefuses
        <3> QED BY <1>2, <3>1 DEF StrayInv, Straying
    <2>3. CASE ~Assign(f) /\ ~PluginRefuses(f)
        <3>1. UNCHANGED <<status, domain, agent>>
            BY <1>4, <2>3, Zenon DEF Resume, RouteAccepted, RouteBreakerOpen, Deliver, Refused,
                   DrainStops, Dequeue, StealTask, StealMovesOn, tasksVars
        <3> QED BY <1>3, <3>1
    <2> QED BY <2>1, <2>2, <2>3
<1>5. ASSUME NEW t \in Task, NEW f \in Frame, Report(t, f) PROVE Fine
    <2>1. ASSUME NEW outcome \in Outcomes, CallbackReport(t, f, outcome) PROVE Fine
        <3>1. /\ status' = [status EXCEPT ![t] = outcome] /\ UNCHANGED domain
              /\ agent' = [agent EXCEPT ![t] = IF @ = "running" THEN "stopped" ELSE @]
            BY <2>1 DEF CallbackReport, StopAgent
        <3> QED BY <1>2, <3>1 DEF StrayInv, Straying
    \* a report by event is of a domain without a plugin
    <2>2. CASE TaskCompleted(t, f)
        <3>1. /\ status' = [status EXCEPT ![t] = "completed"] /\ UNCHANGED <<domain, agent>>
              /\ events[t] > 0
            BY <2>2 DEF TaskCompleted, EventTaken
        <3>2. domain[t] \notin PluginDomains
            BY <1>1, <3>1 DEF PlaceInv, TaskFits
        <3> QED BY <1>2, <3>1, <3>2 DEF StrayInv, Straying
    <2>3. CASE TaskFailedRetry(t, f) \/ TaskFailedForGood(t, f)
        <3>1. /\ \E s \in {"queued", "failed"} : status' = [status EXCEPT ![t] = s]
              /\ UNCHANGED <<domain, agent>>
            BY <2>3, Zenon DEF TaskFailedRetry, TaskFailedForGood
        <3> QED BY <1>2, <3>1 DEF StrayInv, Straying
    <2>4. CASE EventUnknown(t, f)
        BY <1>3, <2>4 DEF EventUnknown, tasksVars
    <2> QED BY <1>5, <2>1, <2>2, <2>3, <2>4 DEF Report
<1>6. ASSUME NEW t \in Task,
             SubmitQueued(t) \/ CallbackUnknown(t) \/ CancelTask(t) \/ CleanUp(t)
      PROVE  Fine
    <2>1. CASE SubmitQueued(t)
        BY <1>2, <2>1 DEF SubmitQueued, StrayInv, Straying
    <2>2. CASE CallbackUnknown(t)
        BY <1>3, <2>2 DEF CallbackUnknown, tasksVars
    <2>3. CASE CancelTask(t)
        <3>1. /\ status' = [status EXCEPT ![t] = "cancelled"] /\ UNCHANGED domain
              /\ agent' = [agent EXCEPT ![t] = IF @ = "running" THEN "stopped" ELSE @]
            BY <2>3 DEF CancelTask, StopAgent
        <3> QED BY <1>2, <3>1 DEF StrayInv, Straying
    <2>4. CASE CleanUp(t)
        BY <1>2, <2>4 DEF CleanUp, StrayInv, Straying
    <2> QED BY <1>6, <2>1, <2>2, <2>3, <2>4
<1>7. ASSUME NEW t \in Task, NEW f \in Frame, SubmitDirect(t, f) PROVE Fine
    BY <1>3, <1>7 DEF SubmitDirect, tasksVars
<1>8. ASSUME NEW f \in Frame, DomainEvent(f) \/ StartStealing(f) PROVE Fine
    BY <1>3, <1>8 DEF DomainEvent, StartStealing, tasksVars
<1>9. ASSUME UNCHANGED vars PROVE Fine
    BY <1>3, <1>9 DEF vars
<1>10. Fine
    BY <1>4, <1>5, <1>6, <1>7, <1>8, <1>9 DEF Next
<1> QED BY <1>1, <1>10 DEF StrayInv, Straying

LEMMA StrayInit == Init => StrayInv
BY PlaceInit DEF Init, StrayInv, Straying

\* A cancelled task, and one whose plugin reported it completed, leaves no agent of
\* its own at work, although the record may meanwhile be written anew by a retry, by
\* a theft or by an assignment that the cancellation met under way.
THEOREM NoStrayAgentsAlways ==
    ASSUME SingleReport
    PROVE  Spec => []NoStrayAgents
<1>1. StrayInv => NoStrayAgents
    BY DEF StrayInv, Straying, NoStrayAgents
<1> QED BY <1>1, StrayInit, StrayStep, PTL DEF Spec

(***************************************************************************)
(* No slot leaks                                                           *)
(*                                                                         *)
(* The counter is exact where every slot that is taken is given back by    *)
(* one report: nothing is stolen, no assignment is refused, and either     *)
(* nothing is cancelled or no plugin reports what was cancelled.           *)
(***************************************************************************)
ExactSlots ==
    /\ SingleReport
    /\ NeverRefused
    /\ Stealing = FALSE
    /\ PluginRejects = FALSE
    /\ Cancels = FALSE \/ PluginDomains = {}

FrameExact(fr) == Paying(fr) /\ fr.pc # "refused"

ExactInv ==
    /\ PlaceInv
    /\ \A f \in Frame : FrameExact(frames[f])
    /\ PluginDomains = {} => \A t \in Task : callbacks[t] = 0
    /\ CounterExact

\* What replacing one frame does to the reserved slots, exactly.
LEMMA ExactFrames ==
    ASSUME ExactInv, NEW f \in Frame, NEW fr, Set(f, fr), FrameExact(fr)
    PROVE  /\ \A g \in Frame : FrameExact(frames'[g])
           /\ Reserved' = IF HoldsSlot(fr) THEN Reserved \cup {f} ELSE Reserved \ {f}
           /\ f \in Reserved <=> HoldsSlot(frames[f])
<1>1. \A g \in Frame : frames'[g] = IF g = f THEN fr ELSE frames[g]
    BY SetMeans DEF ExactInv, PlaceInv
<1>2. \A g \in Frame : FrameExact(frames'[g])
    BY <1>1 DEF ExactInv
<1>3. Reserved' = {g \in Frame : HoldsSlot(frames'[g])}
    BY DEF Reserved, HoldsSlot
<1> QED BY <1>1, <1>2, <1>3 DEF Reserved

\* One more, or one less.
LEMMA CountExactly ==
    ASSUME NEW S, NEW x, IsFiniteSet(S)
    PROVE  /\ x \notin S => Cardinality(S \cup {x}) = Cardinality(S) + 1
           /\ x \in S => Cardinality(S \ {x}) = Cardinality(S) - 1 /\ S \cup {x} = S
           /\ x \notin S => S \ {x} = S
<1>1. x \notin S => Cardinality(S \cup {x}) = Cardinality(S) + 1
    BY FS_AddElement, Zenon
<1>2. x \in S => Cardinality(S \ {x}) = Cardinality(S) - 1
    BY FS_RemoveElement, Zenon
<1> QED BY <1>1, <1>2

\* An invocation that takes a slot.
LEMMA ExactTaken ==
    ASSUME ExactInv, PlaceInv', NEW f \in Frame, NEW fr, Set(f, fr), ~HoldsSlot(frames[f]),
           HoldsSlot(fr), FrameExact(fr), counter' = counter + 1, UNCHANGED <<status, callbacks>>
    PROVE  ExactInv'
<1>1. /\ \A g \in Frame : FrameExact(frames'[g])
      /\ Reserved' = Reserved \cup {f} /\ f \notin Reserved
    BY ExactFrames
<1>2. Cardinality(Reserved') = Cardinality(Reserved) + 1
    BY <1>1, CountsAreFinite, CountExactly
<1>3. Running' = Running
    BY DEF Running
<1>4. CounterExact'
    BY <1>2, <1>3, CountsAreFinite DEF ExactInv, CounterExact
<1> QED BY <1>1, <1>4 DEF ExactInv, FrameExact, Paying

\* A task that stops to run, or nothing at all.
LEMMA ExactStops ==
    ASSUME ExactInv, PlaceInv', NEW t \in Task,
           Reserved' = Reserved, \A g \in Frame : FrameExact(frames'[g]),
           Running' = Running \ {t},
           SlotReturned(t) \/ (UNCHANGED counter /\ status[t] # "running"),
           PluginDomains = {} => \A u \in Task : callbacks'[u] = 0
    PROVE  ExactInv'
<1>1. counter \in Int /\ counter = Cardinality(Running) + Cardinality(Reserved)
    BY DEF ExactInv, CounterExact, PlaceInv, TypeInv, TypeOK
<1>2. CASE status[t] = "running"
    <2>1. t \in Running
        BY <1>2 DEF Running
    <2>2. Cardinality(Running') = Cardinality(Running) - 1 /\ Cardinality(Running') \in Nat
        <3>1. Cardinality(Running) \in Nat /\ Cardinality(Running) # 0
            BY <2>1, CountsAreFinite, FS_EmptySet
        <3> QED BY <2>1, <3>1, CountsAreFinite, CountExactly
    <2>3. counter' = AtLeastZero(counter - 1)
        BY <1>2 DEF SlotReturned
    <2>4. counter' = Cardinality(Running') + Cardinality(Reserved')
        BY <1>1, <2>2, <2>3, CountsAreFinite DEF AtLeastZero
    <2> QED BY <2>4 DEF ExactInv, CounterExact, FrameExact, Paying
<1>3. CASE status[t] # "running"
    <2>1. Running' = Running
        BY <1>3 DEF Running
    <2>2. counter' = counter
        BY <1>3 DEF SlotReturned
    <2> QED BY <1>1, <2>1, <2>2 DEF ExactInv, CounterExact, FrameExact, Paying
<1> QED BY <1>2, <1>3

\* Neither the running tasks nor the reserved slots change.
LEMMA ExactStays ==
    ASSUME ExactInv, PlaceInv', NEW f \in Frame, NEW fr, Set(f, fr), FrameExact(fr),
           HoldsSlot(fr) <=> HoldsSlot(frames[f]), UNCHANGED <<counter, status>>,
           PluginDomains = {} => \A u \in Task : callbacks'[u] = 0
    PROVE  ExactInv'
<1>1. \A g \in Frame : FrameExact(frames'[g])
    BY ExactFrames
<1>2. Reserved' = Reserved
    <2>1. CASE HoldsSlot(fr)
        BY <2>1, ExactFrames
    <2>2. CASE ~HoldsSlot(fr)
        BY <2>2, ExactFrames
    <2> QED BY <2>1, <2>2
<1>3. Running' = Running
    BY DEF Running
<1> QED BY <1>1, <1>2, <1>3 DEF ExactInv, CounterExact, FrameExact, Paying

\* An assignment that starts holds its slot: there is a domain for the task.
LEMMA StartHolds ==
    ASSUME NeverRefused, NEW by \in {"submit", "queue"}, NEW t \in Task, NEW p,
           NEW healthy \in HealthViews, NEW dq, NEW d \in Chosen(t, healthy, dq)
    PROVE  HoldsSlot(Assigning(by, t, p, d)) /\ FrameExact(Assigning(by, t, p, d))
<1> DEFINE fr == Assigning(by, t, p, d)
<1>1. d \in Domain
    BY ChosenIsDomain
<1>2. fr.pc = "route" /\ fr.by = by
    BY <1>1, FrameShapes, QueenAssumption DEF FirstStop
<1> HIDE DEF fr
<1>3. HoldsSlot(fr) /\ FrameExact(fr)
    BY <1>2 DEF HoldsSlot, FrameExact, Paying
<1> QED BY <1>3 DEF fr

\* Frames that wait for nothing hold no slot.
LEMMA LooseFrames ==
    /\ ~HoldsSlot(NoFrame) /\ FrameExact(NoFrame)
    /\ \A p : ~HoldsSlot(Draining(p)) /\ FrameExact(Draining(p))
    /\ \A fr : fr.pc \in {"idle", "drain"} => ~HoldsSlot(fr)
<1>1. \A fr : fr.pc \in {"idle", "drain"} => ~HoldsSlot(fr) /\ FrameExact(fr)
    BY DEF HoldsSlot, FrameExact, Paying
<1> QED BY <1>1, FrameShapes

LEMMA ExactResume ==
    ASSUME ExactSlots, ExactInv, PlaceInv', NEW f \in Frame, Resume(f)
    PROVE  ExactInv'
<1>1. /\ frames[f] \in FrameState /\ FrameExact(frames[f]) /\ TypeInv /\ InRange(frames[f])
      /\ FrameFits(frames[f], status, domain)
    BY DEF ExactInv, PlaceInv, TypeInv, TypeOK, FramesInRange
<1>2. UNCHANGED callbacks => (PluginDomains = {} => \A u \in Task : callbacks'[u] = 0)
    BY DEF ExactInv
<1>3. CASE RouteAccepted(f)
    <2> DEFINE hired == PoolHasRoom
               fr == [frames[f] EXCEPT !.pc = "spawn", !.hired = hired]
    <2>1. frames[f].pc = "route" /\ Set(f, fr) /\ UNCHANGED <<counter, status, callbacks>>
        BY <1>3, Zenon DEF RouteAccepted, tasksVars, reportVars
    <2> HIDE DEF hired
    <2>2. fr.pc = "spawn" /\ fr.by = frames[f].by
        BY <1>1 DEF FrameState
    <2> HIDE DEF fr
    <2>3. FrameExact(fr) /\ (HoldsSlot(fr) <=> HoldsSlot(frames[f]))
        BY <1>1, <2>1, <2>2 DEF FrameExact, Paying, HoldsSlot
    <2> QED BY <1>2, <2>1, <2>3, ExactStays
<1>4. ~RouteBreakerOpen(f) /\ ~PluginRefuses(f)
    BY DEF ExactSlots, NeverRefused, RouteBreakerOpen, PluginRefuses
<1>5. ~Refused(f) /\ ~StealTask(f) /\ ~StealMovesOn(f)
    BY <1>1, Zenon DEF FrameExact, Paying, Refused, StealTask, StealMovesOn
<1>6. CASE Assign(f)
    <2> DEFINE fr == [frames[f] EXCEPT !.pc = "announce", !.hired = FALSE]
    <2>1. PICK t \in Task : t = frames[f].task
        BY <1>1, <1>6 DEF InRange, Assign
    <2>2. /\ frames[f].pc = "spawn" /\ Set(f, fr) /\ UNCHANGED <<counter, callbacks>>
          /\ status' = [status EXCEPT ![t] = "running"]
        BY <1>6, <2>1, Zenon DEF Assign, reportVars
    <2>3. fr.pc = "announce" /\ fr.by = frames[f].by
        BY <1>1 DEF FrameState
    <2> HIDE DEF fr
    <2>4. FrameExact(fr) /\ ~HoldsSlot(fr) /\ HoldsSlot(frames[f])
        BY <1>1, <2>2, <2>3 DEF FrameExact, Paying, HoldsSlot
    <2>5. /\ \A g \in Frame : FrameExact(frames'[g])
          /\ f \in Reserved /\ Reserved' = Reserved \ {f}
        BY <2>2, <2>4, ExactFrames
    <2>6. status[t] # "running"
        BY <1>1, <2>1, <2>2 DEF FrameFits, Withdrawn
    <2>7. t \notin Running /\ Running' = Running \cup {t}
        BY <2>2, <2>6 DEF Running, ExactInv, PlaceInv, TypeInv, TypeOK
    <2>8. /\ Cardinality(Running') = Cardinality(Running) + 1
          /\ Cardinality(Reserved') = Cardinality(Reserved) - 1
        BY <2>5, <2>7, CountsAreFinite, CountExactly
    <2>9. CounterExact'
        BY <2>2, <2>8, CountsAreFinite DEF ExactInv, CounterExact
    <2> QED BY <1>2, <2>2, <2>5, <2>9 DEF ExactInv, FrameExact, Paying
<1>7. CASE Deliver(f)
    <2> DEFINE fr == Returned(frames[f])
    <2>1. /\ frames[f].pc = "announce" /\ Set(f, fr) /\ UNCHANGED <<counter, status>>
          /\ callbacks' = [callbacks EXCEPT ![frames[f].task] =
                 IF frames[f].dom \in PluginDomains THEN @ + 1 ELSE @]
        BY <1>7, Zenon DEF Deliver, tasksVars
    <2>2. fr \in {NoFrame, Draining(frames[f].pri + 1)}
        <3>1. frames[f].by \in {"submit", "queue"}
            BY <1>1, <2>1 DEF FrameExact, Paying
        <3> QED BY <3>1 DEF Returned
    <2> HIDE DEF fr
    <2>3. FrameExact(fr) /\ ~HoldsSlot(fr) /\ ~HoldsSlot(frames[f])
        <3>1. ~HoldsSlot(frames[f])
            BY <2>1 DEF HoldsSlot
        <3> QED BY <2>2, <3>1, LooseFrames
    <2>4. PluginDomains = {} => \A u \in Task : callbacks'[u] = 0
        BY <2>1 DEF ExactInv, PlaceInv, TypeInv, TypeOK
    <2> QED BY <2>1, <2>3, <2>4, ExactStays
<1>8. CASE DrainStops(f)
    <2>1. /\ frames[f].pc = "drain" /\ Set(f, NoFrame)
          /\ UNCHANGED <<counter, status, callbacks>>
        BY <1>8, Zenon DEF DrainStops, tasksVars, reportVars
    <2> QED BY <1>2, <2>1, LooseFrames, ExactStays
<1>9. ASSUME NEW p \in Priority, Dequeue(f, p) PROVE ExactInv'
    <2>1. frames[f].pc = "drain" /\ counter' = counter + 1 /\ UNCHANGED <<status, callbacks>>
        BY <1>9 DEF Dequeue, tasksVars, reportVars
    <2>2. PICK t \in Task, healthy \in HealthViews : \E d \in Chosen(t, healthy, domainQueue') :
              Set(f, Assigning("queue", t, p, d))
        BY <1>1, <1>9, DequeueKeeps
    <2>3. PICK d \in Chosen(t, healthy, domainQueue') : Set(f, Assigning("queue", t, p, d))
        BY <2>2
    <2>4. /\ HoldsSlot(Assigning("queue", t, p, d)) /\ FrameExact(Assigning("queue", t, p, d))
          /\ ~HoldsSlot(frames[f])
        BY <2>1, StartHolds, LooseFrames DEF ExactSlots
    <2> QED BY <2>1, <2>3, <2>4, ExactTaken
<1> QED BY <1>3, <1>4, <1>5, <1>6, <1>7, <1>8, <1>9 DEF Resume

LEMMA ExactReport ==
    ASSUME ExactSlots, ExactInv, PlaceInv', NEW t \in Task, NEW f \in Frame, Report(t, f)
    PROVE  ExactInv'
<1>1. /\ PlaceInv /\ status \in [Task -> Status] /\ callbacks \in [Task -> Nat]
      /\ \A u \in Task : callbacks[u] \in Nat
    BY DEF ExactInv, PlaceInv, TypeInv, TypeOK
<1>2. frames[f].pc = "idle" /\ Set(f, Draining(0))
    BY Zenon DEF Report, CallbackReport, TaskCompleted, TaskFailedRetry, TaskFailedForGood,
                 EventUnknown, EventTaken, Idle
<1>3. Reserved' = Reserved /\ \A g \in Frame : FrameExact(frames'[g])
    BY <1>2, LooseFrames, ExactFrames
<1>4. CASE \E outcome \in Outcomes : CallbackReport(t, f, outcome)
    <2>1. PICK outcome \in Outcomes : CallbackReport(t, f, outcome)
        BY <1>4
    <2>2. /\ callbacks[t] > 0 /\ counter' = AtLeastZero(counter - 1)
          /\ status' = [status EXCEPT ![t] = outcome] /\ outcome # "running"
        BY <2>1, Zenon DEF CallbackReport, Outcomes, Finished
    <2>3. PluginDomains # {}
        BY <1>1, <2>2 DEF ExactInv
    <2>4. status[t] = "running"
        BY <1>1, <2>2, <2>3, Owing DEF ExactSlots, Withdrawn
    <2>5. Running' = Running \ {t}
        BY <1>1, <2>2 DEF Running
    <2> QED BY <1>3, <2>2, <2>3, <2>4, <2>5, ExactStops DEF SlotReturned
<1>5. CASE TaskCompleted(t, f) \/ TaskFailedRetry(t, f) \/ TaskFailedForGood(t, f)
    <2>1. /\ SlotReturned(t) /\ UNCHANGED callbacks
          /\ \E s \in {"completed", "queued", "failed"} : status' = [status EXCEPT ![t] = s]
        BY <1>5, Zenon DEF TaskCompleted, TaskFailedRetry, TaskFailedForGood
    <2>2. Running' = Running \ {t}
        BY <1>1, <2>1 DEF Running
    <2>3. PluginDomains = {} => \A u \in Task : callbacks'[u] = 0
        BY <2>1 DEF ExactInv
    <2> QED BY <1>3, <2>1, <2>2, <2>3, ExactStops
<1>6. CASE EventUnknown(t, f)
    <2>1. status[t] # "running" /\ UNCHANGED <<counter, status, callbacks>>
        BY <1>6 DEF EventUnknown, Known, tasksVars
    <2>2. Running' = Running \ {t}
        BY <2>1 DEF Running
    <2>3. PluginDomains = {} => \A u \in Task : callbacks'[u] = 0
        BY <2>1 DEF ExactInv
    <2> QED BY <1>3, <2>1, <2>2, <2>3, ExactStops
<1> QED BY <1>4, <1>5, <1>6 DEF Report

\* Steps on the record of a task that start no work and leave the invocations alone.
LEMMA ExactRecord ==
    ASSUME ExactSlots, ExactInv, PlaceInv', NEW t \in Task,
           SubmitQueued(t) \/ CallbackUnknown(t) \/ CancelTask(t) \/ CleanUp(t)
    PROVE  ExactInv'
<1>1. status \in [Task -> Status] /\ callbacks \in [Task -> Nat] /\ \A u \in Task : callbacks[u] \in Nat
    BY DEF ExactInv, PlaceInv, TypeInv, TypeOK
<1>2. UNCHANGED frames
    BY DEF SubmitQueued, CallbackUnknown, CancelTask, CleanUp
<1>3. Reserved' = Reserved /\ \A g \in Frame : FrameExact(frames'[g])
    BY <1>2 DEF Reserved, HoldsSlot, ExactInv
<1>4. SlotReturned(t) \/ (UNCHANGED counter /\ status[t] # "running")
    BY Zenon DEF SubmitQueued, Submittable, CallbackUnknown, Known, CancelTask, CleanUp, Finished
<1>5. Running' = Running \ {t}
    <2>1. \/ UNCHANGED status /\ status[t] # "running"
          \/ \E s \in {"queued", "cancelled", "gone"} : status' = [status EXCEPT ![t] = s]
        BY Zenon DEF SubmitQueued, CallbackUnknown, Known, CancelTask, CleanUp, tasksVars
    <2> QED BY <1>1, <2>1 DEF Running
<1>6. PluginDomains = {} => \A u \in Task : callbacks'[u] = 0
    <2>1. UNCHANGED callbacks \/ callbacks[t] > 0
        BY DEF SubmitQueued, CallbackUnknown, CancelTask, CleanUp, reportVars
    <2> QED BY <1>1, <2>1 DEF ExactInv
<1> QED BY <1>3, <1>4, <1>5, <1>6, ExactStops

LEMMA ExactStep == ExactSlots /\ ExactInv /\ [Next]_vars => ExactInv'
<1> SUFFICES ASSUME ExactSlots, ExactInv, [Next]_vars PROVE ExactInv'
    OBVIOUS
<1>1. PlaceInv'
    BY PlaceStep DEF ExactSlots, ExactInv
<1>2. UNCHANGED callbacks => (PluginDomains = {} => \A u \in Task : callbacks'[u] = 0)
    BY DEF ExactInv
<1>3. ASSUME NEW t \in Task, NEW f \in Frame, SubmitDirect(t, f) PROVE ExactInv'
    <2>1. frames[f].pc = "idle" /\ counter' = counter + 1 /\ UNCHANGED <<status, callbacks>>
        BY <1>3 DEF SubmitDirect, Idle, tasksVars, reportVars
    <2>2. PICK healthy \in HealthViews : \E d \in Chosen(t, healthy, domainQueue) :
              Set(f, Assigning("submit", t, 0, d))
        BY <1>3 DEF SubmitDirect
    <2>3. PICK d \in Chosen(t, healthy, domainQueue) : Set(f, Assigning("submit", t, 0, d))
        BY <2>2
    <2>4. /\ HoldsSlot(Assigning("submit", t, 0, d)) /\ FrameExact(Assigning("submit", t, 0, d))
          /\ ~HoldsSlot(frames[f])
        BY <2>1, StartHolds, LooseFrames DEF ExactSlots
    <2> QED BY <1>1, <2>1, <2>3, <2>4, ExactTaken
<1>4. ASSUME NEW f \in Frame, DomainEvent(f) PROVE ExactInv'
    <2>1. frames[f].pc = "idle" /\ Set(f, Draining(0)) /\ UNCHANGED <<counter, status, callbacks>>
        BY <1>4 DEF DomainEvent, Idle, tasksVars, reportVars
    <2> QED BY <1>1, <1>2, <2>1, LooseFrames, ExactStays
<1>5. \A f \in Frame : ~StartStealing(f)
    BY DEF ExactSlots, StartStealing
<1>6. CASE UNCHANGED vars
    BY <1>1, <1>2, <1>6 DEF vars, ExactInv, CounterExact, Running, Reserved, HoldsSlot,
                            FrameExact, Paying
<1> QED BY <1>1, <1>3, <1>4, <1>5, <1>6, ExactResume, ExactReport, ExactRecord DEF Next

LEMMA ExactInit == Init => ExactInv
<1> SUFFICES ASSUME Init PROVE ExactInv
    OBVIOUS
<1>1. Running = {} /\ Reserved = {}
    BY LooseFrames DEF Init, Running, Reserved
<1> QED BY <1>1, PlaceInit, LooseFrames, FS_EmptySet DEF Init, ExactInv, CounterExact

\* No slot of maxConcurrentTasks leaks and none is given back twice: the counter is
\* always the number of running tasks and of assignments that hold a slot, through
\* retries, cancellations and any interleaving of reports with passes of the queue.
THEOREM CounterExactAlways ==
    ASSUME ExactSlots
    PROVE  Spec => []CounterExact
<1>1. ExactInv => CounterExact
    BY DEF ExactInv
<1> QED BY <1>1, ExactInit, ExactStep, PTL DEF Spec
=============================================================================
