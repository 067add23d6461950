----------------------------- MODULE DagOrders -----------------------------
(***************************************************************************)
(* The read-only algorithms of dag.ts and scheduler.ts that go by the      *)
(* topological sort of DagSort: the critical path and the schedule order.  *)
(* Each loop is a recursive function of the turns it has made.             *)
(***************************************************************************)
EXTENDS DagSort

NoParent == "no parent"

ASSUME OrdersAssumption == NoParent \notin Task

Turns == 0 .. Cardinality(Nodes)

(***************************************************************************)
(* getCriticalPath: longest distances in topological order, then back      *)
(* along the predecessors.                                                 *)
(***************************************************************************)
\* Mutant: the first predecessor is kept.
RelaxFirst(d, t) ==
    [x \in Nodes |-> IF x \in Dependents(t) /\ d[x].pred = NoParent
                     THEN [dist |-> d[t].dist + 1, pred |-> t] ELSE d[x]]

Relax(d, t) ==
    [x \in Nodes |-> IF x \in Dependents(t) /\ d[t].dist + 1 > d[x].dist
                     THEN [dist |-> d[t].dist + 1, pred |-> t] ELSE d[x]]

Relaxed[n \in Turns] ==
    IF n = 0 THEN [t \in Nodes |-> [dist |-> 1, pred |-> NoParent]]
    ELSE Relax(Relaxed[n - 1], TopologicalSort[n])

Longest == Relaxed[Cardinality(Nodes)]

EndNode ==
    LET d == Longest
    IN  CHOOSE t \in Nodes : \A x \in Nodes : d[x].dist <= d[t].dist

BackFrom(path) ==
    LET pred == Longest[Head(path)].pred
    IN  IF pred = NoParent THEN path ELSE <<pred>> \o path

PathBack[n \in Turns] == IF n = 0 THEN <<EndNode>> ELSE BackFrom(PathBack[n - 1])

GetCriticalPath ==
    IF Nodes = {} \/ SortThrows THEN <<>> ELSE PathBack[Cardinality(Nodes)]

(***************************************************************************)
(* getScheduleOrder: by levels, and by priority within a level.            *)
(***************************************************************************)
Highest(S) == CHOOSE x \in S \cup {0} : \A y \in S : y <= x

\* Mutant: the level is the number of blockers.
LevelAfterCount(level, t) ==
    [level EXCEPT ![t] = Cardinality(forward[t] \cap Nodes) + 1]

\* One more than the highest level of the blockers that come before.
LevelAfter(level, t) ==
    [level EXCEPT ![t] = Highest({level[b] : b \in forward[t] \cap Nodes}) + 1]

Levelled[n \in Turns] ==
    IF n = 0 THEN [t \in Nodes |-> 0]
    ELSE LevelAfter(Levelled[n - 1], TopologicalSort[n])

AtLevel(i) ==
    LET level == Levelled[Cardinality(Nodes)]
    IN  {t \in Nodes : level[t] = i}

\* Array.sort: equal tasks may come in any order.
SortByPriority(S) ==
    CHOOSE seq \in SetToSeqs(S) :
        \A i, j \in DOMAIN seq : i < j => ~Before(seq[j], seq[i])

InLevels[n \in Turns] ==
    IF n = 0 THEN <<>> ELSE InLevels[n - 1] \o SortByPriority(AtLevel(n))

GetScheduleOrder == IF SortThrows THEN <<>> ELSE InLevels[Cardinality(Nodes)]

(***************************************************************************)
(* Properties: the results against what the graph is.                      *)
(***************************************************************************)
IsChain(seq) == \A i \in 1 .. Len(seq) - 1 : seq[i] \in forward[seq[i + 1]]

\* The critical path is a chain of dependencies, and no chain is longer.
CriticalPathIsLongest ==
    ~Cyclic =>
        LET path == GetCriticalPath
        IN  /\ IsChain(path)
            /\ \A n \in Turns : \A seq \in [1 .. n -> Nodes] :
                   IsChain(seq) => n <= Len(path)

\* The recommended order lists every task once, after its blockers, although
\* each level is sorted anew.
ScheduleOrderRespects ==
    ~Cyclic => LET order == GetScheduleOrder
               IN  IsOrderOf(order, Nodes) /\ Respects(order)
=============================================================================
