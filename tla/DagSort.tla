------------------------------ MODULE DagSort ------------------------------
(***************************************************************************)
(* Kahn's topological sort (topologicalSort of dag.ts) over the graph of   *)
(* TaskDag.  The code goes through Maps and Sets in insertion order; here  *)
(* an arbitrary but fixed order stands for it.                             *)
(***************************************************************************)
EXTENDS TaskDag, Sequences, SequencesExt

Nodes         == {t \in Task : Present(t)}
Dependents(t) == reverse[t] \cap Nodes

\* Mutant: blockers nobody has added count.
InDegreeAll == [t \in Nodes |-> Cardinality(forward[t])]

InDegree == [t \in Nodes |-> Cardinality(forward[t] \cap Nodes)]

\* The queue keeps what was shifted from it: after n turns the sorted tasks are
\* its first n, and the loop is over when there are no more.
Begin == [queue |-> SetToSeq({t \in Nodes : InDegree[t] = 0}), degree |-> InDegree]

\* The dependents of t have one blocker less; those left with none are pushed.
Visit(s, t) ==
    LET less == [x \in Nodes |-> IF x \in Dependents(t) THEN s.degree[x] - 1 ELSE s.degree[x]]
    IN  [queue  |-> s.queue \o SetToSeq({x \in Dependents(t) : less[x] = 0}),
         degree |-> less]

Turn(s, n) == IF n > Len(s.queue) THEN s ELSE Visit(s, s.queue[n])

Kahn[n \in Nat] == IF n = 0 THEN Begin ELSE Turn(Kahn[n - 1], n)

\* No task is pushed twice: after as many turns as tasks the queue is used up.
TopologicalSort == Kahn[Cardinality(Nodes)].queue

\* It throws when not every task was sorted.
SortThrows == Len(TopologicalSort) # Cardinality(Nodes)

(***************************************************************************)
(* The sort against what the graph is                                      *)
(***************************************************************************)
Cyclic == \E t \in Nodes : t \in Upstream(t)

IsOrderOf(seq, S) == ToSet(seq) = S /\ Len(seq) = Cardinality(S)

Respects(seq) ==
    \A i, j \in DOMAIN seq : seq[i] \in forward[seq[j]] => i < j

\* topologicalSort throws exactly for the cyclic graphs, and otherwise lists
\* every task once, after all that it is blocked by.
SortIsTopological ==
    IF Cyclic THEN SortThrows
    ELSE IsOrderOf(TopologicalSort, Nodes) /\ Respects(TopologicalSort)
=============================================================================
