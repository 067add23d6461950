----------------------------- MODULE DagCycles -----------------------------
(***************************************************************************)
(* detectCycles of dag.ts over the graph of TaskDag: depth first, with     *)
(* colours and parents.  The calls under way are a stack; one turn follows *)
(* one dependency or returns from one call.  detectCycles itself is the    *)
(* frame NoParent, whose dependencies are all the tasks.                   *)
(***************************************************************************)
EXTENDS DagOrders

Frames == Nodes \cup {NoParent}

\* Every frame follows its dependencies and returns.
SearchTurns == 0 .. Cardinality(Frames \X Frames)

Follows(x) == IF x = NoParent THEN Nodes ELSE forward[x] \cap Nodes

SearchStart ==
    [stack  |-> <<NoParent>>,
     todo   |-> [x \in Frames |-> Follows(x)],
     color  |-> [t \in Nodes |-> "white"],
     parent |-> [t \in Nodes |-> NoParent],
     cycles |-> {}]

\* The cycle so far is <<depId, nodeId, ...>>; the next is the parent of the last.
WayFurther(way, parent) ==
    LET cur == way[Len(way)]
    IN  IF cur = way[1] \/ parent[cur] \in {NoParent, way[1]} THEN way
        ELSE Append(way, parent[cur])

WayBack(x, d, parent) ==
    LET way[n \in Turns] == IF n = 0 THEN <<d, x>> ELSE WayFurther(way[n - 1], parent)
    IN  way[Cardinality(Nodes)]

Followed(s, x, d) == [s.todo EXCEPT ![x] = @ \ {d}]

Enter(s, x, d) ==
    [stack |-> <<d>> \o s.stack, todo |-> Followed(s, x, d),
     color |-> [s.color EXCEPT ![d] = "gray"],
     parent |-> [s.parent EXCEPT ![d] = x], cycles |-> s.cycles]

Report(s, x, d) ==
    [stack |-> s.stack, todo |-> Followed(s, x, d), color |-> s.color,
     parent |-> s.parent, cycles |-> s.cycles \cup {WayBack(x, d, s.parent)}]

Pass(s, x, d) ==
    [stack |-> s.stack, todo |-> Followed(s, x, d), color |-> s.color,
     parent |-> s.parent, cycles |-> s.cycles]

\* Mutant: a finished task stays grey.
LeaveGrey(s, x) == [s EXCEPT !.stack = Tail(s.stack)]

Leave(s, x) ==
    [stack |-> Tail(s.stack), todo |-> s.todo,
     color |-> [t \in Nodes |-> IF t = x THEN "black" ELSE s.color[t]],
     parent |-> s.parent, cycles |-> s.cycles]

SearchTurn(s) ==
    IF s.stack = <<>> THEN s
    ELSE LET x == Head(s.stack)
             d == CHOOSE t \in s.todo[x] : TRUE
         IN  IF s.todo[x] = {} THEN Leave(s, x)
             ELSE CASE s.color[d] = "white" -> Enter(s, x, d)
                    [] s.color[d] = "gray"  -> Report(s, x, d)
                    [] s.color[d] = "black" -> Pass(s, x, d)

Searched[n \in SearchTurns] == IF n = 0 THEN SearchStart ELSE SearchTurn(Searched[n - 1])

DetectCycles == Searched[Cardinality(Frames \X Frames)].cycles

\* detectCycles finds something exactly when there is a cycle, and all it
\* reports are cycles, each task blocked by the one before it.
CyclesAreReal ==
    /\ Cyclic <=> DetectCycles # {}
    /\ \A c \in DetectCycles :
           /\ \A i \in 1 .. Len(c) - 1 : c[i] \in forward[c[i + 1]]
           /\ c[Len(c)] \in forward[c[1]]
=============================================================================
