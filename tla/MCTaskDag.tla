----------------------------- MODULE MCTaskDag -----------------------------
(* Three tasks, one of them urgent. *)
EXTENDS DagCycles

MCPriorityOf == [t \in Task |-> IF t = "a" THEN 0 ELSE 2]
=============================================================================
