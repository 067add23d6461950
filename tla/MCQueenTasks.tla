---------------------------- MODULE MCQueenTasks ----------------------------
(***************************************************************************)
(* Instances of QueenTasks for TLC: three tasks, two domains, two of the   *)
(* four priorities.  Task 1 may go to either domain and task 3 is the      *)
(* urgent one; task 2 names no target and falls back on its type's map.    *)
(***************************************************************************)
EXTENDS QueenTasks, TLC

MCDomainSeq   == <<"d1", "d2">>
MCPriorityOf  == [t \in 1 .. NTasks |-> IF t = 3 THEN 0 ELSE 1]
MCTargets     == [t \in 1 .. NTasks |-> IF t = 2 THEN <<>> ELSE
                     IF t = 1 THEN <<"d1", "d2">> ELSE <<"d1">>]
MCTypeDomains == [t \in 1 .. NTasks |-> <<"d1", "d2">>]

\* the domains with an executeTask handler
NoPlugins  == {}
OnePlugin  == {"d1"}
AllPlugins == {"d1", "d2"}

FrameSymmetry == Permutations(Frame)
=============================================================================
