--------------------------- MODULE MCDomainBreaker --------------------------
(***************************************************************************)
(* Instances of DomainBreaker for TLC: two or three domains; the first one *)
(* has the tight "critical" preset, the others the "standard" one, scaled  *)
(* down.                                                                   *)
(***************************************************************************)
EXTENDS DomainBreaker, TLC

MCFailureThreshold == [d \in Domain |-> IF d = "d1" THEN 1 ELSE 2]
MCResetTimeout     == [d \in Domain |-> IF d = "d1" THEN 1 ELSE 2]
MCSuccessThreshold == [d \in Domain |-> IF d = "d1" THEN 2 ELSE 1]
MCFailureWindow    == [d \in Domain |-> 2]

\* d2 takes d1 along and nobody takes d2 along
OneWay    == [d \in Domain |-> IF d = "d2" THEN {"d1"} ELSE {}]
\* d1 takes d2 along; d2 and d3 take each other along
Lasso     == [d \in Domain |-> IF d = "d2" THEN {"d3"} ELSE {"d2"}]

\* one for each domain, two for d2, one for d2 alone, none
OneEach  == [d \in Domain |-> 1]
TwoForD2 == [d \in Domain |-> IF d = "d2" THEN 2 ELSE 1]
OneForD2 == [d \in Domain |-> IF d = "d2" THEN 1 ELSE 0]
None     == [d \in Domain |-> 0]
=============================================================================
