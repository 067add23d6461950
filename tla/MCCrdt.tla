------------------------------- MODULE MCCrdt -------------------------------
EXTENDS CrdtReplicas, TLC

CONSTANTS n1, n2

\* The order of the node ids.
MCRank == n1 :> 1 @@ n2 :> 2
=============================================================================
