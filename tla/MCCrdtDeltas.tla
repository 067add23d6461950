---------------------------- MODULE MCCrdtDeltas ----------------------------
EXTENDS CrdtDeltas, TLC

\* Nodes and keys are alike.
MCSymmetry == Permutations(Node) \cup Permutations(Key)
=============================================================================
