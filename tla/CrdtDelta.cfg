\* Two stores, two keys, a history of two entries, versions up to 7.
SPECIFICATION Spec
CHECK_DEADLOCK FALSE
SYMMETRY MCSymmetry
CONSTANTS
    Node = {n1, n2}
    Key = {j, k}
    MaxHistory = 2
    MaxUpdates = 3
    MaxVersion = 7
    MaxWire = 1
INVARIANTS
    TypeOK
    NothingMissed
    DeltaConnects
PROPERTIES
    VersionsMoveOn
