\* Two replicas, two clocks of two instants, three updates, one snapshot.
SPECIFICATION FairSpec
CHECK_DEADLOCK FALSE
CONSTANTS
    n1 = n1
    n2 = n2
    Node = {n1, n2}
    Rank <- MCRank
    None = None
    Value = {v, w}
    Element = {e}
    MaxTime = 2
    MaxUpdates = 3
    MaxWire = 1
    MaxCrashes = 1
INVARIANTS
    RegisterIsNewest
    CounterIsOfSeen
    AddWins
    StrongConvergence
    NoIncrementLost
PROPERTIES
    Converges
