SPECIFICATION FairSpec
CONSTANTS
    Task = {"a", "b", "c"}
    PriorityOf <- MCPriorityOf
    MaxConcurrent = 2
    LateAdds = FALSE
INVARIANTS
    EdgesMirror
    StartsAfterBlockers
    NoLostWakeup
    NobodyWaitsForTheDead
    WithinLimit
    SortIsTopological
    CyclesAreReal
    CriticalPathIsLongest
    ScheduleOrderRespects
PROPERTIES
    EveryTaskEnds
