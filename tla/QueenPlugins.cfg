SPECIFICATION Spec
CONSTANTS
    NTasks = 3
    Frame = {f1, f2, f3}
    DomainSeq <- MCDomainSeq
    PriorityOf <- MCPriorityOf
    Targets <- MCTargets
    TypeDomains <- MCTypeDomains
    MaxConcurrent = 2
    RetryLimit = 1
    MaxAgents = 2
    LoadThreshold = 0
    BatchSize = 1
    PluginDomains <- OnePlugin
    ExecutorRuns = FALSE
    Stealing = FALSE
    Cancels = FALSE
    TasksFail = TRUE
    Faults = FALSE
    PluginRejects = FALSE
SYMMETRY FrameSymmetry
INVARIANTS
    CounterExact
    QueuedIsHeld
    OldestFirst
