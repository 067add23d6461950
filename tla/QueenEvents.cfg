SPECIFICATION Spec
CONSTANTS
    NTasks = 3
    Frame = {f1, f2, f3}
    DomainSeq <- MCDomainSeq
    PriorityOf <- MCPriorityOf
    Targets <- MCTargets
    TypeDomains <- MCTypeDomains
    MaxConcurrent = 2
    RetryLimit = 1
    MaxAgents = 0
    LoadThreshold = 0
    BatchSize = 1
    PluginDomains <- NoPlugins
    ExecutorRuns = FALSE
    Stealing = FALSE
    Cancels = TRUE
    TasksFail = TRUE
    Faults = TRUE
    PluginRejects = FALSE
SYMMETRY FrameSymmetry
INVARIANTS
    CounterCovers
    CapacityRespected
