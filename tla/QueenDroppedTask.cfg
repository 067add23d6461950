SPECIFICATION Spec
CONSTANTS
    NTasks = 3
    Frame = {f1, f2}
    DomainSeq <- MCDomainSeq
    PriorityOf <- MCPriorityOf
    Targets <- MCTargets
    TypeDomains <- MCTypeDomains
    MaxConcurrent = 1
    RetryLimit = 1
    MaxAgents = 2
    LoadThreshold = 0
    BatchSize = 1
    PluginDomains <- NoPlugins
    ExecutorRuns = FALSE
    Stealing = FALSE
    Cancels = FALSE
    TasksFail = TRUE
    Faults = TRUE
    PluginRejects = FALSE
SYMMETRY FrameSymmetry
INVARIANTS
    QueuedIsHeld
