SPECIFICATION Spec
CONSTANTS
    NTasks = 3
    Frame = {f1, f2}
    DomainSeq <- MCDomainSeq
    PriorityOf <- MCPriorityOf
    Targets <- MCTargets
    TypeDomains <- MCTypeDomains
    MaxConcurrent = 1
    RetryLimit = 1
    MaxAgents = 1
    LoadThreshold = 0
    BatchSize = 1
    PluginDomains <- OnePlugin
    ExecutorRuns = FALSE
    Stealing = TRUE
    Cancels = TRUE
    TasksFail = TRUE
    Faults = FALSE
    PluginRejects = TRUE
SYMMETRY FrameSymmetry
INVARIANTS
    OneCopy
    DomainQueuesMirror
    NoStrayAgents
PROPERTIES
    FinishedStaysFinished
