SPECIFICATION FairSpec
CONSTANTS
    NTasks = 3
    Frame = {f1, f2}
    DomainSeq <- MCDomainSeq
    PriorityOf <- MCPriorityOf
    Targets <- MCTargets
    TypeDomains <- MCTypeDomains
    MaxConcurrent = 1
    RetryLimit = 0
    MaxAgents = 2
    LoadThreshold = 0
    BatchSize = 1
    PluginDomains <- NoPlugins
    ExecutorRuns = FALSE
    Stealing = FALSE
    Cancels = TRUE
    TasksFail = TRUE
    Faults = FALSE
    PluginRejects = FALSE
PROPERTIES
    QueuedSettles
