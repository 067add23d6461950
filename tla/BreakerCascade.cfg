SPECIFICATION FairSpec
CONSTANTS
    Domain = {"d1", "d2", "d3"}
    MaxVersion = 0
    FailureThreshold <- MCFailureThreshold
    ResetTimeout <- MCResetTimeout
    SuccessThreshold <- MCSuccessThreshold
    FailureWindow <- MCFailureWindow
    CascadeTargets <- Lasso
    MaxTasks <- OneEach
    MaxCalls <- None
    Operated = {}
PROPERTIES
    OnlyTargetsFollow
    KeepsPromise
    Recovers
