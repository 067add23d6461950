SPECIFICATION Spec
CONSTANTS
    Domain = {"d1", "d2"}
    MaxVersion = 1
    FailureThreshold <- MCFailureThreshold
    ResetTimeout <- MCResetTimeout
    SuccessThreshold <- OneEach
    FailureWindow <- TwoForD2
    CascadeTargets <- OneWay
    MaxTasks <- TwoForD2
    MaxCalls <- OneForD2
    Operated = {"d2"}
INVARIANTS
    TypeOK
    ClosedIsQuiet
PROPERTIES
    OpeningsHaveACause
