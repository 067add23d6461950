\* One claim, an agent and a human, two overlapping calls.  It stops when the
\* bounds on calls and on time are reached.
SPECIFICATION FairSpec
CHECK_DEADLOCK FALSE
CONSTANTS
    Claim = {c1}
    Agent = {a1}
    Human = {h1}
    Nobody = Nobody
    Frame = {f1, f2}
    MaxSteals = 1
    MaxPending = 1
    MaxPriority = 1
    AgentTtl = 1
    HumanTtl = 1
    MaxCalls <- MCMaxCalls
    MaxNow <- MCMaxNow
INVARIANTS
    NobodyForgotten
    PendingHandoffs
PROPERTIES
    IsALock
    ExpiryTakesFromTheDead
