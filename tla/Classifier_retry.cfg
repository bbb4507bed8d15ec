SPECIFICATION Spec
CONSTANTS
    N = 2
    Concurrency = 2
    Retries = 3
    ErrorNum = 1
    ErrorDen = 2
    Replies <- ReasoningReplies
INVARIANTS
    RetriedAtLowEffort
