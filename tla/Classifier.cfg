SPECIFICATION FairSpec
CONSTANTS
    N = 2
    Concurrency = 2
    Retries = 3
    ErrorNum = 1
    ErrorDen = 2
    Replies <- EveryReply
INVARIANTS
    TypeOK
    FallsBackOnce
    OffRowIsPure
    UnservableIsExcluded
    RankedRowIsAnswered
    NoWorkAfterReturn
    RaisesForACall
PROPERTIES
    NeverBackToOff
    ImplementsModelScore
