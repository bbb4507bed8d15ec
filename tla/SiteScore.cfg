SPECIFICATION FairSpec
CONSTANTS
    L = 2
    N = 2
    J = 3
    MinJudges = 2
    Concurrency = 2
    ErrorNum = 1
    ErrorDen = 4
    TranslatorReplies <- SomeItems
    JudgeReplies <- SomeVerdicts
INVARIANTS
    ScoresAreThePanels
    RankedRowIsTranslated
    UnavailableCostsNothing
PROPERTIES
    ImplementsModelScore
