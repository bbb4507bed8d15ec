SPECIFICATION FairSpec
CONSTANTS
    M = 3
    Workers = 2
    Keys <- AllKeys
    Compared <- ComparedKeys
    Flaky = {1}
    Pools <- MostPools
    MaxChanges = 1
    MaxKills = 1
INVARIANTS
    TypeOK
    NeverMixesCompared
    NoLostRow
    TornOnlyWhileLocked
    FileIsKept
PROPERTIES
    RankedRowIsFinal
    SteadyModelsAreRecorded
\* After a kill that tore the file no run can load it: the board really stops.
CHECK_DEADLOCK FALSE
