SPECIFICATION Spec
CONSTANTS
    M = 2
    Workers = 2
    Keys <- AllKeys
    Compared <- ComparedKeys
    Flaky = {1}
    Pools <- WholePool
    MaxChanges = 0
    MaxKills = 1
INVARIANTS
    InterruptedRunKeepsProgress
\* After a kill that tore the file no run can load it: the board really stops.
CHECK_DEADLOCK FALSE
