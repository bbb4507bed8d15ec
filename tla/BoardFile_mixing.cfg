SPECIFICATION Spec
CONSTANTS
    M = 2
    Workers = 2
    Keys <- AllKeys
    Compared <- ComparedKeys
    Flaky = {1}
    Pools <- WholePool
    MaxChanges = 1
    MaxKills = 0
INVARIANTS
    AnyChangeStartsNewBoard
