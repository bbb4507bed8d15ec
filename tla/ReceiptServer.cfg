SPECIFICATION ClientSpec
CONSTANTS
    Connections = {c1, c2}
    Queries <- TwoQueries
    Ids <- TwoIds
    IdOf <- TwoIdOf
    Posts <- SomePosts
    Gets <- SomeGets
    MaxRestarts = 1
    Calls <- SomeCalls
    OtherRequests <- SomeOthers
INVARIANTS
    PromisesAreKept
    AnsweredAsAsked
    PublishedAsTold
PROPERTIES
    TableOnlyGrows
    EveryRequestEnds
