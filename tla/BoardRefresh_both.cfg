SPECIFICATION FairSpec
CONSTANTS
    Boards = {"content", "site"}
    Models = {m1, m2}
    Flaky = {m1}
    MaxOutsides = 1
    MaxAborts = 1
    MaxEdits = 2
INVARIANTS
    GreenJobIsComplete
PROPERTIES
    NoCommittedRowLost
    SiteRecordsSteadyModels
