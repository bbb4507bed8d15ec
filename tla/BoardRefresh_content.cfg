SPECIFICATION FairSpec
CONSTANTS
    Boards = {"content", "site"}
    Models = {m1}
    Flaky = {}
    MaxOutsides = 0
    MaxAborts = 0
    MaxEdits = 0
PROPERTIES
    ContentCommitsCandidates
