SPECIFICATION DocumentsSpec
CONSTANTS
    Null = Null
    Rejected = Rejected
    Rank <- TextOrder
    SnapshotIds <- AllSnapshotIds
    Timestamps <- AllTimestamps
    PythonOnly <- OnlyInPython
    Drafts <- AllDrafts
    Edits <- AllEdits
    MaxEdits = 3
    Cell <- TheCell
    Boards <- AllBoards
    Manifests <- AllManifests
    ReadEdits <- AllReadEdits
    MaxReadEdits = 3
    RatioDigits = 1
    MadeRecords <- AllRecords
    RecordEdits <- AllRecordEdits
    MaxRecordEdits = 3
    Million = 10
    SecondsPerHour = 6
    MaxSafeInteger = 14
    Usages <- AllUsages
    Schedules <- AllSchedules
    MaxTasks = 2
INVARIANTS
    IdentityIsWhatItSays
    TwinsAgree
    ForwardedIsAccepted
    TopSetIsEarned
    StaleIsDisclosed
    ClaimFollowsTheSnapshot
    DerivedIsAccepted
    RecordIsItsIdentity
    CountsAreRecoverable
    CostsAddUp
CHECK_DEADLOCK FALSE
