SPECIFICATION Spec
CONSTANTS
    N = 9
    Datasets <- TwoDatasets
    DatasetOf <- TwoDatasetOf
    Unsafe <- TwoUnsafe
    ErrorNum = 1
    ErrorDen = 5
INVARIANTS
    FlaggingEverythingIsHalf
    OneMeansFlawless
\* score returns once.
CHECK_DEADLOCK FALSE
