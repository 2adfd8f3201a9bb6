CONSTANTS
    Keys <- MCKeys
    Vals = {a, b}
    Absent = Absent
    NONE = NONE
    MaxWrites = 2
    SampleSize = 2
    Strategy = "mixed"
    MaxMismatch = 0
    Pinned = {"source"}
SPECIFICATION MCSpec
SYMMETRY Contents
CHECK_DEADLOCK FALSE
INVARIANTS
    TypeOK
    ExactOnQuietRows
    DriftInWindowIsFail
    SampledRowsFetched
    EmptyMeansEmpty
    SampleInBudget
