CONSTANTS
    Keys <- MCKeys
    SampleSize = 4
    Strategy = "mixed"
    MaxChanges = 2
SPECIFICATION FairSpec

PROPERTIES
    WalksWholeTable
