CONSTANTS
    Keys <- MCKeys
    SampleSize = 4
    Strategy = "mixed"
    MaxChanges = 1
SPECIFICATION FairSpec
PROPERTIES
    WalksEvenTables
