CONSTANTS
    l1 = l1
    l2 = l2
    Loaders <- TwoLoaders
    Cap = 2
    MaxSaves = 3
SPECIFICATION FairSpec
INVARIANTS
    TypeOK
    InvalidIsNeverInForce
    OnlyKnownLosses
PROPERTIES
    SavedFileTakesEffect
