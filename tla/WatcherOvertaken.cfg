CONSTANTS
    l1 = l1
    l2 = l2
    Loaders <- TwoLoaders
    Cap = 2
    MaxSaves = 2
SPECIFICATION Spec
INVARIANTS
    ChangesAreReapplied
