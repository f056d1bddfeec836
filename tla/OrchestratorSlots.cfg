CONSTANTS
    i1 = i1
    i2 = i2
    Issues <- TwoIssues
    States <- MCStates
    Configs <- WideAndNarrow
    Runs = {1, 2, 3}
    MaxSlots = 2
    Cap = 1
    MaxAttempt = 1
    MaxUpdates = 0
    MaxPolls = 1
    MaxReloads = 1
SYMMETRY IssueSymmetry
SPECIFICATION Spec
PROPERTIES
    SlotsAreRespected
    ImplementsLifecycle
