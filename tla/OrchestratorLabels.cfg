CONSTANTS
    i1 = i1
    i2 = i2
    Issues <- OneIssue
    States <- MCStates
    Configs <- LabelledOnly
    Runs = {1, 2}
    MaxSlots = 2
    Cap = 2
    MaxAttempt = 1
    MaxUpdates = 0
    MaxPolls = 1
    MaxReloads = 0
SPECIFICATION Spec
INVARIANT LabelRemovalStopsWorker
