CONSTANTS
    i1 = i1
    i2 = i2
    Issues <- TwoIssues
    States <- FewStates
    Configs <- PlainOnly
    Runs = {1, 2, 3}
    MaxSlots = 2
    Cap = 2
    MaxAttempt = 2
    MaxUpdates = 1
    MaxPolls = 1
    MaxReloads = 0
SYMMETRY IssueSymmetry
SPECIFICATION Spec
INVARIANTS
    TypeOK
    ClaimedIsRunningOrRetrying
    OneWorkerPerIssue
    EventsReachTheirRun
    OneWakeupPerRetry
PROPERTIES
    TerminationDecisionStands
    AttemptsAreCounted
