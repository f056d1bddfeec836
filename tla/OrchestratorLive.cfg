CONSTANTS
    i1 = i1
    i2 = i2
    Issues <- OneIssue
    States <- FewStates
    Configs <- PlainOnly
    Runs = {1, 2}
    MaxSlots = 2
    Cap = 1
    MaxAttempt = 1
    MaxUpdates = 2
    MaxPolls = 2
    MaxReloads = 1
SPECIFICATION FairSpec
PROPERTIES
    TerminatingIsRemoved
    PollsForever
    SendersAreServed
    ShutdownFinishes
