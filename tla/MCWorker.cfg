CONSTANTS
    r1 = r1
    r2 = r2
    Roots <- TwoRoots
    States <- FourStates
    Active <- TwoActive
    Terminal <- OneTerminal
    Scripts <- AllHooks
    MaxTurns = 3
    MaxCrashes = 2
SPECIFICATION FairSpec
INVARIANTS
    TypeOK
    WorkspaceIsKeptAndReady
    HooksInPairs
    TurnsKeepTheirState
PROPERTIES
    LifecycleBetweenRestarts
    TerminatedWorkerIsGone
    TerminatedLeavesNoWorkspace
