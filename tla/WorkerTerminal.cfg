CONSTANTS
    r1 = r1
    r2 = r2
    Roots <- OneRoot
    States <- TwoStates
    Active <- OneActive
    Terminal <- OneTerminal
    Scripts <- AllHooks
    MaxTurns = 1
    MaxCrashes = 0
SPECIFICATION FairSpec
PROPERTIES
    TerminalTransitionIsCleaned
