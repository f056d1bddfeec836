SPECIFICATION Spec
CONSTANTS
    N = 4
    Texts <- MCTexts
    Normal <- MCNormal
    Config <- MCConfig
    MaxInt = 1000
    Trackers <- MCTrackers
    MaxCalls = 3
    MaxEdits = 2
CHECK_DEADLOCK FALSE
INVARIANTS FetchIsExact
PROPERTIES  DecisionsFollowTheTracker
