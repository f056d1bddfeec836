SPECIFICATION Spec
CONSTANTS
    Issues = {"i1"}
    Observers = {"o1"}
    MaxTurns = 2
    Stall = 1
    Window = 1
    Capacity = 2
    MaxTokens = 1
    MaxClock = 2
    MaxRuns = 2
    MaxRequests = 2
    MaxEffort = 5
CHECK_DEADLOCK FALSE
INVARIANTS ReportsAreKept
PROPERTIES SecondsFollowTheClock StalledIsSilentOrWaiting AnswersAreFresh ObserverIsAnswered
