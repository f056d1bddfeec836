CONSTANTS
    MalformedLimit = 2
    MaxLines = 3
SPECIFICATION FairSpec
INVARIANTS
    TypeOK
    OutcomeIsReported
    OutcomeMatchesStream
PROPERTIES
    TurnReturns
    SilentProcessIsGivenUp
