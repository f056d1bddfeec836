SPECIFICATION Spec
CONSTANTS
    Texts <- MCTexts
    Normal <- MCNormal
    Numeral <- MCNumeral
    Env <- MCEnv
    Files <- MCFiles
    Contents <- MCContents
    Dispatched = {"Todo", "Review"}
    MaxSaves = 2
    MaxAttempt = 3
CHECK_DEADLOCK FALSE
  
PROPERTIES RetriesBackOff
