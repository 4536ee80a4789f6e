SPECIFICATION FairSpec
CONSTANTS
    Callers = {a, b}
    TTL = 1
    MaxConfirmations = 2
    MaxTransactions = 2
    MaxTime = 2
    MaxTokens = 2
    MaxRuns = 2
    Settings <- MCSettings
INVARIANTS
    ManagerSound
    NothingLeftBehind
PROPERTIES
    StopsOnlyItsOwn
    EveryRequestEnds
CHECK_DEADLOCK FALSE
