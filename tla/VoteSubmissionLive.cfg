SPECIFICATION AfterSecondSpec
CONSTANTS
    v1 = v1
    v2 = v2
    late = late
    Credential <- WithLateVoter
    Rolls <- MCRolls
    Layouts <- MCLayouts
    Windows <- MCWindows
    Selections <- OneChoice
    MaxIndex = 2
    U32Max = 2
    MaxClock = 1
    NoAccount = NoAccount
    Roll <- MCRoll
    ApiVoters <- FirstVoter
    Revoked <- Nobody
    Layout <- MCLayout
    ChainWindow <- ShortWindow
    DbWindow <- MCChainWindow
    Incidents <- AllIncidents
    SyncRuns = TRUE
    MaxRetries = 1
    BatchSize = 1
    MaxCasts = 1
    NoBallot = NoBallot
    NoTx = NoTx
PROPERTIES
    TasksEnd
    PendingIsResolved
CHECK_DEADLOCK FALSE
