SPECIFICATION SubmissionSpec
CONSTANTS
    v1 = v1
    v2 = v2
    late = late
    Credential <- WebVoters
    Rolls <- MCRolls
    Layouts <- MCLayouts
    Windows <- MCWindows
    Selections <- MCSelections
    MaxIndex = 2
    U32Max = 2
    MaxClock = 2
    NoAccount = NoAccount
    Roll <- MCRoll
    ApiVoters <- Nobody
    Revoked <- Nobody
    Layout <- MCLayout
    ChainWindow <- MCChainWindow
    DbWindow <- MCDbWindow
    Incidents <- WithoutForgetting
    SyncRuns = TRUE
    MaxRetries = 1
    BatchSize = 1
    MaxCasts = 2
    NoBallot = NoBallot
    NoTx = NoTx
INVARIANTS
    SubmissionTypeOK
    AtMostOneLanded
    LedgerSound
    ConfirmedMeansCounted
PROPERTY
    ImplementsBallotBox
CHECK_DEADLOCK FALSE
