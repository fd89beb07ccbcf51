SPECIFICATION SubmissionSpec
CONSTANTS
    v1 = v1
    v2 = v2
    late = late
    Credential <- WebVoters
    Rolls <- MCRolls
    Layouts <- MCLayouts
    Windows <- MCWindows
    Selections <- OneChoice
    MaxIndex = 2
    U32Max = 2
    MaxClock = 0
    NoAccount = NoAccount
    Roll <- MCRoll
    ApiVoters <- FirstVoter
    Revoked <- Nobody
    Layout <- MCLayout
    ChainWindow <- MCChainWindow
    DbWindow <- MCChainWindow
    Incidents <- NoIncident
    SyncRuns = FALSE
    MaxRetries = 1
    BatchSize = 1
    MaxCasts = 1
    NoBallot = NoBallot
    NoTx = NoTx
INVARIANT
    EnqueuedAfterCommit
CHECK_DEADLOCK FALSE
