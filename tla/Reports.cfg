SPECIFICATION ReportsSpec
CONSTANTS
    v1 = v1
    v2 = v2
    v3 = v3
    r1 = r1
    r2 = r2
    c1 = c1
    c2 = c2
    f1 = f1
    f2 = f2
    named = named
    Voter <- MCVoter
    Reader <- MCReader
    Audiences <- MCAudiences
    MaxFailures = 2
    MaxRetries = 2
    MaxReads = 2
    MaxRefreshes = 2
    MaxIncidents = 1
    Nothing = Nothing
    Candidate <- MCCandidate
    Key <- MCKey
    FixedKey <- MCFixedKey
    NameKey <- MCNameKey
    MaxPuts = 3
    MaxSweeps = 2
    NoCandidate = NoCandidate
    NoImage = NoImage
INVARIANTS
    CachedReportsAreHonest
    ShownIsRecorded
    FailingIsDisabled
PROPERTIES
    ReferencedSurvive
SYMMETRY ReportsSymmetry
CHECK_DEADLOCK FALSE
