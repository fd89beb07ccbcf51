SPECIFICATION TreesAndAccountsSpec
CONSTANTS
    e1 = e1
    e2 = e2
    b1 = b1
    b2 = b2
    r1 = r1
    r2 = r2
    u1 = u1
    u2 = u2
    c1 = c1
    c2 = c2
    c3 = c3
    c4 = c4
    c5 = c5
    c6 = c6
    c7 = c7
    Rolls <- MCRolls
    MaxIndex = 8
    Email <- MCEmail
    Browser <- MCBrowser
    Request <- MCRequest
    Account <- MCAccount
    Workloads <- MCWorkloads
    CodeLimit = 1
    LoginLimit = 2
    TriggerLimit = 1
    MaxAttempts = 2
    MaxServed = 6
    MaxNumber = 4
    MaxIncidents = 1
    None = None
    Deleted = Deleted
INVARIANTS
    MailboxIsProven
    QuestionsAreOneSet
    TriesAreBounded
    TreeIsReference
    VerdictIsMembership
    ReferenceAgrees
SYMMETRY AccountsSymmetry
CHECK_DEADLOCK FALSE
