SPECIFICATION ComponentsSpec
CONSTANTS
    Nothing = Nothing
    Keep = Keep
    one = one
    other = other
    k1 = k1
    k2 = k2
    w1 = w1
    w2 = w2
    stop = stop
    start = start
    join = join
    Contact <- TwoContacts
    Inbound <- Three
    From <- Sender
    Keyword <- Word
    Capture <- TwoCaptures
    Edits <- SomeEdits
    Worker <- TwoWorkers
    DoubleOptIn = FALSE
    MaxWork = 4
    o1 = o1
    a1 = a1
    a2 = a2
    n1 = n1
    n2 = n2
    s1 = s1
    Org <- OneOrg
    Account <- TwoAccounts
    Number <- TwoNumbers
    Service <- OneService
    MaxVersion = 2
    MaxTasks = 3
    Reports <- MCReports
    LegacyReports <- MCLegacy
    ResponseStatus <- MCResponse
    c1 = c1
    c2 = c2
    c3 = c3
    mine = mine
    theirs = theirs
    Caller <- ThreeCallers
    Says <- WhoAsks
    Client <- TwoClients
    Limit = 2
    Window = 3
    Block = 2
    MaxTime = 8
    MaxCount = 4
    MaxTries = 2
    Row <- ThreeRows
    Position <- TwoTimes
    PageLimit = 2
    o2 = o2
    u1 = u1
    TenantOrg <- TwoOrgs
    Task = {t1, t2}
    Connection = {p1, p2}
    User <- OneUser
    MaxDepth = 2
    Environment <- NearPostures
SYMMETRY AllAlike
INVARIANTS
    OptInIsProved
    KeywordsTakeEffectOnce
    AuthorityIsCurrent
    FurthestReportShown
    CorrelatedNeverConflicts
    OneCallAnsweredTruly
    EffectsAsDeclared
    ErrorsLeaveNothing
    WalkIsComplete
    TenantsApart
    OnlyAsConfigured
PROPERTIES
    EvidenceIsWrittenOnce
    OutcomeIsFinal
    RefusalsEnd
CHECK_DEADLOCK FALSE
