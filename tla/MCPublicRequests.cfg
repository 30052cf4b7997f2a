SPECIFICATION PublicSpec
CONSTANTS
    r1 = r1
    r2 = r2
    k1 = k1
    key1 = key1
    b1 = b1
    b2 = b2
    c1 = c1
    c2 = c2
    w1 = w1
    w2 = w2
    None = None
    NoOwner = NoOwner
    Request <- TwoRequests
    Credential <- OneCredential
    Key <- OneKey
    Body <- TwoBodies
    Scopes <- AllButReplies
    Expiries <- AtTwo
    Retention = 2
    RateWindow = 1
    RateLimit = 2
    MaxTime = 2
    MaxRequests = 3
    MaxSecret = 3
    Contacts <- TwoContacts
    Workers <- TwoWorkers
    LastTime = 2
    MaxFaults = 1
VIEW WithoutPast
SYMMETRY Interchangeable
INVARIANTS
    TypeOK
    EffectsAreRetentionApart
    AnswersAreTrue
    LiveJobIsCurrent
    CompletedReachedEveryone
PROPERTIES
    OnlyDraftsChange
CHECK_DEADLOCK FALSE
