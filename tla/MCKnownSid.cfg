SPECIFICATION FairSpec
CONSTANTS
    m1 = m1
    w1 = w1
    w2 = w2
    t1 = t1
    t2 = t2
    t3 = t3
    NoToken = NoToken
    NoAttempt = NoAttempt
    Messages <- OneMessage
    Workers <- OneWorker
    Tokens <- TwoTokens
    MaxAttempts = 1
    BatchSize = 2
    MaxFaults = 2
PROPERTIES
    KnownSidIsKept
CHECK_DEADLOCK FALSE
