SPECIFICATION FairSpec
CONSTANTS
    m1 = m1
    w1 = w1
    w2 = w2
    t1 = t1
    t2 = t2
    t3 = t3
    NoToken = NoToken
    NoAttempt = NoAttempt
    Messages <- OneMessage
    Workers <- TwoWorkers
    Tokens <- ThreeTokens
    MaxAttempts = 2
    BatchSize = 2
    MaxFaults = 2
INVARIANTS
    SecondCopyNeedsAttestation
    EvidenceAgrees
    OutboxInv
    AtMostOneCall
    CancelledIsNotSent
    OutcomeIsTrue
PROPERTIES
    NoStepIsRefused
    ImplementsContract
    OpenMessageSettles
CHECK_DEADLOCK FALSE
