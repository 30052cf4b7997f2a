SPECIFICATION FairSpec
CONSTANTS
    e1 = e1
    e2 = e2
    ev = ev
    n1 = n1
    w1 = w1
    w2 = w2
    NoWorker = NoWorker
    Endpoint <- TwoEndpoints
    DomainEvent <- OneEvent
    NoticeEvent <- OneNotice
    Worker <- TwoWorkers
    Exchange <- Exchanges
    MaxAttempts = 2
    DisableAfter = 2
    MaxGeneration = 2
    MaxSecret = 2
    MaxChanges = 1
    MaxFaults = 1
    BatchSize = 2
    Offered <- Apart
INVARIANTS
    SequenceValidUnlessTorn
    DisabledInTime
    PolicyAsDocumented
PROPERTIES
    ImplementsContract
    EveryDeliverySettles
CHECK_DEADLOCK FALSE
