SPECIFICATION Spec
CONSTANTS
    one = one
    other = other
    k1 = k1
    k2 = k2
    w1 = w1
    w2 = w2
    Nothing = Nothing
    Keep = Keep
    stop = stop
    start = start
    join = join
    Contact <- TwoContacts
    Inbound <- Three
    From <- Sender
    Keyword <- Word
    Capture <- TwoCaptures
    Edits <- SomeEdits
    Worker <- TwoWorkers
    DoubleOptIn = FALSE
    MaxWork = 5
SYMMETRY Alike
INVARIANTS
    StopBlocksSends
CHECK_DEADLOCK FALSE
