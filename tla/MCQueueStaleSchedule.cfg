SPECIFICATION Spec
CONSTANTS
    c1 = c1
    c2 = c2
    w1 = w1
    w2 = w2
    r1 = r1
    r2 = r2
    NoOwner = NoOwner
    Contacts <- OneContact
    Workers <- OneWorker
    Requests <- TwoRequests
    Interfaces <- Console
    MaxTime = 2
    MaxFaults = 0
SYMMETRY Interchangeable
PROPERTIES
    CompletedIsFinal
