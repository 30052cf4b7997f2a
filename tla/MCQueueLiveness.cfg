SPECIFICATION FairSpec
CONSTANTS
    c1 = c1
    c2 = c2
    w1 = w1
    w2 = w2
    r1 = r1
    r2 = r2
    NoOwner = NoOwner
    Contacts <- OneContact
    Workers <- TwoWorkers
    Requests <- TwoRequests
    Interfaces <- Both
    MaxTime = 1
    MaxFaults = 1
VIEW WithoutHistory
INVARIANTS
    ScheduledHasLiveJob
    ClosesOnlyStaleJobs
PROPERTIES
    DueCampaignLeaves
