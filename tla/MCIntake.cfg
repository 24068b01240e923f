SPECIFICATION FairSpec
CONSTANTS
    r1 = r1
    r2 = r2
    i1 = i1
    i2 = i2
    i3 = i3
    Never = Never
    Repos = {r1, r2}
    Issues = {i1, i3}
    RepoOf <- Home
    Number <- NumberOf
    PageSize = 1
    Lag = 1
    Lead = 1
    Collaborators = {i3}
    StaticUrl = FALSE
    MaxConcurrent = 1
    MaxTime = 1
    MaxVersion = 2
    MaxUpdates = 2
    MaxClosed = 1
    MaxFaults = 1
INVARIANTS
    TypeOK
    LossIsExplained
PROPERTIES
    RefetchedOnlyAtStamp
    PollingGoesOn
CHECK_DEADLOCK FALSE
