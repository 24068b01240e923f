SPECIFICATION Spec
CONSTANTS
    r1 = r1
    r2 = r2
    i1 = i1
    i2 = i2
    i3 = i3
    Never = Never
    Repos = {r1}
    Issues = {i1}
    RepoOf <- Home
    Number <- NumberOf
    PageSize = 1
    Lag = 0
    Lead = 0
    Collaborators = {}
    StaticUrl = FALSE
    MaxConcurrent = 1
    MaxTime = 2
    MaxVersion = 2
    MaxUpdates = 2
    MaxClosed = 0
    MaxFaults = 0
INVARIANT EventsAreNotDropped
CHECK_DEADLOCK FALSE
