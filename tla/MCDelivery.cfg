SPECIFICATION FairSpec
CONSTANTS
    t1 = t1
    t2 = t2
    a1 = a1
    d1 = d1
    w1 = w1
    w2 = w2
    None = None
    Tasks = {t1, t2}
    Agents = {a1}
    Decisions = {d1}
    Workers = {w1, w2}
    HostOf <- SingleHost
    MaxRetries = 1
    MaxCrashes = 1
    MaxFaults = 1
INVARIANTS
    TypeOK
    HoldersAreCounted
    AttemptsAreBounded
    BacklogIsExplained
PROPERTIES
    EveryClaimEnds
    StartupTakesBacklog
