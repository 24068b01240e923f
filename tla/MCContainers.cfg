SPECIFICATION FairSpec
CONSTANTS
    a1 = a1
    a2 = a2
    Agents = {a1, a2}
    Specs <- Order
    Retries = 2
    Monitored = TRUE
    MaxStarts = 3
    MaxExits = 3
    MaxFaults = 2
    MaxKills = 1
INVARIANTS
    TypeOK
    RestartedOnce
    NoExitIsForgotten
PROPERTIES
    LeftoversAreExplained
    HarnessSettles
CHECK_DEADLOCK FALSE
