SPECIFICATION Spec
CONSTANTS
    t1 = t1
    t2 = t2
    u1 = u1
    u2 = u2
    u3 = u3
    None = None
    Nothing = Nothing
    Tasks = {t1, t2}
    Agents = {u1, u2, u3}
    Decisions <- AllDecisions
    MaxRetries = 1
    Event = "issue.triage"
    PrefixedBy <- Prefixes
    Configs <- Samples
    Replies <- Answers
    MaxFaults = 1
SYMMETRY Interchangeable
INVARIANTS
    CloseIsPermitted
    ConfiguredAgentsAreReachable
PROPERTIES
    GuardHolds
CHECK_DEADLOCK FALSE
