SPECIFICATION Spec
CONSTANTS
    t1 = t1
    t2 = t2
    i1 = i1
    a1 = a1
    respond = respond
    poison = poison
    None = None
    Tasks = {t1}
    Agents = {a1}
    Decisions = {respond}
    Issues = {i1}
    IssueOf <- SameIssue
    ActionsOf <- Lists
    AllowClose <- CloseAllowed
    MaxRetries = 0
    MaxFaults = 0
    MaxCrashes = 0
    MaxSeen = 1
INVARIANTS
    AllowedCloseIsExecuted
