SPECIFICATION FairSpec
CONSTANTS
    t1 = t1
    t2 = t2
    i1 = i1
    a1 = a1
    respond = respond
    poison = poison
    None = None
    Tasks = {t1, t2}
    Agents = {a1}
    Decisions = {respond, poison}
    Issues = {i1}
    IssueOf <- SameIssue
    ActionsOf <- Lists
    AllowClose <- CloseAllowed
    MaxRetries = 1
    MaxFaults = 1
    MaxCrashes = 1
    MaxSeen = 2
INVARIANTS
    TypeOK
    DoneMeansCarriedOut
    AuditTrail
    SummaryIsTrue
    RepeatsAreExplained
    OnlyTroubleWaits
PROPERTIES
    DecisionsAreCarriedOut
