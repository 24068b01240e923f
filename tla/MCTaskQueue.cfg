SPECIFICATION Spec
CONSTANTS
    t1 = t1
    t2 = t2
    a1 = a1
    a2 = a2
    d1 = d1
    None = None
    Tasks = {t1, t2}
    Agents = {a1, a2}
    Decisions = {d1}
    MaxRetries = 1
    ClaimTimeout = 1
    MaxTime = 4
SYMMETRY Interchangeable
INVARIANTS
    TypeOK
    RetryAccounting
    ClaimsCanExpire
    FirstClaimsInOrder
PROPERTIES
    LeaseRespected
CHECK_DEADLOCK FALSE
