SPECIFICATION FairSpec
CONSTANTS
    p1 = p1
    p2 = p2
    c3 = c3
    None = None
    Tasks = {t1, t2}
    Agents = {a1}
    Decisions = {d1}
    Processes = {p1, p2}
    Callers = {c1, c2, c3}
    ProcessOf <- Threads
    MaxRetries = 0
    MaxFaults = 1
    MaxCrashes = 1
INVARIANTS
    TypeOK
    NoDoubleClaim
    TransactionsAreHeld
PROPERTIES
    ImplementsLifecycle
    AskingHelps
