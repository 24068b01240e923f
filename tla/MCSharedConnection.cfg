SPECIFICATION Spec
CONSTANTS
    Loop = Loop
    Pollers = {r1, r2}
    MaxWrites = 2
    MaxFaults = 1
    MaxCrashes = 1
INVARIANTS
    ReturnedIsDurable
    RaisesAreOverlaps
    IdleIsCommitted
CHECK_DEADLOCK FALSE
