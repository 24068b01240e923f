SPECIFICATION Spec
CONSTANTS
    Loop = Loop
    Pollers = {r1, r2}
    MaxWrites = 1
    MaxFaults = 0
    MaxCrashes = 0
INVARIANT PollerSurvives
CHECK_DEADLOCK FALSE
