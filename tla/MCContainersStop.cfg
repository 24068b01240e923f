SPECIFICATION Spec
CONSTANTS
    a1 = a1
    a2 = a2
    Agents = {a1, a2}
    Specs <- Order
    Retries = 2
    Monitored = FALSE
    MaxStarts = 1
    MaxExits = 0
    MaxFaults = 0
    MaxKills = 0
PROPERTY ShutdownStopsContainers
CHECK_DEADLOCK FALSE
