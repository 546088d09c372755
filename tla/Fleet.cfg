SPECIFICATION HSpec
CONSTANTS
    p1 = p1
    p2 = p2
    v1 = v1
    h1 = h1
    h2 = h2
    h3 = h3
    NoVersion = NoVersion
    Free = Free
    Printers = {p1, p2}
    Versions = {v1}
    VersionReporting = {}
    Handlers = {h1, h2, h3}
    Cooldown = 1
    QuickCalls = TRUE
    MaxChanges = 4
    MaxFaults = 1
    MaxRestarts = 1
    MaxClock = 1
SYMMETRY FleetSymmetry
INVARIANTS TypeOK NoDuplicateTasks PlanStaysValid CompletionPerOff
CHECK_DEADLOCK FALSE
