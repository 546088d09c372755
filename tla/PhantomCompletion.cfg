SPECIFICATION HSpec
CONSTANTS
    p1 = p1
    v1 = v1
    v2 = v2
    h1 = h1
    h2 = h2
    h3 = h3
    NoVersion = NoVersion
    Free = Free
    Printers = {p1}
    Versions = {v1, v2}
    VersionReporting = {p1}
    Handlers = {h1, h2, h3}
    Cooldown = 2
    QuickCalls = TRUE
    MaxChanges = 5
    MaxFaults = 0
    MaxRestarts = 0
    MaxClock = 2
SYMMETRY HandlerSymmetry
INVARIANTS CompletionPerOff
CHECK_DEADLOCK FALSE
