SPECIFICATION ReloadSpec
CONSTANTS
    p1 = p1
    v1 = v1
    h1 = h1
    h2 = h2
    NoVersion = NoVersion
    Free = Free
    Printers = {p1}
    Versions = {v1}
    VersionReporting = {}
    Handlers = {h1, h2}
    Cooldown = 1
    QuickCalls = TRUE
    MaxChanges = 2
    MaxFaults = 1
    MaxRestarts = 2
    MaxClock = 1
SYMMETRY SlotSymmetry
INVARIANTS NoDuplicateTasks
CHECK_DEADLOCK FALSE
