SPECIFICATION FairSpec
CONSTANTS
    p1 = p1
    v1 = v1
    h1 = h1
    h2 = h2
    NoVersion = NoVersion
    Free = Free
    Printers = {p1}
    Versions = {v1}
    VersionReporting = {}
    Handlers = {h1, h2}
    Cooldown = 1
    QuickCalls = FALSE
    MaxChanges = 3
    MaxFaults = 0
    MaxRestarts = 0
    MaxClock = 2
PROPERTIES UpdateNotHidden
CHECK_DEADLOCK FALSE
