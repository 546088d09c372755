SPECIFICATION FairHSpec
CONSTANTS
    p1 = p1
    v1 = v1
    v2 = v2
    h1 = h1
    h2 = h2
    NoVersion = NoVersion
    Free = Free
    Printers = {p1}
    Versions = {v1, v2}
    VersionReporting = {p1}
    Handlers = {h1, h2}
    Cooldown = 1
    QuickCalls = FALSE
    MaxChanges = 3
    MaxFaults = 1
    MaxRestarts = 1
    MaxClock = 1
INVARIANTS QuiescentMirror
PROPERTIES RefinesMirror EveryHandlerFinishes
CHECK_DEADLOCK FALSE
