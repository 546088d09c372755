SPECIFICATION LifeSpec
CONSTANTS
    x1 = x1
    h1 = h1
    h2 = h2
    NoVersion = NoVersion
    NoSerial = NoSerial
    Free = Free
    Printers = {x1}
    model <- MCmodel
    Items = {"carbon_filter", "carbon_rods"}
    OptionChoices <- MCOptionChoices
    Handlers = {h1, h2}
    MaxInstances = 1
    MaxChanges = 2
    MaxFaults = 0
SYMMETRY RemovalSymmetry
INVARIANTS RemovalLeavesNothing
CHECK_DEADLOCK FALSE
