SPECIFICATION LifeSpec
CONSTANTS
    x1 = x1
    h1 = h1
    h2 = h2
    NoVersion = NoVersion
    NoSerial = NoSerial
    Free = Free
    Printers = {x1}
    model <- MCmodel
    Items = {"carbon_filter", "carbon_rods"}
    OptionChoices <- MCOptionChoices
    Handlers = {h1, h2}
    MaxInstances = 2
    MaxChanges = 3
    MaxFaults = 1
SYMMETRY RemovalSymmetry
INVARIANTS TypeOK CatalogConverges RemovalSparesOnlyFailures
CHECK_DEADLOCK FALSE
