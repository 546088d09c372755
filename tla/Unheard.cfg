SPECIFICATION Spec
CONSTANTS
    x1 = x1
    a1 = a1
    p1s = p1s
    f1 = f1
    f2 = f2
    NoSerial = NoSerial
    NoPrinter = NoPrinter
    Printers = {p1s}
    serial <- MCserial
    model <- MCmodel
    Items = {"carbon_filter", "carbon_rods"}
    Flows = {f1}
    InitialOptions <- MCInitialOptions
    ModelChoices = {"X1", "A1"}
    Edits <- MCEdits
    MaxSubmissions = 1
    MaxChanges = 0
INVARIANTS EveryPrinterListens
CHECK_DEADLOCK FALSE
