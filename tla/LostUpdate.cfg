SPECIFICATION Spec
CONSTANTS
    x1 = x1
    a1 = a1
    p1s = p1s
    f1 = f1
    f2 = f2
    NoSerial = NoSerial
    NoPrinter = NoPrinter
    Printers = {x1, a1}
    serial <- MCserial
    model <- MCmodel
    Items = {"carbon_filter", "carbon_rods"}
    Flows = {f1, f2}
    InitialOptions <- MCInitialOptions
    ModelChoices = {"X1", "A1"}
    Edits <- MCEdits
    MaxSubmissions = 2
    MaxChanges = 0
SYMMETRY FlowSymmetry
INVARIANTS AnswersKept
CHECK_DEADLOCK FALSE
