SPECIFICATION Spec
CONSTANTS
    LogLines <- MCLogLines
    FileLines <- MCFileLines
    MaxLog = 3
    MaxFile = 4
INVARIANTS GateVerdict
CHECK_DEADLOCK FALSE
