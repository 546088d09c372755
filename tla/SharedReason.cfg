SPECIFICATION Spec
CONSTANTS
    LogLines <- MCLogLines
    FileLines <- MCFileLines
    MaxLog = 2
    MaxFile = 3
INVARIANTS EveryEntryHasItsReason
CHECK_DEADLOCK FALSE
