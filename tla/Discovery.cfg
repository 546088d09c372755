SPECIFICATION FairSpec
CONSTANTS
    MaxChanges = 8
    MaxFaults = 1
PROPERTIES Discovered
CHECK_DEADLOCK FALSE
