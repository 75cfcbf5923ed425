SPECIFICATION Spec
CONSTANTS
    HEAD = HEAD
    TAIL = TAIL
    BLOCKSIZE = 2
    MaxUnits = 3
    MaxFaults = 1
INVARIANTS ClosedIsXzFormat
CHECK_DEADLOCK FALSE
