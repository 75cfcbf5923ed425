SPECIFICATION AuxSpec
CONSTANTS
    HEAD = HEAD
    TAIL = TAIL
    BLOCKSIZE = 2
    MaxUnits = 2
    MaxFaults = 1
INVARIANT BlockValueReturned
CHECK_DEADLOCK FALSE
