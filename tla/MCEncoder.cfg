SPECIFICATION FairSpec
CONSTANTS
    HEAD = HEAD
    TAIL = TAIL
    BLOCKSIZE = 2
    MaxUnits = 3
    MaxFaults = 1
INVARIANTS TypeOK Conservation ReceiverHasPrefix ClosedIsComplete OneHeaderOneTrailer
PROPERTIES CallsEnd DroppedIsFinished ImplementsSink
CHECK_DEADLOCK FALSE
