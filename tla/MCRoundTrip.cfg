SPECIFICATION RTFairSpec
CONSTANTS
    HEAD = HEAD
    TAIL = TAIL
    BAD = BAD
    NoSize = NoSize
    BLOCKSIZE = 2
    MaxUnits = 3
    MaxFaults = 0
    MaxSize = 2
INVARIANT WaitingIsNoError
PROPERTIES ImplementsChannel ReaderGetsAll
