SPECIFICATION FairSpec
CONSTANTS
    HEAD = HEAD
    TAIL = TAIL
    BAD = BAD
    NoSize = NoSize
    Files <- SomeFiles
    BLOCKSIZE = 2
    MaxSize = 2
    MaxFaults = 1
INVARIANTS TypeOK BytesInOrder NoByteTwice EndMeansComplete
PROPERTIES ReadsEnd
