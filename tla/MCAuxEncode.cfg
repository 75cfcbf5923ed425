SPECIFICATION AuxFairSpec
CONSTANTS
    HEAD = HEAD
    TAIL = TAIL
    BLOCKSIZE = 2
    MaxUnits = 2
    MaxFaults = 1
INVARIANTS ValueMeansComplete ExceptionFinishesToo
PROPERTY EncodeAnswers
CHECK_DEADLOCK FALSE
