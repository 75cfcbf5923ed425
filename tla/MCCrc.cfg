SPECIFICATION Spec
CONSTANTS
    s1 = s1
    s2 = s2
    Strings <- SomeStrings
    Buffers <- SomeBuffers
    Threads = {t1, t2}
    Memories <- SomeMemories
    MaxUpdates = 3
    MaxOther = 2
INVARIANTS TypeOK DupIsEnough StateIsWhole
CHECK_DEADLOCK FALSE
