SPECIFICATION Spec
CONSTANTS
    s1 = s1
    s2 = s2
    s3 = s3
    Strings <- SomeStrings
    Buffers <- SomeBuffers
    Nil = Nil
    MaxDest = 2
    MaxHeld = 2
    Memories <- SomeMemories
    MaxCalls = 2
    MaxOther = 1
INVARIANTS TypeOK MemorySafe
PROPERTIES OthersKeepText ImplementsAtomic
CHECK_DEADLOCK FALSE
