SPECIFICATION FairSpec
CONSTANTS
    Streams = {s1, s2, s3, s4}
    Threads = {t1, t2}
    Nil = Nil
    Units = 2
INVARIANTS TypeOK CoderHasObject MemErrorIsReal
PROPERTY DroppedIsFreed
