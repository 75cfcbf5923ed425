SPECIFICATION Spec
CONSTANTS
    Lzma = {f, g}
    Delta = {h}
    Blocks = {b1, b2, b3}
    Dicts = {d1, d2, d3}
    Nil = Nil
    Empty = Empty
    MaxUsed = 1
SYMMETRY Symmetry
INVARIANTS TypeOK OneOwner NoLeak DictKept StreamDictKept
CHECK_DEADLOCK FALSE
