SPECIFICATION Spec
CONSTANTS
    f1 = f1
    f2 = f2
    Filters <- SomeFilters
    Blank = Blank
    Num = Num
    BadNum = BadNum
    Nil = Nil
    Object = Object
    ArgLists <- SomeArgs
INVARIANTS TypeOK ChainIsGiven CheckIsGiven ProperCallBuilds CrashNeedsMisuse
CHECK_DEADLOCK FALSE
