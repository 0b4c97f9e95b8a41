SPECIFICATION FairSpec
CONSTANTS
    f1 = f1
    f2 = f2
    NumRaw = 3
    File = {f1}
INVARIANTS SortedDepsFirst SortIsExact
PROPERTIES SortEnds
CHECK_DEADLOCK FALSE
