CONSTANTS
    t1 = t1
    t2 = t2
    Threads <- TwoThreads
    MaxOpens = 3
SYMMETRY Symmetry
SPECIFICATION Spec
INVARIANTS
    TypeOK
    TableKept
    OwnReader
    ResultIntact
    FaultHasCause
CHECK_DEADLOCK FALSE
