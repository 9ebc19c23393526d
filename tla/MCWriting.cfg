CONSTANTS
    Tids = {t1, t2}
    Epcs = {t1, t2, e3}
    Factory <- SmallFactory
    MaxCalls = 2
    MaxAlarms = 3
SPECIFICATION Spec
SYMMETRY Interchangeable
INVARIANTS
    WriteTruthful
    CheckTruthful
PROPERTY OthersUntouched
CHECK_DEADLOCK FALSE
