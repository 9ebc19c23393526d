CONSTANTS
    MaxOpens = 2
    MaxReboots = 2
SPECIFICATION FairSpec
INVARIANTS
    StartTruthful
    FaultHasCause
    RebootRestores
PROPERTIES
    OneReceiver
    CallsEnd
    RebootEnds
CHECK_DEADLOCK FALSE
