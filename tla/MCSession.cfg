CONSTANTS
    MaxCmds = 2
    MaxLines = 1
    Kinds <- ManyKinds
    WatchDogSettings = {TRUE, FALSE}
    SlowClient = TRUE
    SpuriousWakeups = TRUE
    LinkMayDrop = TRUE
SPECIFICATION Spec
INVARIANTS
    TypeOK
    OwnAnswers
    SafeUnlessCutShort
    QueueDrained
    LeftoverHasCause
CHECK_DEADLOCK FALSE
