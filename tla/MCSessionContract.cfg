CONSTANTS
    MaxCmds = 2
    MaxLines = 1
    Kinds <- TwoKinds
    WatchDogSettings = {TRUE}
    SlowClient = FALSE
    SpuriousWakeups = FALSE
    LinkMayDrop = TRUE
SPECIFICATION FairSpec
PROPERTIES
    BlocksUntilCompleted
    CommandReturns
