CONSTANTS
    MaxCmds = 2
    MaxLines = 1
    Kinds <- TwoKinds
    WatchDogSettings = {TRUE}
    SlowClient = FALSE
    SpuriousWakeups = FALSE
    LinkMayDrop = FALSE
SPECIFICATION Spec
INVARIANT
    ReturnsAfterFirstPacket
