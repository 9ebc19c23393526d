CONSTANTS
    Models = {"D2", "D4", "V6"}
    Settings = {"power", "regulation", "antenna", "loopAntenna", "loopTime", "time"}
    Asked <- SmallAsked
    Factory <- SmallFactory
    MaxRequests = 3
SPECIFICATION Spec
INVARIANTS
    TypeOK
    GetTruthful
    SetTruthful
    KeywordKept
    ThrowHasCause
CHECK_DEADLOCK FALSE
