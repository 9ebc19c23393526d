CONSTANTS
    Antennas = {a1, a2}
    Epcs <- FitAndLongEpcs
    Tids <- FitTids
    EPC_LEN = 2
    TID_LEN = 3
    ReaderID <- OneDigit
    Rooms = {2}
    MaxLines = 3
SPECIFICATION Spec
SYMMETRY Interchangeable
INVARIANTS
    StatCountRespected
