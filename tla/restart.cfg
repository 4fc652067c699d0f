CONSTANTS
    Key <- MCKey
    Val <- MCVal
    ByteRank <- MCByteRank
    SP = "SP"
    NL = "NL"
    NUL = "NUL"
    Stale = {"NUL", "v", "SP"}
    FREED = FREED
    Garbage <- MCGarbage
    MIN_CAP = 2
    Signal = {"SIGTERM", "SIGINT"}
SPECIFICATION Spec
CONSTRAINT Undamaged
VIEW View
PROPERTIES
    KeysKept
    LoadsWhatWasSaved
