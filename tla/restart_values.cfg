CONSTANTS
    Key <- MCKey
    Val <- MCVal1
    ByteRank <- MCByteRank
    SP = "SP"
    NL = "NL"
    NUL = "NUL"
    Stale = {"NUL"}
    FREED = FREED
    Garbage <- MCGarbage1
    MIN_CAP = 6
    Signal = {"SIGTERM", "SIGINT"}
SPECIFICATION Spec
PROPERTIES
    LoadsWhatWasSaved
