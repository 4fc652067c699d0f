CONSTANTS
    Byte <- MCByte
    Stream <- MCStream
    Scripts <- AllScripts
    CR = "CR"
    LF = "LF"
    SP = "SP"
    QUOTE = "QUOTE"
    StarCount <- MCStarCount
    DollarLen <- MCDollarLen
    MAX_COUNT = 3
    MAX_BULK = 13
    QUIT <- MCQuit
    IOBUF_LEN = 12
    BIG_ARG = 12
    INLINE_MAX_SIZE = 12
SPECIFICATION StreamFairSpec
INVARIANTS
    TypeOK
    ArgvFits
    AssertsHoldUntilQuit
    BigExecutedInOrder
    ReadsSomething
PROPERTIES
    AllExecuted
CHECK_DEADLOCK FALSE
