CONSTANTS
    Byte <- MCByte
    Stream <- MCStream
    Scripts <- QuitScripts
    CR = "CR"
    LF = "LF"
    SP = "SP"
    QUOTE = "QUOTE"
    StarCount <- MCStarCount
    DollarLen <- MCDollarLen
    MAX_COUNT = 3
    MAX_BULK = 6
    QUIT <- MCQuit
    IOBUF_LEN = 24
    BIG_ARG = 12
    INLINE_MAX_SIZE = 48
SPECIFICATION StreamSpec
INVARIANTS
    NeverAborts
CHECK_DEADLOCK FALSE
