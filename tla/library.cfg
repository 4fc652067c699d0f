SPECIFICATION LibrarySpec
CONSTANTS
    Fd = {0, 1, 2}
    proc = proc
    data = data
    Proc = {proc}
    Data = {data}
    SetSize = {2, 3}
    CLOSED = CLOSED
    NULL = NULL
    SECOND = 2
    INT_MAX = 2
    Delays = {0, 2, 7}
    MaxTimers = 3
    MaxClock = 4
    a = a
    b = b
    Letter = {a, b}
    NUL = NUL
    LIMIT_5 = 2
    LIMIT_8 = 4
    LIMIT_16 = 100
    SDS_MAX_PREALLOC = 3
    MaxText = 5
    MaxPart = 2
    Sep <- Seps
    SplitByte = {32, 97}
    ArgByte = {0, 10, 32, 34, 39, 48, 92, 97, 120, 255}
    MaxSplit = 7
    MaxArg = 2
    SLOTS = 2
    LLONG_MAX = 63
    Char = {32, 45, 48, 49, 50, 51, 52, 53, 54, 55, 56, 57}
    MaxWord = 4
    b1 = b1
    b2 = b2
    b3 = b3
    Block = {b1, b2, b3}
    Size = {0, 1, 7, 8, 9}
    LONG = 8
    PREFIX_SIZE = 8
    Descriptor = {3, 4, 5}
    ERR = ERR
    MaxAddresses = 2
    MaxCount = 2
    Cwd <- StartDirs
    PathChar = {"/", ".", "a", " "}
    MaxName = 6
    Line <- Lines
    MaxLines = 3
    ConfigFile <- ConfigPlace
    Directory <- Tree
    Writable <- WritableDirs
    CONFIG_DEFAULT_SERVER_PORT = 2
    CONFIG_DEFAULT_PID_FILE <- PidFile
    NONE = NONE
    c1 = c1
    c2 = c2
    Channel = {c1, c2}
    MaxIssued = 3
    MaxSpontaneous = 1
INVARIANTS
    LoopAgrees
    NoTimerLost
    DueIsCalled
    SdsIsString
    SplitsUndo
    NumbersExact
    UsedMemoryExact
    SocketsAccounted
    StartedAsAsked
    RepliesReachTheirCallbacks
SYMMETRY Channels
CHECK_DEADLOCK FALSE
