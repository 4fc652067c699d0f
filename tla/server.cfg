SPECIFICATION Spec
CONSTANTS
    c1 = c1
    c2 = c2
    Conn = {c1, c2}
    Fd = {0, 1, 2, 3}
    Proc <- Handlers
    Data = {c1, c2}
    SetSize = {4}
    MAX_EVENT_SIZE = 4
    CLOSED = CLOSED
    NULL = NULL
    EPOLL = EPOLL
    LISTEN = LISTEN
    LOG = LOG
    Inherited = {{}, {2}}
    Room = 2
    MaxReply = 3
INVARIANTS
    OneClientPerDescriptor
PROPERTIES
    ReplyWhole
    ServedEventually
    AcceptedEventually
CHECK_DEADLOCK FALSE
