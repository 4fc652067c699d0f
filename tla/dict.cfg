SPECIFICATION WalkSpec
CONSTANTS
    a = a
    b = b
    c = c
    NULL = NULL
    Key <- Keys
    Hash <- HashCollide
    DICT_HT_INITIAL_SIZE = 1
    dict_force_resize_ratio = 1
    RehashesAtOnce = 2
    MaxSize = 2
    MaxRounds = 2
    WORD = 3
VIEW View
INVARIANTS
    KeysOnce
    UsedCounts
    RehashFindsBucket
    IterationComplete
    ScanCompleteUnlessMisled
PROPERTIES
    NoDuplicates
    IsSet
