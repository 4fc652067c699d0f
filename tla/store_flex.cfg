CONSTANTS
    k1 = k1  k2 = k2  k3 = k3  long = long
    v1 = v1  v2 = v2  wide = wide
    Key <- MCKey
    KeyLen <- FlexKeyLen
    KeyRank <- FlexKeyRank
    MaxKeyRank = 2
    Val <- MCVal1
    ValLen <- MCValLen
    MAX_LEVEL = 2
    HEAD = HEAD
    NULL = NULL
    FREED = FREED
    FixedLength = FALSE
    key_len = 1
    val_len = 1
    MallocCanFail = TRUE
SPECIFICATION BoundedSpec
CHECK_DEADLOCK FALSE
INVARIANTS SameLength Reachable NodesIndexed
