CONSTANTS
    k1 = k1  k2 = k2  k3 = k3  long = long
    v1 = v1  v2 = v2  wide = wide
    Key <- MCKey
    KeyLen <- MCKeyLen
    KeyRank <- MCKeyRank
    MaxKeyRank = 2
    Val <- MCVal
    ValLen <- MCValLen
    MAX_LEVEL = 3
    HEAD = HEAD
    NULL = NULL
    FREED = FREED
    FixedLength = TRUE
    key_len = 1
    val_len = 1
    MallocCanFail = FALSE
SPECIFICATION Spec
CHECK_DEADLOCK FALSE
INVARIANTS TypeOK Linked IndexAgreement LengthCounts LevelTight NeverCrashes WalkAgrees
PROPERTIES StoreSpec
