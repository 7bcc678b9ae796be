CONSTANTS
    a1 = a1
    a2 = a2
    a3 = a3
    a4 = a4
    Objs <- MCObjs
    hash <- LongHash
    HtVals = {a1, a2, a3, a4}
    HT_INITIAL_CAP = 1
    int_modulus = 4
    HtOutOfMemory = TRUE
    Parts = {"dict"}
    VEC_INITIAL_CAP = 1
    MaxLen = 4
    MaxOom = 2
    size_modulus = 16
SPECIFICATION CollectionsSpec
CHECK_DEADLOCK FALSE
PROPERTIES
    GetFindsStoredKey
