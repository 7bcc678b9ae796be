CONSTANTS
    a1 = a1
    a2 = a2
    a3 = a3
    a4 = a4
    Objs <- MCObjs
    hash <- MCHash
    HtVals = {a1, a2, a3, a4}
    HT_INITIAL_CAP = 1
    int_modulus = 4
    HtOutOfMemory = TRUE
    Parts = {"dict", "args", "vec", "queue", "set"}
    VEC_INITIAL_CAP = 1
    MaxLen = 4
    MaxOom = 2
    size_modulus = 16
SPECIFICATION CollectionsSpec
SYMMETRY Addresses
CHECK_DEADLOCK FALSE
INVARIANTS
    CollectionsTypeOK
    IteratorsComplete
    OwnedOnce
PROPERTIES
    ImplementsDict
    ImplementsContainers
