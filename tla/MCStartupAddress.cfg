CONSTANTS
    Argvs <- MCArgvs
    Files <- MCFiles
    Long <- MCLong
    MaxFaults = 0
    Word = 1048576
    UINT16_MAX = 65535
    DEFAULT_ADDRESS <- MCDefaultAddress
    DEFAULT_PORT = 6969
    DEFAULT_DATABASES = 16
    VEC_INITIAL_CAP = 2
SPECIFICATION Spec
INVARIANT
    BoundAsWritten
CHECK_DEADLOCK FALSE
