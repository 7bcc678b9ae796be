CONSTANTS
    Argvs <- MCArgvs
    Files <- MCFiles
    Long <- MCLong
    MaxFaults = 1
    Word = 1048576
    UINT16_MAX = 65535
    DEFAULT_ADDRESS <- MCDefaultAddress
    DEFAULT_PORT = 6969
    DEFAULT_DATABASES = 16
    VEC_INITIAL_CAP = 2
SPECIFICATION Spec
INVARIANTS
    ConfigAsWritten
    UsersAsWritten
    ReleasedOnce
CHECK_DEADLOCK FALSE
