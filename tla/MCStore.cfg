CONSTANTS
    c1 = c1
    c2 = c2
    root = root
    guest = guest
    right = right
    wrong = wrong
    k1 = k1
    k2 = k2
    v1 = v1
    v2 = v2
    Conns <- MCConns
    num_databases = 2
    Keys = {k1, k2}
    Vals = {v1, v2}
    SelectArgs <- MCSelectArgs
    Users <- MCUsers
    Names <- MCNames
    Passwords <- MCPasswords
    password <- MCpassword
    initial_cap = 1
    OutOfMemory = TRUE
    CmdsTried <- Cmd
    MaxExecuted = 3
SPECIFICATION BoundedSpec
INVARIANTS
    StoreTypeOK
    CapacityCovers
PROPERTIES
    RefusedMeansUnchanged
    OnlyOwnDatabase
CHECK_DEADLOCK FALSE
