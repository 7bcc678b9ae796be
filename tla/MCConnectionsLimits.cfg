CONSTANTS
    c1 = c1
    c2 = c2
    c3 = c3
    x1 = x1
    x2 = x2
    x3 = x3
    root = root
    right = right
    wrong = wrong
    num_fds = 4
    last_fd = 3
    sfd = 0
    num_databases = 2
    Keys = {}
    Vals = {}
    SelectArgs <- MCSelectArgs
    Users <- MCUsers
    Names <- MCUsers
    Passwords <- MCPasswords
    password <- MCpassword
    initial_cap = 1
    OutOfMemory = FALSE
    Inherited = {{}, {3}}
    Conns = {c1, c2, c3}
    Cells = {x1, x2, x3}
    CmdsTried <- LoginPing
    MaxSegs = 1
    MaxTaken = 1
    MaxOom = 1
    snd_cap = 1
    reply_len = 1
    READ_BUF_CAP = 1
    Pipelining = FALSE
    Fragments = FALSE
    Shutdowns = FALSE
    Resets = TRUE
    Interrupts = TRUE
SPECIFICATION Spec
INVARIANTS
    TypeOK
    StateIsOwn
    ClientsAreConnections
    EventsReachTheirConnection
    MaxFdExact
    WatchedAsRegistered
    OnlyResetsKill
PROPERTIES
    StopsClean
SYMMETRY Symmetry
CHECK_DEADLOCK FALSE
