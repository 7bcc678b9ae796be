CONSTANTS
    c1 = c1
    c2 = c2
    c3 = c3
    x1 = x1
    x2 = x2
    x3 = x3
    root = root
    right = right
    wrong = wrong
    num_fds = 3
    last_fd = 2
    sfd = 0
    num_databases = 2
    Keys = {}
    Vals = {}
    SelectArgs <- MCSelectArgs
    Users <- MCUsers
    Names <- MCUsers
    Passwords <- MCPasswords
    password <- MCpassword
    initial_cap = 1
    OutOfMemory = FALSE
    Inherited = {{}}
    Conns = {c1, c2}
    Cells = {x1, x2}
    CmdsTried <- LoginPing
    MaxSegs = 2
    MaxTaken = 4
    MaxOom = 0
    snd_cap = 2
    reply_len = 2
    READ_BUF_CAP = 2
    Pipelining = FALSE
    Fragments = FALSE
    Shutdowns = FALSE
    Resets = FALSE
    Interrupts = FALSE
SPECIFICATION FairSpec
PROPERTIES
    EventuallyAccepted
    EventuallyAnswered
CHECK_DEADLOCK FALSE
