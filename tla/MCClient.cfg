CONSTANTS
    MaxCalls = 4
    MaxOom = 1
    req_len = 2
    reply_len = 3
    snd_cap = 3
    READ_BUF_INITIAL_CAP = 2
    ServerMayDie = TRUE
SPECIFICATION FairSpec
INVARIANTS
    TypeOK
    AnswerIsOwn
    StaysInStep
    LoggedInOnBothSides
PROPERTIES
    CallsReturn
CHECK_DEADLOCK FALSE
