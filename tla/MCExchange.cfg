SPECIFICATION ExchangeSpec
CONSTANTS
    VSTR_MAX_LARGE_SIZE = 1000
    Requests <- PlainRequests
    Replies <- PlainReplies
    Lines <- PlainLines
INVARIANTS
    WholeRequestUnderstood
    HeadIsRefused
    WholeReplyUnderstood
    LineUnderstood
CHECK_DEADLOCK FALSE
