CONSTANTS
    VSTR_MAX_SMALL_SIZE = 3
    VSTR_MAX_LARGE_SIZE = 6
    Chars <- MCChars
    Pieces <- MCPieces
    VstrOutOfMemory = TRUE
SPECIFICATION VstrSpec
INVARIANTS
    InBounds
    HoldsWhatWasPushed
    Terminated
