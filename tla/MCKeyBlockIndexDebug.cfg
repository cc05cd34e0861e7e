CONSTANTS
    KeyBits = 4
    Lts <- MCLts
    MaxBlocks = 3
    OverflowChecks = TRUE

SPECIFICATION Spec

INVARIANT PrevKeyBlockCorrect

