CONSTANTS
    KeyBits = 4
    Lts <- MCLts
    MaxBlocks = 3
    OverflowChecks = FALSE

SPECIFICATION Spec

INVARIANT TypeOK
INVARIANT PrevKeyBlockCorrect
INVARIANT NextKeyBlockCorrect

