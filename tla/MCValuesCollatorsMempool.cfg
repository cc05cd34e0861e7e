CONSTANTS
    Parts <- CollatorsOnly
    Unrestricted = TRUE
SPECIFICATION Spec
CHECK_DEADLOCK FALSE
INVARIANT CollatorsRoundTrip
