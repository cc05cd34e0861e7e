CONSTANTS
    Parts <- BlockOnly
    Unrestricted = TRUE
SPECIFICATION Spec
CHECK_DEADLOCK FALSE
INVARIANT BlockRoundTrip
