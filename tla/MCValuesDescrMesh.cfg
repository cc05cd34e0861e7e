CONSTANTS
    Parts <- DescrOnly
    Unrestricted = TRUE
SPECIFICATION Spec
CHECK_DEADLOCK FALSE
INVARIANT RoundTrip
