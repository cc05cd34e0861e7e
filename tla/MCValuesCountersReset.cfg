CONSTANTS
    Parts <- CountersOnly
    Unrestricted = FALSE
SPECIFICATION Spec
PROPERTY LongWindowReset
