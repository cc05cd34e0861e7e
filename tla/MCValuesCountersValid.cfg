CONSTANTS
    Parts <- CountersOnly
    Unrestricted = FALSE
SPECIFICATION Spec
INVARIANT CountersValid
