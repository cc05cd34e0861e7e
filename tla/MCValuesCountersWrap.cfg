CONSTANTS
    Parts <- CountersOnly
    Unrestricted = FALSE
    CtCounts <- CtWrapCounts
SPECIFICATION Spec
PROPERTY NoWrapOnAccept
