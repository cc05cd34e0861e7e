CONSTANTS
    r1 = r1
    r2 = r2
    rdefault = rdefault
    Refs <- MCRefs
    DefaultRef = rdefault
    MaxSplitDepth = 2
    IdInputs <- MCIdInputs

SPECIFICATION Spec

\* with_ids returns its tree or an error, and stops.
CHECK_DEADLOCK FALSE

PROPERTY WithIdsRefined
