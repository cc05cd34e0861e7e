CONSTANTS
    Parts <- AllParts
    Unrestricted = FALSE
SPECIFICATION Spec
\* A refused write_to ends a round trip: nothing follows it.
CHECK_DEADLOCK FALSE
INVARIANT TypeOK
INVARIANT NewShardsCorrect
INVARIANT CcSeqnoOfNewShards
INVARIANT RoundTrip
INVARIANT StateRoundTrip
INVARIANT BlockRoundTripOwnOpts
INVARIANT MempoolBoundEnforced
INVARIANT CollatorsRoundTrip
INVARIANT StatsRoundTrip
INVARIANT DescriptorsRoundTrip
INVARIANT CopyleftReadsLastWrite
PROPERTY NoDecayWithoutElapsedTime
