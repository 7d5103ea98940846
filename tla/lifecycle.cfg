SPECIFICATION FairSpec
CONSTANTS
    Config <- MCConfig
    MaxTargets = 2
    MaxWrites = 2
INVARIANT TypeOK
INVARIANT AckedKept
INVARIANT CleanStopDurable
INVARIANT PanicContained
INVARIANT RequestResolves
PROPERTY StopEnds
PROPERTY StoreLossShown
