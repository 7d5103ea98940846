SPECIFICATION FairSpec
CONSTANTS
    Host = {h1}
    Label = {a}
    NoValue = NoValue
    Value <- MCValue
    Quantize <- MCQuantize
    Batch <- MixedBatches
    Span <- SomeSpans
    MaxTime = 3
    Window = 2
    Retention = 2
    MaxInserts = 2
    CanRot = TRUE
INVARIANT TypeOK
INVARIANT LastWriteVisible
INVARIANT ChunksDisjoint
INVARIANT CacheSound
INVARIANT QueryExact
PROPERTY ImplementsTimeSeries
PROPERTY EventuallyCompacted
PROPERTY EventuallyExpired
