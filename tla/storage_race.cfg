SPECIFICATION Spec
CONSTANTS
    Host = {h1}
    Label = {a}
    NoValue = NoValue
    Value <- MCValue
    Quantize <- MCQuantize
    Batch <- SingleBatches
    Span <- WholeSpan
    MaxTime = 3
    Window = 2
    Retention = 2
    MaxInserts = 2
    CanRot = FALSE
INVARIANT CompactionInvisible
