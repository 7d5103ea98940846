SPECIFICATION FairSpec
CONSTANTS
    Half = 2
    Mantissas = 16
    Exponents = 3
    Scraped <- MCScraped
    Request <- MCRequest
    MaxTime = 4
    Window = 3
    Ms = 2
    MAX_BUCKETS = 4
    MaxInserts = 3
INVARIANT TypeOK
INVARIANT StoredRounded
INVARIANT SplitKeepsRun
INVARIANT AnswerExact
INVARIANT AxisCovers
PROPERTY CompactionEnds
CHECK_DEADLOCK FALSE
