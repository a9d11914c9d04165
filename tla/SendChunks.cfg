SPECIFICATION FairSpec
CONSTANTS
    NumEvents = 3
    NumMetrics = 2
    HecToken = TRUE
    OtelUrl = TRUE
    ChunkSize = 2
    MaxRetries = 2
    Copies = {m1, m2}
    First = m1
    MaxLost = 1
    m1 = m1
    m2 = m2
CHECK_DEADLOCK FALSE
INVARIANTS
    EverythingAnswered
    DuplicatesBounded
PROPERTIES
    SendEnds
