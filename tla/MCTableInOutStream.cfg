\* Both transports; liveness is checked, so no symmetry.
SPECIFICATION FairSpec
CONSTANTS
    Substreams = {s1, s2}
    Workers = {w1, w2}
    MaxInputs = 2
    MaxReplies = 2
    MaxBatches = 2
    MaxOthers = 2
    SendsIds = TRUE
    NoWorker = NoWorker
    NoExec = NoExec
INVARIANTS
    TurnsCountedOnce
    TurnNeverRefused
    DeliveredInOrder
    StoredIsCarried
PROPERTIES
    ImplementsResult
    QueryEnds
CHECK_DEADLOCK FALSE
