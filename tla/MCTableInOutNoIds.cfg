SPECIFICATION Spec
CONSTANTS
    Substreams = {s1}
    Workers = {w1, w2}
    MaxInputs = 2
    MaxReplies = 1
    MaxBatches = 1
    MaxOthers = 0
    SendsIds = FALSE
    NoWorker = NoWorker
    NoExec = NoExec
INVARIANT
    TurnsCountedOnce
CHECK_DEADLOCK FALSE
