CONSTANTS
    qa = qa
    qb = qb
    Queries = {qa, qb}
    Workers <- MCWorkers
    Readers <- MCReaders
    Keys <- MCKeys
    Sites <- SiblingSites
    MaxEntries = 1
    MaxPages = 3
    PerPage = 2
    Stride = 2
    ManySplits = 3
    OldVersion = 99
    NoKey = NoKey
    NoVersion = NoVersion
SPECIFICATION Spec
INVARIANTS RerunsEarned
CHECK_DEADLOCK FALSE
