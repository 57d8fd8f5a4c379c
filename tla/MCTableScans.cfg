CONSTANTS
    qa = qa
    qb = qb
    Queries = {qa, qb}
    Workers <- MCWorkers
    Readers <- MCReaders
    Keys <- MCKeys
    Sites <- MCSites
    MaxEntries = 1
    MaxPages = 3
    PerPage = 2
    Stride = 2
    ManySplits = 3
    OldVersion = 99
    NoKey = NoKey
    NoVersion = NoVersion
SPECIFICATION Spec
INVARIANTS RowsExactlyOnce OneSnapshot AdmittedRunsOn RerunsEarned IndexAscends
PROPERTY QueryEnds
CHECK_DEADLOCK FALSE
