SPECIFICATION HistorySpec
CONSTANTS
    i1 = i1
    i2 = i2
    e1 = e1
    e2 = e2
    Ids = {i1, i2}
    Revisions = {0, 1}
    Exprs = {e1, e2}
    Valid = {e1, e2}
    Removed = Removed
    Rejected = Rejected
    MaxUpdates = 2
    Snapshots <- MCSnapshots
INVARIANTS
    HistoryBounded
    RebuiltIsLive
CHECK_DEADLOCK FALSE
