SPECIFICATION Spec
CONSTANTS
    Clients = {c1, c2}
    Workers = {w1, w2}
    Kinds = {"table", "view"}
    Silent = {"view"}
    Modes = {"reval", "hash", "unknown", "frozen", "published"}
    MaxChanges = 2
    MaxLoads = 3
    NoSnapshot = NoSnapshot
    NoPublication = NoPublication
    NoWorker = NoWorker
SYMMETRY MCSymmetry
INVARIANTS
    LabelsAreTrue
    FirstCallsShareBuild
PROPERTY
    KnownVersionKept
CHECK_DEADLOCK FALSE
