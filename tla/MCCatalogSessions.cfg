SPECIFICATION Spec
CONSTANTS
    Workers = {w1, w2}
    Keys = {k1, k2}
    Sites <- MCSites
    Callers <- MCCallers
    Options <- MCOptions
    Ttls = {0, 1, 3}
    Changes <- MCChanges
    Skew = 1
    Start = 2
    NoKey = NoKey
    NoTicket = NoTicket
SYMMETRY MCSymmetry
INVARIANTS
    OwnAttachment
    OwnNotRefused
    TicketRestoresAttach
    TicketLife
    TransactionStaysWithAttach
PROPERTY
    VersionMovesWithContents
CHECK_DEADLOCK FALSE
