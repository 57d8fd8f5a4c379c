\* Two clients of two calls each, on both backends.
CONSTANTS
    Clients = {c1, c2}
    MaxCalls = 2
    Workloads = {{"push", "pop"}, {"push", "clear"}, {"put", "collect"}, {"append"}}
    b1 = b1
    Empty = Empty
    Pushes <- MCPushes
    MaxKey = 2
    PageSize = 1
    NoItem = NoItem
SYMMETRY Symmetric
SPECIFICATION Spec
CHECK_DEADLOCK FALSE
INVARIANTS
    ActsOnce
    CollectTakesAll
    LaterPutStays
