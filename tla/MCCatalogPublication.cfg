SPECIFICATION Spec
CONSTANTS
    Managers = {g1, g2}
    Calls = {c1, c2, c3}
    k1 = k1
    Keys = {k1}
    Objects = {1, 2}
    Ids = {1, 2, 3, 4}
    Grace = 3
    RequestTimeout = 1
    UrlTtl = 4
    RetainTtl = 6
    MaxTime = 3
    MaxCached = 1
    Durable = TRUE
    Foreign <- MCNoForeign
    NoManifest = NoManifest
    NoCall = NoCall
    NoManager = NoManager
SYMMETRY Sym
INVARIANTS
    ServedWasCommitted
    ServedStaysReadable
    DurableIsVerified
    OneObjectPerKey
    SharedPublication
PROPERTY
    ReplacedOnlyAsSeen
    ImplementsRegister
CHECK_DEADLOCK FALSE
